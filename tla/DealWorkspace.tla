---------------------------- MODULE DealWorkspace ----------------------------
(***************************************************************************)
(* The backend's write path for deals: DealService, CalculationService,    *)
(* SnapshotService and AuditService over one PostgreSQL database, as       *)
(* concurrent requests drive them.                                         *)
(*                                                                         *)
(* A request is an HTTP request with its own AsyncSession.  Between two    *)
(* awaits it runs alone; at every await other requests may run.  The       *)
(* database is at READ COMMITTED: a SELECT sees the rows committed so far, *)
(* an UPDATE takes the row's lock until its transaction ends.  No request  *)
(* takes the lock before it writes, and no write is conditional on what    *)
(* was read: the whole row is overwritten with the copy in memory.         *)
(*                                                                         *)
(* Requests are used once; a request's identity doubles as the uuid of the *)
(* snapshot it may create, which uuid4 makes unique.  What the engine      *)
(* returns is a free choice here: the engine has modules of its own.       *)
(***************************************************************************)
EXTENDS Naturals, FiniteSets

CONSTANTS
  Deals, Users, Owner, Requests, NoRequest, NoSnapshot,
  Fields, ProfileFields, RequiredFields, Values, Unset,
  MaxInFlight,  \* bound: requests being served at the same time
  MaxConfig     \* bound: number of configuration versions ever activated

INSTANCE DealEntity WITH SnapshotIds <- Requests

ASSUME WorkspaceAssumption ==
  /\ Owner \in [Deals -> Users]
  /\ NoRequest \notin Requests
  /\ NoSnapshot \notin Requests
  /\ Unset \notin Values
  /\ RequiredFields \subseteq Fields
  /\ MaxInFlight \in Nat \ {0}
  /\ MaxConfig \in Nat \ {0}

VARIABLES
  \* committed tables
  deals,       \* [Deals -> Deal]
  stored,      \* ids of the snapshot aggregates in the snapshot tables
  superseded,  \* ids of the snapshots whose is_superseded is true
  audits,      \* rows of calculation_audit_events
  active,      \* the active configuration version
  \* the database's lock on each deals row
  lock,
  \* memory of each request
  pc,          \* the await the request is at
  call,        \* what it was asked
  row,         \* its in-memory Deal
  prev,        \* previous_snapshot_id of a recalculation
  snap,        \* the CalculationSnapshot it built
  reply,       \* what it answered
  clock,       \* source of calculated_at
  \* history variables: no column corresponds to them
  version,     \* commits each deals row has had
  seen         \* the version a request's in-memory Deal was read at

tables  == <<deals, stored, superseded, audits, active>>
session == <<call, row, prev, snap, seen>>
vars    == <<tables, lock, pc, session, reply, clock, version>>
-------------------------------------------------------------------------------
Edits    == {"update", "advance", "archive"}
Analyses == {"calculate", "recalculate"}
Ops      == Edits \cup Analyses \cup {"reproduce"}
NoStatus == "none"

Call ==
  [op : Ops, deal : Deals, user : Users, inputs : WorkingInputs,
   source : Requests \cup {NoSnapshot}]

\* source is the snapshot a reproduction reruns, NoSnapshot for an analysis.
Snapshot ==
  [deal : Deals, user : Users, inputs : WorkingInputs, config : 1..MaxConfig,
   at : Nat, source : Requests \cup {NoSnapshot}]

Outcomes == {"SUCCESS", "VALIDATION_FAILURE", "ENGINE_ERROR"}

AuditEvent ==
  [request : Requests, deal : Deals, outcome : Outcomes,
   snapshot : Requests \cup {NoSnapshot}]

Results ==
  {"ok", "created", "validation_failure", "calculation_error", "not_found", "domain_error",
   "error"}

Steps ==
  {"new", "reload", "engine", "validation_failure", "engine_error", "persist", "commit",
   "summary", "supersede", "deal_status", "done"}

NoInputs == [f \in Fields |-> Unset]

Init ==
  /\ deals \in [Deals -> NewDeals]
  /\ stored = {}
  /\ superseded = {}
  /\ audits = {}
  /\ active = 1
  /\ lock = [d \in Deals |-> NoRequest]
  /\ pc = [r \in Requests |-> "new"]
  /\ call = [r \in Requests |-> NoRequest]
  /\ row = [r \in Requests |-> NewDeal]
  /\ prev = [r \in Requests |-> NoSnapshot]
  /\ snap = [r \in Requests |-> NoSnapshot]
  /\ reply = [r \in Requests |-> [result |-> "none", status |-> NoStatus]]
  /\ clock = 0
  /\ version = [d \in Deals |-> 0]
  /\ seen = [r \in Requests |-> 0]
-------------------------------------------------------------------------------
(* Shared pieces of the handlers                                           *)

InFlight    == {r \in Requests : pc[r] \notin {"new", "done"}}
CanStart(r) == pc[r] = "new" /\ Cardinality(InFlight) < MaxInFlight

Goto(r, step) == pc' = [pc EXCEPT ![r] = step]

\* The response, and the end of the request's session: only what is stored survives.
Answer(r, result, status) ==
  /\ Goto(r, "done")
  /\ reply' = [reply EXCEPT ![r] = [result |-> result, status |-> status]]
  /\ call' = [call EXCEPT ![r] = NoRequest]
  /\ row' = [row EXCEPT ![r] = NewDeal]
  /\ prev' = [prev EXCEPT ![r] = NoSnapshot]
  /\ seen' = [seen EXCEPT ![r] = 0]
  /\ snap' = [snap EXCEPT ![r] = IF r \in stored THEN @ ELSE NoSnapshot]

\* find_by_id_for_user: the committed row, or nothing for another user's deal.
Finds(u, d) == Owner[d] = u

\* The in-memory Deal of request r becomes `deal`, read from the current row of d.
Hold(r, d, deal) ==
  /\ row' = [row EXCEPT ![r] = deal]
  /\ seen' = [seen EXCEPT ![r] = version[d]]

Asked(r, op, d, u, inputs, source) ==
  call' = [call EXCEPT ![r] =
    [op |-> op, deal |-> d, user |-> u, inputs |-> inputs, source |-> source]]


\* Mutant: the transaction is never ended.
ReleasedBy_never(r) == lock

ReleasedBy(r) == [d \in Deals |-> IF lock[d] = r THEN NoRequest ELSE lock[d]]
-------------------------------------------------------------------------------
(* First await of each handler: load the row, check the preconditions      *)

\* NotFoundError or DomainError before anything was written.
Refuse(r) ==
  /\ CanStart(r)
  /\ \E u \in Users :
       \/ \E d \in Deals : ~Finds(u, d) /\ Answer(r, "not_found", NoStatus)
       \/ \E s \in stored : ~Finds(u, snap[s].deal) /\ Answer(r, "not_found", NoStatus)
       \/ \E d \in Deals :
            /\ Finds(u, d)
            /\ \/ deals[d].status = "ARCHIVED"
               \/ ~CanAdvance(deals[d])
               \/ ~Complete(deals[d].inputs)
            /\ Answer(r, "domain_error", NoStatus)
  /\ UNCHANGED <<tables, lock, clock, version>>

BeginEdit(r, op, d, u, patch, deal) ==
  /\ CanStart(r)
  /\ Finds(u, d)
  /\ Asked(r, op, d, u, patch, NoSnapshot)
  /\ Hold(r, d, deal)
  /\ Goto(r, "persist")
  /\ UNCHANGED <<tables, lock, prev, snap, reply, clock, version>>

\* Mutant: the guard on archived deals is missing.
update_working_inputs_unguarded(r, d, u, patch) ==
  BeginEdit(r, "update", d, u, patch, merge_input_update(deals[d], patch))

update_working_inputs(r, d, u, patch) ==
  /\ deals[d].status # "ARCHIVED"
  /\ BeginEdit(r, "update", d, u, patch, merge_input_update(deals[d], patch))

advance_deal_status(r, d, u) ==
  /\ CanAdvance(deals[d])
  /\ BeginEdit(r, "advance", d, u, NoInputs, advance_status(deals[d]))

archive_deal(r, d, u) ==
  /\ deals[d].status # "ARCHIVED"
  /\ BeginEdit(r, "archive", d, u, NoInputs, archive(deals[d]))

\* run_calculation: the inputs come with the request.
run_calculation(r, d, u, body) ==
  /\ CanStart(r)
  /\ Finds(u, d)
  /\ deals[d].status # "ARCHIVED"
  /\ Complete(body)
  /\ Asked(r, "calculate", d, u, body, NoSnapshot)
  /\ Hold(r, d, deals[d])
  /\ Goto(r, "engine")
  /\ UNCHANGED <<tables, lock, prev, snap, reply, clock, version>>

\* Mutant: the earlier snapshot is marked superseded before the new one exists.
recalculate_marks_first(r, d, u) ==
  /\ CanStart(r)
  /\ Finds(u, d)
  /\ deals[d].status # "ARCHIVED"
  /\ Complete(deals[d].inputs)
  /\ Asked(r, "recalculate", d, u, deals[d].inputs, NoSnapshot)
  /\ superseded' = superseded \cup ({deals[d].latest} \ {NoSnapshot})
  /\ Goto(r, "reload")
  /\ UNCHANGED <<deals, stored, audits, active, lock, row, prev, snap, seen, reply, clock, version>>

\* recalculate_with_current_assumptions up to its call of run_calculation: the inputs and
\* previous_snapshot_id come from a first load of the deal.
recalculate(r, d, u) ==
  /\ CanStart(r)
  /\ Finds(u, d)
  /\ deals[d].status # "ARCHIVED"
  /\ Complete(deals[d].inputs)
  /\ Asked(r, "recalculate", d, u, deals[d].inputs, NoSnapshot)
  /\ prev' = [prev EXCEPT ![r] = deals[d].latest]
  /\ Goto(r, "reload")
  /\ UNCHANGED <<tables, lock, row, snap, seen, reply, clock, version>>

\* run_calculation's own load of the deal, inside a recalculation.
ReloadDeal(r) ==
  LET d == call[r].deal IN
  /\ pc[r] = "reload"
  /\ deals[d].status # "ARCHIVED"
  /\ Hold(r, d, deals[d])
  /\ Goto(r, "engine")
  /\ UNCHANGED <<tables, lock, call, prev, snap, reply, clock, version>>

\* The deal was archived between the two loads.
ReloadArchived(r) ==
  /\ pc[r] = "reload"
  /\ deals[call[r].deal].status = "ARCHIVED"
  /\ Answer(r, "domain_error", NoStatus)
  /\ UNCHANGED <<tables, lock, clock, version>>

\* Mutant: a reproduction runs with the configuration active now.
reproduce_original_current_config(r, u, s) ==
  /\ CanStart(r)
  /\ s \in stored
  /\ Finds(u, snap[s].deal)
  /\ Asked(r, "reproduce", snap[s].deal, u, snap[s].inputs, s)
  /\ snap' = [snap EXCEPT ![r] =
       [deal |-> snap[s].deal, user |-> u, inputs |-> snap[s].inputs,
        config |-> active, at |-> clock, source |-> s]]
  /\ clock' = clock + 1
  /\ Goto(r, "engine")
  /\ UNCHANGED <<tables, lock, row, prev, seen, reply, version>>

\* reproduce_original: calculated_at is taken first, then the source snapshot is loaded, its
\* owner checked through its deal, and its configuration versions loaded by id.
reproduce_original(r, u, s) ==
  /\ CanStart(r)
  /\ s \in stored
  /\ Finds(u, snap[s].deal)
  /\ Asked(r, "reproduce", snap[s].deal, u, snap[s].inputs, s)
  /\ snap' = [snap EXCEPT ![r] =
       [deal |-> snap[s].deal, user |-> u, inputs |-> snap[s].inputs,
        config |-> snap[s].config, at |-> clock, source |-> s]]
  /\ clock' = clock + 1
  /\ Goto(r, "engine")
  /\ UNCHANGED <<tables, lock, row, prev, seen, reply, version>>
-------------------------------------------------------------------------------
(* Configuration, engine, routing on the engine's result                   *)

\* Steps 3 to 7 of run_calculation, the same routing in reproduce_original.  An analysis
\* reads the active configuration and takes calculated_at now; a reproduction did both.
RunEngine(r) ==
  LET c == call[r] IN
  /\ pc[r] = "engine"
  /\ \E step \in {"persist", "validation_failure", "engine_error"} : Goto(r, step)
  /\ \/ /\ c.op = "reproduce"
        /\ UNCHANGED <<snap, clock>>
     \/ /\ c.op \in Analyses
        /\ snap' = [snap EXCEPT ![r] =
             [deal |-> c.deal, user |-> c.user, inputs |-> c.inputs,
              config |-> active, at |-> clock, source |-> NoSnapshot]]
        /\ clock' = clock + 1
  /\ UNCHANGED <<tables, lock, call, row, prev, seen, reply, version>>

Audited(r, outcome, id) ==
  audits' = audits \cup
    {[request |-> r, deal |-> call[r].deal, outcome |-> outcome, snapshot |-> id]}

\* AuditService.write_failure: a fresh session, and an exception is swallowed.
WriteFailure(r) ==
  /\ \/ /\ pc[r] = "validation_failure"
        /\ Audited(r, "VALIDATION_FAILURE", NoSnapshot) \/ UNCHANGED audits
        /\ Answer(r, "validation_failure", NoStatus)
     \/ /\ pc[r] = "engine_error"
        /\ Audited(r, "ENGINE_ERROR", NoSnapshot) \/ UNCHANGED audits
        /\ Answer(r, "calculation_error", NoStatus)
  /\ UNCHANGED <<deals, stored, superseded, active, lock, clock, version>>
-------------------------------------------------------------------------------
(* The transaction that writes                                             *)

\* Mutant: SnapshotRepository.save commits the snapshot on its own.
WriteDeal_commits_snapshot(r) ==
  LET c == call[r] IN
  /\ pc[r] = "persist"
  /\ c.op # "reproduce"
  /\ lock[c.deal] = NoRequest
  /\ lock' = [lock EXCEPT ![c.deal] = r]
  /\ row' = [row EXCEPT ![r] = IF c.op \in Analyses THEN apply_snapshot_created(@, r) ELSE @]
  /\ stored' = IF c.op \in Analyses THEN stored \cup {r} ELSE stored
  /\ Goto(r, "commit")
  /\ UNCHANGED <<deals, superseded, audits, active, call, prev, snap, seen, reply, clock, version>>

\* DealRepository.update for the edits; for an analysis SnapshotRepository.save, then
\* apply_snapshot_created on the Deal loaded earlier, then DealRepository.update.  The first
\* UPDATE of the deals row waits for its lock.  Nothing is visible before the commit.
WriteDeal(r) ==
  LET c == call[r] IN
  /\ pc[r] = "persist"
  /\ c.op # "reproduce"
  /\ lock[c.deal] = NoRequest
  /\ lock' = [lock EXCEPT ![c.deal] = r]
  /\ row' = [row EXCEPT ![r] = IF c.op \in Analyses THEN apply_snapshot_created(@, r) ELSE @]
  /\ Goto(r, "commit")
  /\ UNCHANGED <<tables, call, prev, snap, seen, reply, clock, version>>

\* save_without_deal_pointer_update: inserts only, no lock on the deals row.
InsertReproduction(r) ==
  /\ pc[r] = "persist"
  /\ call[r].op = "reproduce"
  /\ Goto(r, "commit")
  /\ UNCHANGED <<tables, lock, session, reply, clock, version>>

\* The whole in-memory Deal replaces the row.
PublishDeal(r) ==
  LET d == call[r].deal IN
  /\ deals' = [deals EXCEPT ![d] = row[r]]
  /\ version' = [version EXCEPT ![d] = @ + 1]
  /\ lock' = ReleasedBy(r)

\* db.commit() in the deal routes.
CommitEdit(r) ==
  /\ pc[r] = "commit"
  /\ call[r].op \in Edits
  /\ PublishDeal(r)
  /\ Answer(r, "ok", row[r].status)
  /\ UNCHANGED <<stored, superseded, audits, active, clock>>

\* session.commit() in save_snapshot_and_update_deal: snapshot, deal and SUCCESS event at once.
CommitAnalysis(r) ==
  /\ pc[r] = "commit"
  /\ call[r].op \in Analyses
  /\ PublishDeal(r)
  /\ stored' = stored \cup {r}
  /\ Audited(r, "SUCCESS", r)
  /\ Goto(r, "summary")
  /\ UNCHANGED <<superseded, active, session, reply, clock>>

\* Mutant: the commit of the reproduction is forgotten.
CommitReproduction_uncommitted(r) ==
  /\ pc[r] = "commit"
  /\ call[r].op = "reproduce"
  /\ Goto(r, "deal_status")
  /\ UNCHANGED <<tables, lock, session, reply, clock, version>>

\* Mutant: a reproduction is saved with the pointer update of an analysis.
CommitReproduction_moves_pointer(r) ==
  /\ pc[r] = "commit"
  /\ call[r].op = "reproduce"
  /\ deals' = [deals EXCEPT ![call[r].deal].latest = r]
  /\ stored' = stored \cup {r}
  /\ Audited(r, "SUCCESS", r)
  /\ Goto(r, "deal_status")
  /\ UNCHANGED <<superseded, active, lock, session, reply, clock, version>>

\* session.commit() in save_reproduction_snapshot: the deals row is not written.
CommitReproduction(r) ==
  /\ pc[r] = "commit"
  /\ call[r].op = "reproduce"
  /\ stored' = stored \cup {r}
  /\ Audited(r, "SUCCESS", r)
  /\ Goto(r, "deal_status")
  /\ UNCHANGED <<deals, superseded, active, lock, session, reply, clock, version>>
-------------------------------------------------------------------------------
(* After the commit                                                        *)

\* get_display_summary, then the answer; a recalculation that found an earlier snapshot at its
\* first load still has to mark it.  deal_status_after is always ANALYSED.
LoadSummary(r) ==
  /\ pc[r] = "summary"
  /\ prev[r] = NoSnapshot
  /\ Answer(r, "created", "ANALYSED")
  /\ UNCHANGED <<tables, lock, clock, version>>

LoadSummaryThenSupersede(r) ==
  /\ pc[r] = "summary"
  /\ prev[r] # NoSnapshot
  /\ Goto(r, "supersede")
  /\ UNCHANGED <<tables, lock, session, reply, clock, version>>

\* Mutant: the snapshot to mark is looked up after the new one was committed.
MarkSuperseded_current(r) ==
  /\ pc[r] = "supersede"
  /\ \/ superseded' = superseded \cup {deals[call[r].deal].latest}
     \/ UNCHANGED superseded
  /\ Answer(r, "created", "ANALYSED")
  /\ UNCHANGED <<deals, stored, audits, active, lock, clock, version>>

\* mark_superseded in a transaction of its own; any exception is swallowed.
MarkSuperseded(r) ==
  /\ pc[r] = "supersede"
  /\ \/ superseded' = superseded \cup {prev[r]}
     \/ UNCHANGED superseded
  /\ Answer(r, "created", "ANALYSED")
  /\ UNCHANGED <<deals, stored, audits, active, lock, clock, version>>

\* A reproduction reports the deal's status as it is now.
ReportReproduction(r) ==
  /\ pc[r] = "deal_status"
  /\ Answer(r, "created", deals[call[r].deal].status)
  /\ UNCHANGED <<tables, lock, clock, version>>
-------------------------------------------------------------------------------
(* Failures and the environment                                            *)

\* Any exception that reaches the error handlers, a lost connection, a crash of the worker or
\* a client that never hears the answer: the session closes, an open transaction rolls back.
Abort(r) ==
  /\ r \in InFlight
  /\ lock' = ReleasedBy(r)
  /\ Answer(r, "error", NoStatus)
  /\ UNCHANGED <<tables, clock, version>>

\* scripts/seed_configuration.py or an operator activates newer configuration.
ActivateConfig ==
  /\ active < MaxConfig
  /\ active' = active + 1
  /\ UNCHANGED <<deals, stored, superseded, audits, lock, pc, session, reply, clock, version>>

Receive(r) ==
  \/ Refuse(r)
  \/ \E u \in Users :
       \/ \E d \in Deals :
            \/ \E patch \in WorkingInputs : update_working_inputs(r, d, u, patch)
            \/ advance_deal_status(r, d, u)
            \/ archive_deal(r, d, u)
            \/ \E body \in WorkingInputs : run_calculation(r, d, u, body)
            \/ recalculate(r, d, u)
       \/ \E s \in Requests : reproduce_original(r, u, s)

Serve(r) ==
  \/ ReloadDeal(r) \/ ReloadArchived(r) \/ RunEngine(r) \/ WriteFailure(r)
  \/ WriteDeal(r) \/ InsertReproduction(r)
  \/ CommitEdit(r) \/ CommitAnalysis(r) \/ CommitReproduction(r)
  \/ LoadSummary(r) \/ LoadSummaryThenSupersede(r) \/ MarkSuperseded(r) \/ ReportReproduction(r)

Terminated ==
  /\ \A r \in Requests : pc[r] = "done"
  /\ UNCHANGED vars

Next ==
  \/ \E r \in Requests : Receive(r) \/ Serve(r) \/ Abort(r)
  \/ ActivateConfig
  \/ Terminated

Spec == Init /\ [][Next]_vars

\* The event loop runs every request whose await is over; nothing makes a user send one.
FairSpec == Spec /\ \A r \in Requests : WF_vars(Serve(r))
-------------------------------------------------------------------------------
(* Properties                                                              *)

TablesOK ==
  /\ deals \in [Deals -> Deal]
  /\ stored \subseteq Requests
  /\ superseded \subseteq Requests
  /\ audits \subseteq AuditEvent
  /\ active \in 1..MaxConfig
  /\ lock \in [Deals -> Requests \cup {NoRequest}]
  /\ clock \in Nat
  /\ version \in [Deals -> Nat]

RequestsOK ==
  /\ pc \in [Requests -> Steps]
  /\ call \in [Requests -> Call \cup {NoRequest}]
  /\ row \in [Requests -> Deal]
  /\ prev \in [Requests -> Requests \cup {NoSnapshot}]
  /\ snap \in [Requests -> Snapshot \cup {NoSnapshot}]
  /\ reply \in [Requests -> [result : Results \cup {"none"}, status : DealStatus \cup {NoStatus}]]
  /\ seen \in [Requests -> Nat]

\* Every column and every variable of a request has a value of its type.
TypeOK == TablesOK /\ RequestsOK

\* The committed analyses of a deal.
StoredAnalyses(d) == {s \in stored : snap[s].deal = d /\ snap[s].source = NoSnapshot}

\* A row in DRAFT has no snapshot pointer and a row in any later pipeline stage has one, even
\* when stale copies overwrite newer rows.  An archived row may have either.
Coherent(deal) ==
  /\ deal.status = "DRAFT" => deal.latest = NoSnapshot
  /\ deal.status \notin {"DRAFT", "ARCHIVED"} => deal.latest # NoSnapshot

StatusMatchesPointer == \A d \in Deals : Coherent(deals[d])

\* latest_snapshot_id is NULL or a committed analysis of that very deal: never a snapshot of a
\* transaction that rolled back, another deal's snapshot, or a reproduction.
PointerIsOwnAnalysis ==
  \A d \in Deals : deals[d].latest \in StoredAnalyses(d) \cup {NoSnapshot}

\* SI-06 and the audit trail: a snapshot is committed exactly when its SUCCESS event is, on the
\* same deal; a request leaves at most one event; a failure event never comes with a snapshot.
AuditTrail ==
  /\ \A s \in stored :
       [request |-> s, deal |-> snap[s].deal, outcome |-> "SUCCESS", snapshot |-> s] \in audits
  /\ \A e \in audits :
       /\ e.outcome = "SUCCESS" => e.snapshot = e.request /\ e.request \in stored
       /\ e.outcome # "SUCCESS" => e.snapshot = NoSnapshot /\ e.request \notin stored
       /\ \A f \in audits : e.request = f.request => e = f

\* A superseded snapshot is an analysis, and a later analysis of the same deal is committed:
\* a crash or a race between the two transactions never leaves a deal with nothing current.
SupersededHasSuccessor ==
  \A s \in superseded :
    \E d \in Deals :
      /\ s \in StoredAnalyses(d)
      /\ \E t \in StoredAnalyses(d) : snap[t].at > snap[s].at

\* A reproduction has the deal, inputs and configuration of its source whatever configuration
\* is active by then, and belongs to the owner of that deal.
ReproductionFaithful ==
  \A s \in stored :
    /\ snap[s].user = Owner[snap[s].deal]
    /\ snap[s].source # NoSnapshot =>
         /\ snap[s].source \in stored
         /\ LET o == snap[snap[s].source] IN
              /\ <<snap[s].deal, snap[s].inputs, snap[s].config>> = <<o.deal, o.inputs, o.config>>
              /\ o.at < snap[s].at

\* An answer agrees with the database: success of an analysis or a reproduction means its
\* snapshot is durable, any refusal or failure the client is told of means there is none.
AnswersAreTrue ==
  \A r \in Requests :
    /\ reply[r].result = "created" => r \in stored
    /\ reply[r].result \in Results \ {"created", "error"} => r \notin stored

\* The change a handler may make to the row `old` when it runs alone.
LegalChange(c, id, old, new) ==
  \/ /\ c.op = "update"
     /\ old.status # "ARCHIVED"
     /\ new = merge_input_update(old, c.inputs)
  \/ /\ c.op = "advance"
     /\ CanAdvance(old)
     /\ new = advance_status(old)
  \/ /\ c.op = "archive"
     /\ old.status # "ARCHIVED"
     /\ new = archive(old)
  \/ /\ c.op \in Analyses
     /\ old.status # "ARCHIVED"
     /\ new = apply_snapshot_created(old, id)

LegalWrite ==
  \A r \in Requests, d \in Deals :
    /\ lock[d] = r
    /\ seen[r] = version[d]
    /\ deals'[d] # deals[d]
    => LegalChange(call[r], r, deals[d], deals'[d])

\* Only a stale writer can break the lifecycle.  A commit by a request whose copy is of the
\* row's current version makes one of the four legal changes; every revived archived deal,
\* lost edit or moved-back pointer is the work of a request overtaken between load and commit.
FreshWritesAreLegal == [][LegalWrite]_vars

NewestPointer ==
  \A r \in Requests, d \in Deals :
    /\ lock[d] = r
    /\ seen[r] = version[d]
    /\ deals'[d].latest # deals[d].latest
    => \A s \in StoredAnalyses(d) : snap[s].at < snap[r].at

\* A fresh writer that moves the pointer moves it to the newest analysis of the deal.
FreshPointerIsNewest == [][NewestPointer]_vars

\* Every request is answered, and none waits for a row lock for ever.
EveryRequestAnswered ==
  \A r \in Requests : pc[r] # "new" ~> pc[r] = "done"

\* Requests that do not overlap implement the atomic record.
Record ==
  INSTANCE DealRecord WITH SnapshotIds <- Requests,
    analysed <- {s \in stored : snap[s].source = NoSnapshot}

ImplementsRecord == Record!Spec

\* The snapshot a deal points to is not marked superseded, so the history shows it as current.
CurrentNotSuperseded == \A d \in Deals : deals[d].latest \notin superseded

\* What the documents say and overtaken writers break; each is checked by a run of its own.

\* DOMAIN_MODEL_ARCHITECTURE 4.4: "An ARCHIVED deal cannot be moved back to ANALYSED."
ArchivedIsFinal ==
  [][\A d \in Deals : deals[d].status = "ARCHIVED" => deals'[d].status = "ARCHIVED"]_vars

\* SCHEMA_ARCHITECTURE: "when a new snapshot is created for a deal, the previous snapshot's
\* is_superseded is set to true".  Checked when no request is in flight or was cut short.
OlderAreSuperseded ==
  (\A r \in Requests : pc[r] \in {"new", "done"} /\ reply[r].result # "error") =>
    \A d \in Deals : StoredAnalyses(d) \ {deals[d].latest} \subseteq superseded
===============================================================================
