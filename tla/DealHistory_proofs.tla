------------------------- MODULE DealHistory_proofs -------------------------
(***************************************************************************)
(* Theorems about the history of a deal: its snapshots, the order they     *)
(* were made in, their audit events, and what requests were told of them;  *)
(* and, at the end, what a user who works alone can rely on.               *)
(***************************************************************************)
EXTENDS DealWorkspace_proofs, FiniteSetTheorems

-----------------------------------------------------------------------------
(* The invariants                                                          *)

\* Request r has a snapshot in memory or in the tables.
Built(r) ==
  \/ r \in stored
  \/ pc[r] \in {"persist", "commit"} /\ call[r].op \notin Edits
  \/ pc[r] = "engine" /\ call[r].op = "reproduce"

\* calculated_at is in the past.
ClockInv == \A r \in Requests : Built(r) => snap[r].at < clock

\* Snapshot x repeats a stored one: what ReproductionFaithful asks of a reproduction.
Repeats(x) ==
  /\ x.source \in stored
  /\ LET o == snap[x.source] IN
       /\ <<x.deal, x.inputs, x.config>> = <<o.deal, o.inputs, o.config>>
       /\ o.at < x.at

\* Where a request's snapshot comes from while the request is served.
OriginOf(r) ==
  /\ pc[r] \notin {"new", "done"} => call[r].user = Owner[call[r].deal]
  /\ pc[r] \in {"persist", "commit"} /\ call[r].op \in Analyses =>
       /\ snap[r].deal = call[r].deal /\ snap[r].user = call[r].user
       /\ snap[r].source = NoSnapshot
  /\ pc[r] \in {"engine", "persist", "commit"} /\ call[r].op = "reproduce" =>
       /\ snap[r].deal = call[r].deal /\ snap[r].user = call[r].user
       /\ Repeats(snap[r])

OriginInv == ReproductionFaithful /\ \A r \in Requests : OriginOf(r)

\* A request's events are written when it is past its transaction.
AuditInv ==
  /\ AuditTrail
  /\ \A e \in audits : pc[e.request] \in {"summary", "supersede", "deal_status", "done"}

\* Nothing is answered before the end, and only requests past their commit tell of success.
AnswerOf(r) ==
  /\ pc[r] # "done" => reply[r].result = "none"
  /\ pc[r] \in {"summary", "supersede", "deal_status"} => r \in stored

AnswerInv == AnswersAreTrue /\ \A r \in Requests : AnswerOf(r)

\* previous_snapshot_id names a committed analysis of the deal, older than the one the
\* request builds.
PreviousOf(r) ==
  /\ pc[r] = "new" => prev[r] = NoSnapshot
  /\ pc[r] \notin {"new", "done"} /\ prev[r] # NoSnapshot =>
       /\ call[r].op = "recalculate"
       /\ prev[r] \in StoredAnalyses(call[r].deal)
       /\ Built(r) => snap[prev[r]].at < snap[r].at
  /\ pc[r] \in {"summary", "supersede"} => r \in StoredAnalyses(call[r].deal)

SuccessorInv == SupersededHasSuccessor /\ \A r \in Requests : PreviousOf(r)

\* A request whose copy is current is about to store the newest analysis.
NewestOf(r) ==
  pc[r] \in {"persist", "commit"} /\ call[r].op \in Analyses
    /\ seen[r] = version[call[r].deal] =>
  \A s \in StoredAnalyses(call[r].deal) : snap[s].at < snap[r].at

NewestInv == \A r \in Requests : NewestOf(r)

-----------------------------------------------------------------------------
(* The kinds of step                                                       *)

\* The request ends: what it was doing tells which answers it can give.
Ends(r) ==
  /\ pc'[r] = "done" /\ call'[r] = NoRequest /\ prev'[r] = NoSnapshot
  /\ snap'[r] = IF r \in stored THEN snap[r] ELSE NoSnapshot
  /\ reply'[r].result \in Results
  /\ reply'[r].result = "created" => pc[r] \in {"summary", "supersede", "deal_status"}
  /\ reply'[r].result \notin {"created", "error"} =>
       pc[r] \notin {"summary", "supersede", "deal_status", "done"}
  /\ UNCHANGED <<stored, active, clock>>

\* What a step that is neither the end nor a commit leaves alone.
Quiet == UNCHANGED <<deals, stored, superseded, audits, active, version, reply>>

\* The first await of an edit or an analysis.
Taken(r) ==
  /\ pc[r] = "new"
  /\ call'[r] \in Call /\ call'[r].user = Owner[call'[r].deal]
  /\ \/ pc'[r] = "persist" /\ call'[r].op \in Edits /\ prev' = prev
     \/ pc'[r] = "engine" /\ call'[r].op = "calculate" /\ prev' = prev
     \/ pc'[r] = "reload" /\ call'[r].op = "recalculate"
        /\ prev'[r] = deals[call'[r].deal].latest
  /\ Quiet /\ UNCHANGED <<snap, clock>>

\* The first await of a reproduction.
Repeated(r) ==
  \E s \in stored :
    /\ pc[r] = "new" /\ pc'[r] = "engine"
    /\ call'[r].op = "reproduce" /\ call'[r].deal = snap[s].deal
    /\ call'[r].user = Owner[snap[s].deal]
    /\ snap'[r] = [deal |-> snap[s].deal, user |-> call'[r].user, inputs |-> snap[s].inputs,
                   config |-> snap[s].config, at |-> clock, source |-> s]
    /\ clock' = clock + 1
    /\ Quiet /\ UNCHANGED prev

\* A step to the next await that builds no snapshot.
Moved(r) ==
  /\ \/ pc[r] = "reload" /\ pc'[r] = "engine"
     \/ pc[r] = "persist" /\ pc'[r] = "commit"
     \/ pc[r] = "summary" /\ pc'[r] = "supersede"
     \/ pc[r] = "engine" /\ call[r].op = "reproduce"
        /\ pc'[r] \in {"persist", "validation_failure", "engine_error"}
  /\ Quiet /\ UNCHANGED <<call, prev, snap, clock>>

\* The engine's run for an analysis.
Analysed(r) ==
  /\ pc[r] = "engine" /\ pc'[r] \in {"persist", "validation_failure", "engine_error"}
  /\ call[r].op \in Analyses
  /\ snap'[r] = [deal |-> call[r].deal, user |-> call[r].user, inputs |-> call[r].inputs,
                 config |-> active, at |-> clock, source |-> NoSnapshot]
  /\ clock' = clock + 1
  /\ Quiet /\ UNCHANGED <<call, prev>>

\* The commit of a snapshot.
Stores(r) ==
  /\ pc[r] = "commit" /\ call[r].op \notin Edits
  /\ pc'[r] = IF call[r].op \in Analyses THEN "summary" ELSE "deal_status"
  /\ stored' = stored \cup {r}
  /\ Audited(r, "SUCCESS", r)
  /\ UNCHANGED <<superseded, active, call, prev, snap, reply, clock>>

\* Every step of a request is of one of these kinds.
LEMMA Kinds ==
  ASSUME TypeInv, NEW r \in Requests, Receive(r) \/ Serve(r) \/ Abort(r)
  PROVE  Ends(r) \/ Taken(r) \/ Repeated(r) \/ Moved(r) \/ Analysed(r) \/ Stores(r)
<1>1. /\ pc \in [Requests -> Steps] /\ call \in [Requests -> Call \cup {NoRequest}]
      /\ prev \in [Requests -> Requests \cup {NoSnapshot}]
      /\ snap \in [Requests -> Snapshot \cup {NoSnapshot}]
      /\ reply \in [Requests -> [result : Results \cup {"none"}, status : DealStatus \cup {NoStatus}]]
      /\ stored \subseteq Requests
  BY DEF TypeInv, TypeOK, TablesOK, RequestsOK
<1>2. pc[r] \notin {"new", "done"} => call[r] \in Call
  BY DEF TypeInv, RequestWellFormed
<1>3. ASSUME NEW result \in Results, NEW status, Answer(r, result, status),
             UNCHANGED <<stored, active, clock>>,
             result = "created" => pc[r] \in {"summary", "supersede", "deal_status"},
             result \notin {"created", "error"} =>
               pc[r] \notin {"summary", "supersede", "deal_status", "done"}
      PROVE  Ends(r)
  BY <1>1, <1>3 DEF Answer, Goto, Ends
<1>4. ASSUME Receive(r) PROVE Ends(r) \/ Taken(r) \/ Repeated(r)
  <2>1. CASE Refuse(r)
    BY <1>3, <2>1 DEF Refuse, CanStart, Results, tables
  <2>2. ASSUME NEW u \in Users, NEW d \in Deals, NEW op \in Edits, NEW patch \in WorkingInputs,
               NEW deal, BeginEdit(r, op, d, u, patch, deal)
        PROVE  Taken(r)
    BY <1>1, <2>2 DEF BeginEdit, CanStart, Finds, Asked, Goto, Hold, Taken, Quiet, Call, Ops, tables
  <2>3. ASSUME NEW u \in Users, NEW d \in Deals, NEW body \in WorkingInputs,
               run_calculation(r, d, u, body)
        PROVE  Taken(r)
    BY <1>1, <2>3 DEF run_calculation, CanStart, Finds, Asked, Goto, Hold, Taken, Quiet, Call, Ops,
       Analyses, tables
  <2>4. ASSUME NEW u \in Users, NEW d \in Deals, recalculate(r, d, u) PROVE Taken(r)
    <3>1. deals[d].inputs \in WorkingInputs
      BY DEF TypeInv, TypeOK, TablesOK, Deal
    <3> QED
      BY <1>1, <2>4, <3>1 DEF recalculate, CanStart, Finds, Asked, Goto, Taken, Quiet, Call, Ops,
         Analyses, tables
  <2>5. ASSUME NEW u \in Users, NEW s \in Requests, reproduce_original(r, u, s) PROVE Repeated(r)
    BY <1>1, <2>5 DEF reproduce_original, CanStart, Finds, Asked, Goto, Repeated, Quiet, tables
  <2> QED
    BY <1>4, <2>1, <2>2, <2>3, <2>4, <2>5, NewDealType
    DEF Receive, update_working_inputs, advance_deal_status, archive_deal, Edits
<1>5. ASSUME Serve(r) PROVE Ends(r) \/ Moved(r) \/ Analysed(r) \/ Stores(r)
  <2>1. CASE ReloadDeal(r)
    BY <1>1, <2>1 DEF ReloadDeal, Hold, Goto, Moved, Quiet, tables
  <2>2. CASE ReloadArchived(r)
    BY <1>3, <2>2 DEF ReloadArchived, Results, tables
  <2>3. CASE RunEngine(r)
    BY <1>1, <2>3 DEF RunEngine, Goto, Moved, Analysed, Quiet, tables
  <2>4. CASE WriteFailure(r)
    BY <1>3, <2>4 DEF WriteFailure, Results
  <2>5. CASE WriteDeal(r) \/ InsertReproduction(r) \/ LoadSummaryThenSupersede(r)
    BY <1>1, <2>5 DEF WriteDeal, InsertReproduction, LoadSummaryThenSupersede, Goto, Moved, Quiet,
       tables, session
  <2>6. CASE CommitEdit(r)
    BY <1>3, <2>6 DEF CommitEdit, Results
  <2>7. CASE CommitAnalysis(r) \/ CommitReproduction(r)
    BY <1>1, <2>7 DEF CommitAnalysis, CommitReproduction, Goto, Stores, session, Analyses, Edits
  <2>8. CASE LoadSummary(r) \/ MarkSuperseded(r) \/ ReportReproduction(r)
    BY <1>3, <2>8 DEF LoadSummary, MarkSuperseded, ReportReproduction, Results, tables
  <2> QED BY <1>5, <2>1, <2>2, <2>3, <2>4, <2>5, <2>6, <2>7, <2>8 DEF Serve
<1>6. ASSUME Abort(r) PROVE Ends(r)
  BY <1>3, <1>6 DEF Abort, Results, tables
<1> QED BY <1>4, <1>5, <1>6

\* A request's step changes no other request's answer.
LEMMA RepliesUntouched ==
  ASSUME TypeInv, NEW r \in Requests, Receive(r) \/ Serve(r) \/ Abort(r),
         NEW q \in Requests, q # r
  PROVE  reply'[q] = reply[q]
<1>1. ASSUME NEW result, NEW status, Answer(r, result, status) PROVE reply'[q] = reply[q]
  BY <1>1 DEF Answer, TypeInv, TypeOK, RequestsOK
<1>2. CASE reply' = reply
  BY <1>2
<1>3. CASE reply' # reply
  <2>1. Refuse(r) \/ Serve(r) \/ Abort(r)
    BY <1>3 DEF Receive, update_working_inputs, advance_deal_status, archive_deal, BeginEdit,
       run_calculation, recalculate, reproduce_original
  <2> QED
    BY <1>1, <1>3, <2>1 DEF Refuse, Serve, ReloadDeal, ReloadArchived, RunEngine, WriteFailure,
       WriteDeal, InsertReproduction, CommitEdit, CommitAnalysis, CommitReproduction, LoadSummary,
       LoadSummaryThenSupersede, MarkSuperseded, ReportReproduction, Abort
<1> QED BY <1>2, <1>3

-----------------------------------------------------------------------------
(* Time                                                                    *)

\* calculated_at is read from a clock that has moved on by the next step.
LEMMA StepClock == TypeInv /\ ClockInv /\ [Next]_vars => ClockInv'
<1> SUFFICES ASSUME TypeInv, ClockInv, [Next]_vars PROVE ClockInv'
  OBVIOUS
<1>1. /\ clock \in Nat /\ stored \subseteq Requests
      /\ snap \in [Requests -> Snapshot \cup {NoSnapshot}]
      /\ \A r \in Requests : Built(r) => snap[r].at \in Nat
  BY DEF TypeInv, TypeOK, TablesOK, RequestsOK, RequestWellFormed, Built, Snapshot
<1>2. ASSUME NEW r \in Requests, Receive(r) \/ Serve(r) \/ Abort(r),
             NEW q \in Requests, Built(q)'
      PROVE  snap'[q].at < clock'
  <2>1. clock' = clock \/ clock' = clock + 1
    BY <1>2, Kinds DEF Ends, Taken, Repeated, Moved, Analysed, Stores, Quiet
  <2>2. stored' = stored \/ stored' = stored \cup {r}
    BY <1>2, Kinds DEF Ends, Taken, Repeated, Moved, Analysed, Stores, Quiet
  <2>3. CASE q # r
    <3>1. pc'[q] = pc[q] /\ call'[q] = call[q] /\ snap'[q] = snap[q]
      BY <1>2, <2>3, OthersUntouched
    <3> QED BY <1>1, <1>2, <2>1, <2>2, <2>3, <3>1 DEF ClockInv, Built
  <2>4. CASE q = r
    <3>1. CASE Repeated(r) \/ Analysed(r)
      <4>1. CASE Repeated(r)
        <5>1. snap'[r].at = clock /\ clock' = clock + 1 BY <4>1 DEF Repeated
        <5> QED BY <1>1, <2>4, <5>1
      <4>2. CASE Analysed(r)
        <5>1. snap'[r].at = clock /\ clock' = clock + 1 BY <4>2 DEF Analysed
        <5> QED BY <1>1, <2>4, <5>1
      <4> QED BY <3>1, <4>1, <4>2
    <3>2. CASE Ends(r) \/ Taken(r) \/ Moved(r) \/ Stores(r)
      <4>1. Built(r) /\ snap'[r] = snap[r] /\ clock' = clock
        BY <1>1, <1>2, <2>4, <3>2 DEF Ends, Taken, Moved, Stores, Quiet, Built, Edits, Analyses,
           TypeInv, RequestWellFormed
      <4> QED BY <2>4, <4>1 DEF ClockInv
    <3> QED BY <1>2, <3>1, <3>2, Kinds
  <2> QED BY <2>3, <2>4
<1>3. CASE ActivateConfig \/ UNCHANGED vars
  <2>1. UNCHANGED <<stored, pc, call, snap, clock>>
    BY <1>3 DEF ActivateConfig, vars, tables, session
  <2> QED BY <2>1 DEF ClockInv, Built
<1> QED BY <1>2, <1>3 DEF Next, Terminated, ClockInv

\* Every snapshot, stored or not, is older than the next one will be.
LEMMA AlwaysPast == Spec => []ClockInv
<1>1. Init => ClockInv
  BY DEF Init, ClockInv, Built
<1> QED BY <1>1, StepClock, AlwaysTyped, PTL DEF Spec

-----------------------------------------------------------------------------
(* Where snapshots come from                                               *)

\* No step stores a snapshot of another deal or owner than its call's, and none stores a
\* reproduction whose source is not stored, older and of the same inputs and configuration.
LEMMA StepOrigin == TypeInv /\ ClockInv /\ OriginInv /\ [Next]_vars => OriginInv'
<1> SUFFICES ASSUME TypeInv, ClockInv, OriginInv, [Next]_vars PROVE OriginInv'
  OBVIOUS
<1>1. /\ stored \subseteq stored' /\ stored \subseteq Requests
      /\ \A s \in stored : snap'[s] = snap[s]
  BY SnapshotsKept DEF TypeInv, TypeOK, TablesOK
<1>2. ASSUME NEW x, Repeats(x) PROVE Repeats(x)'
  BY <1>1, <1>2 DEF Repeats
<1>3. ASSUME NEW s \in stored
      PROVE  snap'[s].user = Owner[snap'[s].deal] /\ (snap'[s].source # NoSnapshot => Repeats(snap[s])')
  <2>1. snap[s].source # NoSnapshot => Repeats(snap[s])
    BY DEF OriginInv, ReproductionFaithful, Repeats
  <2> QED BY <1>1, <1>2, <2>1 DEF OriginInv, ReproductionFaithful, Repeats
<1>4. ASSUME NEW r \in Requests, Receive(r) \/ Serve(r) \/ Abort(r)
      PROVE  /\ OriginOf(r)'
             /\ \A s \in stored' \ stored :
                  /\ s = r
                  /\ snap'[r].user = Owner[snap'[r].deal]
                  /\ snap'[r].source # NoSnapshot => Repeats(snap[r])'
  <2>1. OriginOf(r) BY DEF OriginInv
  <2>2. CASE Ends(r)
    BY <2>2 DEF Ends, OriginOf
  <2>3. CASE Taken(r)
    BY <2>3 DEF Taken, Quiet, OriginOf, Edits, Analyses
  <2>4. CASE Repeated(r)
    <3>. PICK s \in stored :
           /\ pc'[r] = "engine" /\ call'[r].op = "reproduce" /\ call'[r].deal = snap[s].deal
           /\ call'[r].user = Owner[snap[s].deal]
           /\ snap'[r] = [deal |-> snap[s].deal, user |-> call'[r].user, inputs |-> snap[s].inputs,
                          config |-> snap[s].config, at |-> clock, source |-> s]
      BY <2>4 DEF Repeated
    <3>1. snap[s].at < clock BY <1>1 DEF ClockInv, Built
    <3>2. Repeats(snap[r])' BY <1>1, <3>1 DEF Repeats
    <3>3. stored' = stored BY <2>4 DEF Repeated, Quiet
    <3> QED BY <3>2, <3>3 DEF OriginOf, Analyses
  <2>5. CASE Moved(r)
    <3>1. Repeats(snap[r]) => Repeats(snap[r])' BY <1>2, <2>5 DEF Moved, Repeats, Quiet
    <3> QED BY <2>1, <2>5, <3>1 DEF Moved, Quiet, OriginOf, TypeInv, RequestWellFormed, Analyses
  <2>6. CASE Analysed(r)
    BY <2>1, <2>6 DEF Analysed, Quiet, OriginOf, Analyses
  <2>7. CASE Stores(r)
    <3>1. call[r].op \in Analyses \/ call[r].op = "reproduce"
      BY <2>7 DEF Stores, TypeInv, RequestWellFormed, Call, Ops
    <3>2. Repeats(snap[r]) => Repeats(snap[r])' BY <1>1, <2>7 DEF Stores, Repeats
    <3> QED BY <2>1, <2>7, <3>1, <3>2 DEF Stores, OriginOf
  <2> QED BY <1>4, <2>2, <2>3, <2>4, <2>5, <2>6, <2>7, Kinds
<1>5. ASSUME NEW r \in Requests, Receive(r) \/ Serve(r) \/ Abort(r),
             NEW q \in Requests, q # r
      PROVE  OriginOf(q)'
  <2>1. pc'[q] = pc[q] /\ call'[q] = call[q] /\ snap'[q] = snap[q]
    BY <1>5, OthersUntouched
  <2>2. Repeats(snap[q]) => Repeats(snap[q])' BY <1>1, <2>1 DEF Repeats
  <2>3. OriginOf(q) BY DEF OriginInv
  <2> QED BY <2>1, <2>2, <2>3 DEF OriginOf
<1>6. ASSUME NEW r \in Requests, Receive(r) \/ Serve(r) \/ Abort(r) PROVE OriginInv'
  <2>1. ASSUME NEW s \in stored'
        PROVE  snap'[s].user = Owner[snap'[s].deal]
               /\ (snap'[s].source # NoSnapshot => Repeats(snap[s])')
    BY <1>3, <1>4, <1>6
  <2>2. ReproductionFaithful' BY <2>1 DEF ReproductionFaithful, Repeats
  <2> QED BY <1>4, <1>5, <1>6, <2>2 DEF OriginInv
<1>7. CASE ActivateConfig \/ UNCHANGED vars
  <2>1. UNCHANGED <<stored, pc, call, snap>>
    BY <1>7 DEF ActivateConfig, vars, tables, session
  <2> QED BY <2>1 DEF OriginInv, ReproductionFaithful, OriginOf, Repeats
<1> QED BY <1>6, <1>7 DEF Next, Terminated

\* So it is in every reachable state.
LEMMA AlwaysOrigin == Spec => []OriginInv
<1>1. Init => OriginInv
  BY DEF Init, OriginInv, ReproductionFaithful, OriginOf
<1> QED BY <1>1, StepOrigin, AlwaysPast, AlwaysTyped, PTL DEF Spec

\* Whatever configuration was activated meanwhile and whatever else ran, a stored reproduction
\* repeats its source's inputs and configuration, and every snapshot is its deal's owner's.
THEOREM ReproductionsRepeat == Spec => []ReproductionFaithful
<1>1. OriginInv => ReproductionFaithful BY DEF OriginInv
<1> QED BY <1>1, AlwaysOrigin, PTL

-----------------------------------------------------------------------------
(* The audit trail                                                         *)

\* An event is written in the step that ends the request's transaction, so a request has one,
\* and it tells what that step did.
LEMMA StepAudit == TypeInv /\ OriginInv /\ AuditInv /\ [Next]_vars => AuditInv'
<1> SUFFICES ASSUME TypeInv, OriginInv, AuditInv, [Next]_vars PROVE AuditInv'
  OBVIOUS
<1> DEFINE
     Success(s) == [request |-> s, deal |-> snap[s].deal, outcome |-> "SUCCESS", snapshot |-> s]
     Truthful(e) ==
       /\ e.outcome = "SUCCESS" => e.snapshot = e.request /\ e.request \in stored
       /\ e.outcome # "SUCCESS" => e.snapshot = NoSnapshot /\ e.request \notin stored
     Written(r) == pc[r] \in {"summary", "supersede", "deal_status", "done"}
<1>1. /\ stored \subseteq stored' /\ stored \subseteq Requests
      /\ \A s \in stored : snap'[s] = snap[s]
      /\ \A e \in audits : e.request \in Requests
      /\ \A s \in stored : Written(s)
  BY SnapshotsKept DEF TypeInv, TypeOK, TablesOK, RequestWellFormed, AuditEvent
<1>2. /\ \A s \in stored : Success(s) \in audits
      /\ \A e \in audits : Truthful(e) /\ Written(e.request)
      /\ \A e, f \in audits : e.request = f.request => e = f
  BY DEF AuditInv, AuditTrail
<1>3. ASSUME NEW r \in Requests, Receive(r) \/ Serve(r) \/ Abort(r)
      PROVE  \A q \in Requests : Written(q) => Written(q)'
  <2>1. Written(r) => Written(r)'
    BY <1>3, Kinds DEF Ends, Taken, Repeated, Moved, Analysed, Stores
  <2> QED BY <1>3, <2>1, OthersUntouched
<1>4. ASSUME NEW r \in Requests, Receive(r) \/ Serve(r) \/ Abort(r),
             audits' = audits, stored' = stored
      PROVE  AuditInv'
  BY <1>1, <1>2, <1>3, <1>4 DEF AuditInv, AuditTrail
<1>5. ASSUME NEW r \in Requests, Receive(r) \/ Serve(r) \/ Abort(r),
             ~ Written(r), Written(r)', NEW e, audits' = audits \cup {e}, e.request = r, Truthful(e)',
             stored' = stored \/ stored' = stored \cup {r},
             r \in stored' => e = Success(r)'
      PROVE  AuditInv'
  <2>1. \A s \in stored' : Success(s)' \in audits'
    BY <1>1, <1>2, <1>5
  <2>2. \A f \in audits : f.request # r
    BY <1>2, <1>5
  <2>3. \A f \in audits' : Truthful(f)' /\ Written(f.request)'
    BY <1>1, <1>2, <1>3, <1>5, <2>2
  <2>4. \A f, g \in audits' : f.request = g.request => f = g
    BY <1>2, <1>5, <2>2
  <2> QED BY <2>1, <2>3, <2>4 DEF AuditInv, AuditTrail
<1>6. ASSUME NEW r \in Requests, Receive(r) \/ Serve(r) \/ Abort(r), Stores(r) PROVE AuditInv'
  <2>1. /\ pc[r] = "commit" /\ pc'[r] \in {"summary", "deal_status"}
        /\ stored' = stored \cup {r} /\ snap' = snap
        /\ call[r].op \in Analyses \/ call[r].op = "reproduce"
    BY <1>6 DEF Stores, TypeInv, RequestWellFormed, Call, Ops
  <2>2. snap[r].deal = call[r].deal
    BY <2>1 DEF OriginInv, OriginOf
  <2>. PICK e : e = Success(r)'
    OBVIOUS
  <2>3. audits' = audits \cup {e}
    BY <1>6, <2>1, <2>2 DEF Stores, Audited
  <2>4. e.request = r /\ Truthful(e)'
    BY <2>1
  <2> QED BY <1>5, <1>6, <2>1, <2>3, <2>4
<1>7. ASSUME NEW r \in Requests, WriteFailure(r) PROVE AuditInv'
  <2>1. /\ pc[r] \in {"validation_failure", "engine_error"} /\ pc'[r] = "done" /\ stored' = stored
        /\ r \notin stored /\ Serve(r)
    BY <1>1, <1>7 DEF WriteFailure, Answer, Goto, Serve, TypeInv, TypeOK, RequestsOK
  <2>2. \/ audits' = audits
        \/ \E outcome \in {"VALIDATION_FAILURE", "ENGINE_ERROR"} : Audited(r, outcome, NoSnapshot)
    BY <1>7 DEF WriteFailure
  <2>3. ASSUME NEW outcome \in {"VALIDATION_FAILURE", "ENGINE_ERROR"}, Audited(r, outcome, NoSnapshot)
        PROVE  AuditInv'
    <3> DEFINE e == [request |-> r, deal |-> call[r].deal, outcome |-> outcome, snapshot |-> NoSnapshot]
    <3>1. audits' = audits \cup {e} /\ e.request = r /\ Truthful(e)'
      BY <2>1, <2>3 DEF Audited
    <3> QED BY <1>5, <2>1, <3>1
  <2> QED BY <1>4, <2>1, <2>2, <2>3
<1>8. ASSUME NEW r \in Requests, Receive(r) \/ Serve(r) \/ Abort(r), ~ Stores(r), ~ WriteFailure(r)
      PROVE  audits' = audits /\ stored' = stored
  <2>1. stored' = stored
    BY <1>8, Kinds DEF Ends, Taken, Repeated, Moved, Analysed, Quiet
  <2>2. CASE CommitAnalysis(r) \/ CommitReproduction(r)
    BY <1>8, <2>2 DEF CommitAnalysis, CommitReproduction, Stores, Goto, session, Analyses, Edits,
       TypeInv, TypeOK, RequestsOK
  <2>3. CASE ~ (CommitAnalysis(r) \/ CommitReproduction(r))
    BY <1>8, <2>3 DEF Receive, Refuse, update_working_inputs, advance_deal_status, archive_deal,
       BeginEdit, run_calculation, recalculate, reproduce_original, Serve, ReloadDeal, ReloadArchived,
       RunEngine, WriteDeal, InsertReproduction, CommitEdit, LoadSummary, LoadSummaryThenSupersede,
       MarkSuperseded, ReportReproduction, Abort, tables
  <2> QED BY <2>1, <2>2, <2>3
<1>9. CASE ActivateConfig \/ UNCHANGED vars
  <2>1. UNCHANGED <<stored, audits, pc, snap>>
    BY <1>9 DEF ActivateConfig, vars, tables, session
  <2> QED BY <2>1 DEF AuditInv, AuditTrail
<1> QED BY <1>4, <1>6, <1>7, <1>8, <1>9 DEF Next, Terminated

\* So is every reachable state's.
LEMMA AlwaysAudited == Spec => []AuditInv
<1>1. Init => AuditInv
  BY DEF Init, AuditInv, AuditTrail
<1> QED BY <1>1, StepAudit, AlwaysOrigin, AlwaysTyped, PTL DEF Spec

\* SI-06: whatever aborts or overlaps, a snapshot is committed exactly when its SUCCESS event is,
\* and a failure event never comes with a snapshot.
THEOREM SnapshotsAudited == Spec => []AuditTrail
<1>1. AuditInv => AuditTrail BY DEF AuditInv
<1> QED BY <1>1, AlwaysAudited, PTL

-----------------------------------------------------------------------------
(* Answers                                                                 *)

\* A request answers once, from a step that tells whether its snapshot is committed.
LEMMA StepAnswer == TypeInv /\ AnswerInv /\ [Next]_vars => AnswerInv'
<1> SUFFICES ASSUME TypeInv, AnswerInv, [Next]_vars PROVE AnswerInv'
  OBVIOUS
<1> DEFINE
     Honest(r) ==
       /\ reply[r].result = "created" => r \in stored
       /\ reply[r].result \in Results \ {"created", "error"} => r \notin stored
<1>1. \A r \in Requests : r \in stored => pc[r] \in {"summary", "supersede", "deal_status", "done"}
  BY DEF TypeInv, RequestWellFormed
<1>2. \A r \in Requests : Honest(r) /\ AnswerOf(r)
  BY DEF AnswerInv, AnswersAreTrue
<1>3. ASSUME NEW r \in Requests, Receive(r) \/ Serve(r) \/ Abort(r)
      PROVE  \A q \in Requests : Honest(q)' /\ AnswerOf(q)'
  <2>1. stored' = stored \/ stored' = stored \cup {r}
    BY <1>3, Kinds DEF Ends, Taken, Repeated, Moved, Analysed, Stores, Quiet
  <2>2. ASSUME NEW q \in Requests, q # r PROVE Honest(q)' /\ AnswerOf(q)'
    <3>1. pc'[q] = pc[q] /\ reply'[q] = reply[q]
      BY <1>3, <2>2, OthersUntouched, RepliesUntouched
    <3> QED BY <1>2, <2>1, <2>2, <3>1 DEF AnswerOf
  <2>3. Honest(r)' /\ AnswerOf(r)'
    <3>1. CASE Ends(r)
      BY <1>1, <1>2, <3>1 DEF Ends, AnswerOf
    <3>2. CASE Taken(r) \/ Repeated(r) \/ Moved(r) \/ Analysed(r) \/ Stores(r)
      <4>1. pc[r] # "done" /\ pc'[r] # "done" /\ reply' = reply
        BY <3>2 DEF Taken, Repeated, Moved, Analysed, Stores, Quiet
      <4>2. pc'[r] \in {"summary", "supersede", "deal_status"} => r \in stored'
        BY <1>2, <3>2 DEF Taken, Repeated, Moved, Analysed, Stores, Quiet, AnswerOf
      <4> QED BY <1>2, <4>1, <4>2 DEF AnswerOf, Results
    <3> QED BY <1>3, <3>1, <3>2, Kinds
  <2> QED BY <2>2, <2>3
<1>4. CASE ActivateConfig \/ UNCHANGED vars
  <2>1. UNCHANGED <<stored, pc, reply>>
    BY <1>4 DEF ActivateConfig, vars, tables
  <2> QED BY <2>1 DEF AnswerInv, AnswersAreTrue, AnswerOf
<1> QED BY <1>3, <1>4 DEF Next, Terminated, AnswerInv, AnswersAreTrue

\* So do requests in every reachable state.
LEMMA AlwaysAnswered == Spec => []AnswerInv
<1>1. Init => AnswerInv
  BY DEF Init, AnswerInv, AnswersAreTrue, AnswerOf, Results
<1> QED BY <1>1, StepAnswer, AlwaysTyped, PTL DEF Spec

\* A client told of success has a durable snapshot, one told of a refusal or a failure has none.
THEOREM ClientsToldTheTruth == Spec => []AnswersAreTrue
<1>1. AnswerInv => AnswersAreTrue BY DEF AnswerInv
<1> QED BY <1>1, AlwaysAnswered, PTL

-----------------------------------------------------------------------------
(* Superseded snapshots                                                    *)

\* A recalculation supersedes the analysis it found at its first load, and that one is older
\* than its own, which is committed by then.
LEMMA StepSuccessor ==
  TypeInv /\ ClockInv /\ PointerInv /\ SuccessorInv /\ [Next]_vars => SuccessorInv'
<1> SUFFICES ASSUME TypeInv, ClockInv, PointerInv, SuccessorInv, [Next]_vars PROVE SuccessorInv'
  OBVIOUS
<1>1. /\ stored \subseteq stored' /\ stored \subseteq Requests
      /\ \A s \in stored : snap'[s] = snap[s]
      /\ \A d \in Deals : StoredAnalyses(d) \subseteq StoredAnalyses(d)'
      /\ \A d \in Deals : StoredAnalyses(d) \subseteq stored
      /\ clock \in Nat
  BY SnapshotsKept DEF TypeInv, TypeOK, TablesOK, StoredAnalyses
<1>2. ASSUME NEW r \in Requests, pc[r] \notin {"new", "done"} PROVE call[r].deal \in Deals
  BY <1>2 DEF TypeInv, RequestWellFormed, Call
<1> DEFINE Superseded(s) ==
             \E d \in Deals : /\ s \in StoredAnalyses(d)
                              /\ \E t \in StoredAnalyses(d) : snap[t].at > snap[s].at
<1>3. ASSUME NEW s, Superseded(s) PROVE Superseded(s)'
  <2>. PICK d \in Deals : s \in StoredAnalyses(d) /\ \E t \in StoredAnalyses(d) : snap[t].at > snap[s].at
    BY <1>3
  <2>1. \E t \in StoredAnalyses(d)' : snap'[t].at > snap'[s].at
    BY <1>1
  <2> QED BY <1>1, <2>1
<1>4. \A s \in superseded : Superseded(s)
  BY DEF SuccessorInv, SupersededHasSuccessor
<1>5. ASSUME NEW r \in Requests, Receive(r) \/ Serve(r) \/ Abort(r),
             NEW q \in Requests, q # r
      PROVE  PreviousOf(q)'
  <2>1. pc'[q] = pc[q] /\ call'[q] = call[q] /\ prev'[q] = prev[q] /\ snap'[q] = snap[q]
    BY <1>5, OthersUntouched
  <2>2. PreviousOf(q) BY DEF SuccessorInv
  <2>3. q \in stored' => q \in stored
    BY <1>5, Kinds DEF Ends, Taken, Repeated, Moved, Analysed, Stores, Quiet
  <2> QED BY <1>1, <1>2, <2>1, <2>2, <2>3 DEF PreviousOf, Built
<1>6. ASSUME NEW r \in Requests, Receive(r) \/ Serve(r) \/ Abort(r)
      PROVE  PreviousOf(r)'
  <2>1. PreviousOf(r) BY DEF SuccessorInv
  <2>2. CASE Ends(r)
    BY <2>2 DEF Ends, PreviousOf
  <2>3. CASE Taken(r)
    <3>1. call'[r].deal \in Deals BY <2>3 DEF Taken, Call
    <3>2. deals[call'[r].deal].latest \in StoredAnalyses(call'[r].deal) \cup {NoSnapshot}
      BY <3>1 DEF PointerInv, PointerIsOwnAnalysis
    <3>3. ~ Built(r)'
      BY <2>3 DEF Taken, Quiet, Built, Edits, TypeInv, RequestWellFormed
    <3> QED BY <1>1, <2>1, <2>3, <3>1, <3>2, <3>3 DEF Taken, PreviousOf
  <2>4. CASE Repeated(r)
    BY <2>1, <2>4 DEF Repeated, PreviousOf
  <2>5. CASE Moved(r)
    <3>1. Built(r)' => Built(r)
      BY <2>5 DEF Moved, Quiet, Built, Edits, TypeInv, RequestWellFormed
    <3> QED BY <1>1, <1>2, <2>1, <2>5, <3>1 DEF Moved, Quiet, PreviousOf
  <2>6. CASE Analysed(r)
    <3>1. /\ pc[r] = "engine" /\ pc'[r] \in {"persist", "validation_failure", "engine_error"}
          /\ snap'[r].at = clock /\ call' = call /\ prev' = prev
      BY <2>6 DEF Analysed
    <3>2. prev[r] # NoSnapshot => prev[r] \in stored /\ snap'[prev[r]].at < clock
      BY <1>1, <1>2, <2>1, <3>1 DEF PreviousOf, ClockInv, Built
    <3> QED BY <1>1, <1>2, <2>1, <3>1, <3>2 DEF PreviousOf
  <2>7. CASE Stores(r)
    <3>1. pc'[r] = "summary" => r \in StoredAnalyses(call[r].deal)'
      BY <2>7 DEF Stores, PointerInv, PointerOf, StoredAnalyses
    <3>2. Built(r) BY <2>7 DEF Stores, Built
    <3> QED BY <1>1, <1>2, <2>1, <2>7, <3>1, <3>2 DEF Stores, PreviousOf
  <2> QED BY <1>6, <2>2, <2>3, <2>4, <2>5, <2>6, <2>7, Kinds
<1>7. ASSUME NEW r \in Requests, Receive(r) \/ Serve(r) \/ Abort(r),
             NEW s \in superseded', s \notin superseded
      PROVE  Superseded(s)
  <2>1. MarkSuperseded(r)
    BY <1>7 DEF Receive, Refuse, update_working_inputs, advance_deal_status, archive_deal,
       BeginEdit, run_calculation, recalculate, reproduce_original, Serve, ReloadDeal, ReloadArchived,
       RunEngine, WriteFailure, WriteDeal, InsertReproduction, CommitEdit, CommitAnalysis,
       CommitReproduction, LoadSummary, LoadSummaryThenSupersede, ReportReproduction, Abort, tables
  <2>2. pc[r] = "supersede" /\ s = prev[r] /\ prev[r] \in Requests
    BY <1>7, <2>1 DEF MarkSuperseded, TypeInv, RequestWellFormed
  <2>3. /\ prev[r] \in StoredAnalyses(call[r].deal)
        /\ r \in StoredAnalyses(call[r].deal)
        /\ Built(r) => snap[prev[r]].at < snap[r].at
    BY <2>2, WorkspaceAssumption DEF SuccessorInv, PreviousOf
  <2>4. snap[r].at > snap[s].at
    BY <1>1, <1>2, <2>2, <2>3 DEF Built
  <2> QED BY <1>2, <2>2, <2>3, <2>4
<1>8. CASE ActivateConfig \/ UNCHANGED vars
  <2>1. UNCHANGED <<stored, superseded, pc, call, prev, snap>>
    BY <1>8 DEF ActivateConfig, vars, tables, session
  <2> QED BY <2>1 DEF SuccessorInv, SupersededHasSuccessor, PreviousOf, Built, StoredAnalyses
<1>9. ASSUME NEW r \in Requests, Receive(r) \/ Serve(r) \/ Abort(r) PROVE SuccessorInv'
  <2>1. \A s \in superseded' : Superseded(s)'
    BY <1>3, <1>4, <1>7, <1>9
  <2> QED BY <1>5, <1>6, <1>9, <2>1 DEF SuccessorInv, SupersededHasSuccessor
<1> QED BY <1>8, <1>9 DEF Next, Terminated

\* So it is in every reachable state.
LEMMA AlwaysSucceeded == Spec => []SuccessorInv
<1>1. Init => SuccessorInv
  BY DEF Init, SuccessorInv, SupersededHasSuccessor, PreviousOf
<1> QED BY <1>1, StepSuccessor, AlwaysPointer, AlwaysPast, AlwaysTyped, PTL DEF Spec

\* Whatever races or aborts, a superseded snapshot is an analysis of a deal that has a later
\* one committed: no deal is left without a current analysis.
THEOREM SupersededOnlyByNewer == Spec => []SupersededHasSuccessor
<1>1. SuccessorInv => SupersededHasSuccessor BY DEF SuccessorInv
<1> QED BY <1>1, AlwaysSucceeded, PTL

-----------------------------------------------------------------------------
(* The newest analysis                                                     *)

\* A deal gets a new analysis only in a commit that gives its row a new version.
LEMMA AnalysisBumps ==
  ASSUME TypeInv, LockInv, PointerInv, OriginInv,
         NEW r \in Requests, Receive(r) \/ Serve(r) \/ Abort(r),
         NEW d \in Deals, StoredAnalyses(d)' # StoredAnalyses(d)
  PROVE  /\ CommitAnalysis(r) /\ call[r].deal = d
         /\ version'[d] = version[d] + 1
         /\ StoredAnalyses(d)' = StoredAnalyses(d) \cup {r}
<1>1. \A s \in stored : snap'[s] = snap[s]
  BY SnapshotsKept DEF Next
<1>2. Stores(r)
  BY <1>1, Kinds DEF Ends, Taken, Repeated, Moved, Analysed, Quiet, StoredAnalyses
<1>3. /\ pc[r] = "commit" /\ stored' = stored \cup {r} /\ snap' = snap
      /\ call[r].op \in Analyses \/ call[r].op = "reproduce"
  BY <1>2 DEF Stores, TypeInv, RequestWellFormed, Call, Ops
<1>4. /\ call[r].op \in Analyses => snap[r].deal = call[r].deal /\ snap[r].source = NoSnapshot
      /\ call[r].op = "reproduce" => snap[r].source # NoSnapshot
  <2>1. NoSnapshot \notin stored
    BY WorkspaceAssumption DEF TypeInv, TypeOK, TablesOK
  <2> QED BY <1>3, <2>1 DEF PointerInv, PointerOf, OriginInv, OriginOf, Repeats
<1>5. /\ call[r].op \in Analyses /\ call[r].deal = d
      /\ StoredAnalyses(d)' = StoredAnalyses(d) \cup {r}
  BY <1>3, <1>4 DEF StoredAnalyses
<1>6. CommitAnalysis(r)
  <2>1. stored' # stored BY <1>3 DEF StoredAnalyses
  <2> QED
    BY <1>3, <1>5, <2>1 DEF Receive, Refuse, update_working_inputs, advance_deal_status, archive_deal,
       BeginEdit, run_calculation, recalculate, reproduce_original, Serve, ReloadDeal, ReloadArchived,
       RunEngine, WriteFailure, WriteDeal, InsertReproduction, CommitEdit, CommitReproduction,
       LoadSummary, LoadSummaryThenSupersede, MarkSuperseded, ReportReproduction, Abort, tables,
       Analyses
<1>7. version'[d] = version[d] + 1
  BY <1>5, <1>6 DEF CommitAnalysis, PublishDeal, TypeInv, TypeOK, TablesOK
<1> QED BY <1>5, <1>6, <1>7

\* An analysis stored after a request read the row bumps the row's version, so a copy that is
\* still of the current version belongs to the newest analysis.
LEMMA StepNewest ==
  /\ TypeInv /\ ClockInv /\ LockInv /\ PointerInv /\ OriginInv /\ FreshInv /\ NewestInv
  /\ [Next]_vars
  => NewestInv'
<1> SUFFICES ASSUME TypeInv, ClockInv, LockInv, PointerInv, OriginInv, FreshInv, NewestInv, [Next]_vars
             PROVE  NewestInv'
  OBVIOUS
<1>1. /\ \A s \in stored : snap'[s] = snap[s]
      /\ \A d \in Deals : StoredAnalyses(d) \subseteq stored
      /\ stored \subseteq Requests
      /\ version \in [Deals -> Nat] /\ seen \in [Requests -> Nat]
  BY SnapshotsKept DEF TypeInv, TypeOK, TablesOK, RequestsOK, StoredAnalyses
<1>2. ASSUME NEW r \in Requests, pc[r] \notin {"new", "done"} PROVE call[r].deal \in Deals
  BY <1>2 DEF TypeInv, RequestWellFormed, Call
<1>3. ASSUME NEW r \in Requests, Receive(r) \/ Serve(r) \/ Abort(r),
             NEW q \in Requests, q # r,
             pc'[q] \in {"persist", "commit"}, call'[q].op \in Analyses,
             seen'[q] = version'[call'[q].deal],
             NEW s \in StoredAnalyses(call[q].deal)'
      PROVE  snap'[s].at < snap'[q].at
  <2>1. pc'[q] = pc[q] /\ call'[q] = call[q] /\ snap'[q] = snap[q] /\ seen'[q] = seen[q]
    BY <1>3, OthersUntouched
  <2>. PICK d \in Deals : d = call[q].deal
    BY <1>2, <1>3, <2>1
  <2>2. seen[q] <= version[d]
    BY <1>3, <2>1 DEF FreshInv, CopyOf, Writes, Analyses
  <2>3. version'[d] = version[d] \/ version'[d] = version[d] + 1
    BY <1>3, RowChange
  <2>4. seen[q] = version[d] /\ version'[d] = version[d]
    BY <1>1, <1>3, <2>1, <2>2, <2>3
  <2>5. s \in StoredAnalyses(d)
    BY <1>1, <1>3, <2>1, <2>4, AnalysisBumps
  <2> QED BY <1>1, <1>3, <2>1, <2>4, <2>5 DEF NewestInv, NewestOf
<1>4. ASSUME NEW r \in Requests, Receive(r) \/ Serve(r) \/ Abort(r),
             pc'[r] \in {"persist", "commit"}, call'[r].op \in Analyses,
             seen'[r] = version'[call'[r].deal],
             NEW s \in StoredAnalyses(call[r].deal)'
      PROVE  snap'[s].at < snap'[r].at
  <2>1. CASE Analysed(r)
    <3>1. snap'[r].at = clock /\ stored' = stored
      BY <2>1 DEF Analysed, Quiet
    <3>2. s \in stored /\ snap'[s].at < clock
      BY <1>1, <1>4, <3>1 DEF StoredAnalyses, ClockInv, Built
    <3> QED BY <3>1, <3>2
  <2>2. CASE Moved(r)
    <3>1. pc[r] = "persist" /\ UNCHANGED <<call, snap, stored, version>>
      BY <1>4, <2>2 DEF Moved, Quiet, Analyses
    <3>2. seen'[r] = seen[r]
      BY <1>4, <3>1 DEF Receive, Refuse, update_working_inputs, advance_deal_status, archive_deal,
         BeginEdit, run_calculation, recalculate, reproduce_original, CanStart, Serve, ReloadDeal,
         ReloadArchived, RunEngine, WriteFailure, WriteDeal, InsertReproduction, CommitEdit,
         CommitAnalysis, CommitReproduction, LoadSummary, LoadSummaryThenSupersede, MarkSuperseded,
         ReportReproduction, Abort, Answer, Goto, TypeInv, TypeOK, RequestsOK, session
    <3>3. s \in StoredAnalyses(call[r].deal)
      BY <1>4, <3>1 DEF StoredAnalyses
    <3> QED BY <1>4, <3>1, <3>2, <3>3 DEF NewestInv, NewestOf
  <2>3. ~ Ends(r) /\ ~ Taken(r) /\ ~ Repeated(r) /\ ~ Stores(r)
    BY <1>4 DEF Ends, Taken, Repeated, Stores, Edits, Analyses
  <2> QED BY <1>4, <2>1, <2>2, <2>3, Kinds
<1>5. CASE ActivateConfig \/ UNCHANGED vars
  <2>1. UNCHANGED <<stored, pc, call, snap, seen, version>>
    BY <1>5 DEF ActivateConfig, vars, tables, session
  <2> QED BY <2>1 DEF NewestInv, NewestOf, StoredAnalyses
<1> QED BY <1>3, <1>4, <1>5 DEF Next, Terminated, NewestInv, NewestOf

\* So it is in every reachable state.
LEMMA AlwaysNewest == Spec => []NewestInv
<1>1. Init => NewestInv
  BY DEF Init, NewestInv, NewestOf
<1> QED
  BY <1>1, StepNewest, AlwaysFresh, AlwaysOrigin, AlwaysPointer, AlwaysLocked, AlwaysPast, AlwaysTyped,
     PTL DEF Spec

\* Whatever requests overlap, a commit whose copy is of the row's current version moves the
\* pointer only to an analysis newer than all that are stored: a pointer that moves back is
\* the work of an overtaken request.
THEOREM FreshPointers == Spec => FreshPointerIsNewest
<1>1. TypeInv /\ LockInv /\ FreshInv /\ NewestInv /\ [Next]_vars => [NewestPointer]_vars
  <2> SUFFICES ASSUME TypeInv, LockInv, FreshInv, NewestInv, [Next]_vars,
                      NEW r \in Requests, NEW d \in Deals,
                      lock[d] = r, seen[r] = version[d], deals'[d].latest # deals[d].latest,
                      NEW s \in StoredAnalyses(d)
               PROVE  snap[s].at < snap[r].at
    BY DEF NewestPointer
  <2>1. PICK q \in Requests : Receive(q) \/ Serve(q) \/ Abort(q)
    BY DEF Next, Terminated, ActivateConfig, vars, tables
  <2>2. q = r /\ Writing(r, d) /\ deals'[d] = row[r]
    BY <2>1, RowChange
  <2>3. LegalChange(call[r], r, deals[d], row[r])
    BY <2>2 DEF FreshInv, CopyOf, Writes, Writing
  <2>4. deals[d] \in Deal
    BY DEF TypeInv, TypeOK, TablesOK
  <2>5. call[r].op \in Analyses
    BY <2>2, <2>3, <2>4, EntityPointer DEF LegalChange
  <2> QED BY <2>2, <2>5 DEF NewestInv, NewestOf, Writing
<1> QED
  BY <1>1, AlwaysTyped, AlwaysLocked, AlwaysFresh, AlwaysNewest, PTL DEF Spec, FreshPointerIsNewest

-----------------------------------------------------------------------------
(* Requests one at a time.  Every theorem that needs it names the          *)
(* hypothesis MaxInFlight = 1; a crash may still cut any request short     *)
(* after any of its commits.                                               *)

\* At most one request is in flight, and its copy is of the row's current version.
AloneInv ==
  /\ \A q, r \in InFlight : q = r
  /\ \A r \in Requests : Writes(r) => seen[r] = version[call[r].deal]

\* The pointer names the newest analysis.
PointerNewest ==
  \A d \in Deals : \A s \in StoredAnalyses(d) :
    /\ deals[d].latest # NoSnapshot
    /\ snap[s].at <= snap[deals[d].latest].at

-----------------------------------------------------------------------------
(* No overlap                                                              *)

\* Only the request in flight takes a step, or a new one when there is none.
LEMMA OnlyOne ==
  ASSUME MaxInFlight = 1, TypeInv, AloneInv,
         NEW r \in Requests, Receive(r) \/ Serve(r) \/ Abort(r)
  PROVE  InFlight \subseteq {r} /\ InFlight' \subseteq {r}
<1>1. \A q \in Requests : q # r => pc'[q] = pc[q]
  BY OthersUntouched
<1>2. CASE Receive(r)
  <2>1. pc[r] = "new" /\ Cardinality(InFlight) < 1
    BY <1>2 DEF Receive, Refuse, update_working_inputs, advance_deal_status, archive_deal, BeginEdit,
       run_calculation, recalculate, reproduce_original, CanStart
  <2>2. IsFiniteSet(InFlight)
    <3>1. PICK q : InFlight \subseteq {q}
      BY DEF AloneInv
    <3> QED BY <3>1, FS_Singleton, FS_Subset
  <2>3. InFlight = {}
    BY <2>1, <2>2, FS_CardinalityType, FS_EmptySet
  <2> QED BY <1>1, <2>3 DEF InFlight
<1>3. CASE Serve(r) \/ Abort(r)
  <2>1. r \in InFlight
    BY <1>3 DEF InFlight, Serve, ReloadDeal, ReloadArchived, RunEngine, WriteFailure, WriteDeal,
       InsertReproduction, CommitEdit, CommitAnalysis, CommitReproduction, LoadSummary,
       LoadSummaryThenSupersede, MarkSuperseded, ReportReproduction, Abort
  <2>2. InFlight \subseteq {r}
    BY <2>1 DEF AloneInv
  <2> QED BY <1>1, <2>2 DEF InFlight
<1> QED BY <1>2, <1>3

\* A request that nobody overtakes holds a copy of the row's current version until it commits.
LEMMA StepAlone ==
  ASSUME MaxInFlight = 1
  PROVE  TypeInv /\ LockInv /\ AloneInv /\ [Next]_vars => AloneInv'
<1> SUFFICES ASSUME TypeInv, LockInv, AloneInv, [Next]_vars PROVE AloneInv'
  OBVIOUS
<1>1. /\ pc \in [Requests -> Steps] /\ call \in [Requests -> Call \cup {NoRequest}]
      /\ seen \in [Requests -> Nat] /\ version \in [Deals -> Nat]
  BY DEF TypeInv, TypeOK, TablesOK, RequestsOK
<1>2. ASSUME NEW r \in Requests, Receive(r) \/ Serve(r) \/ Abort(r),
             Writes(r)' => seen'[r] = version'[call'[r].deal]
      PROVE  AloneInv'
  <2>1. InFlight' \subseteq {r}
    BY <1>2, OnlyOne
  <2>2. \A q \in Requests : Writes(q)' => q = r
    BY <2>1 DEF Writes, InFlight
  <2> QED BY <1>2, <2>1, <2>2 DEF AloneInv
<1>3. ASSUME NEW r \in Requests, Receive(r) PROVE Writes(r)' => seen'[r] = version'[call'[r].deal]
  BY <1>1, <1>3 DEF Receive, Refuse, update_working_inputs, advance_deal_status, archive_deal,
     BeginEdit, run_calculation, recalculate, reproduce_original, Answer, Asked, Hold, Goto, Writes
<1>4. ASSUME NEW r \in Requests, Serve(r) PROVE Writes(r)' => seen'[r] = version'[call'[r].deal]
  <2>1. CASE ReloadDeal(r)
    BY <1>1, <2>1 DEF ReloadDeal, Hold
  <2>2. CASE RunEngine(r) \/ WriteDeal(r) \/ InsertReproduction(r)
    BY <1>1, <2>2 DEF RunEngine, WriteDeal, InsertReproduction, AloneInv, Writes, session
  <2>3. CASE \/ ReloadArchived(r) \/ WriteFailure(r) \/ CommitEdit(r) \/ CommitAnalysis(r)
             \/ CommitReproduction(r) \/ LoadSummary(r) \/ LoadSummaryThenSupersede(r)
             \/ MarkSuperseded(r) \/ ReportReproduction(r)
    BY <1>1, <2>3 DEF ReloadArchived, WriteFailure, CommitEdit, CommitAnalysis, CommitReproduction,
       LoadSummary, LoadSummaryThenSupersede, MarkSuperseded, ReportReproduction, Answer, Goto, Writes
  <2> QED BY <1>4, <2>1, <2>2, <2>3 DEF Serve
<1>5. ASSUME NEW r \in Requests, Abort(r) PROVE ~ Writes(r)'
  BY <1>1, <1>5 DEF Abort, Answer, Goto, Writes
<1>6. CASE ActivateConfig \/ UNCHANGED vars
  <2>1. UNCHANGED <<pc, call, seen, version>>
    BY <1>6 DEF ActivateConfig, vars, session
  <2> QED BY <2>1 DEF AloneInv, InFlight, Writes
<1> QED BY <1>2, <1>3, <1>4, <1>5, <1>6 DEF Next, Terminated

\* So it does in every reachable state.
LEMMA AlwaysAlone ==
  ASSUME MaxInFlight = 1
  PROVE  Spec => []AloneInv
<1>1. Init => AloneInv
  BY DEF Init, AloneInv, InFlight, Writes
<1>2. TypeInv /\ LockInv /\ AloneInv /\ [Next]_vars => AloneInv'
  BY StepAlone
<1> QED BY <1>1, <1>2, AlwaysLocked, AlwaysTyped, PTL DEF Spec

-----------------------------------------------------------------------------
(* The pointer and the history                                             *)

\* When nobody overtakes it, an analysis moves the pointer forward, and an edit leaves it.
LEMMA StepPointerNewest ==
  /\ TypeInv /\ LockInv /\ PointerInv /\ OriginInv /\ FreshInv /\ NewestInv /\ AloneInv
  /\ PointerNewest /\ [Next]_vars
  => PointerNewest'
<1> SUFFICES ASSUME TypeInv, LockInv, PointerInv, OriginInv, FreshInv, NewestInv, AloneInv,
                    PointerNewest, [Next]_vars
             PROVE  PointerNewest'
  OBVIOUS
<1>1. /\ \A s \in stored : snap'[s] = snap[s]
      /\ \A d \in Deals : StoredAnalyses(d) \subseteq stored
      /\ NoSnapshot \notin Requests
      /\ \A d \in Deals : deals[d] \in Deal
      /\ \A d \in Deals : deals[d].latest \in StoredAnalyses(d) \cup {NoSnapshot}
      /\ \A s \in stored : snap[s].at \in Nat
  BY SnapshotsKept, WorkspaceAssumption
  DEF TypeInv, TypeOK, TablesOK, RequestWellFormed, StoredAnalyses, PointerInv, PointerIsOwnAnalysis,
      Snapshot
<1>2. ASSUME NEW r \in Requests, Receive(r) \/ Serve(r) \/ Abort(r),
             NEW d \in Deals, NEW s \in StoredAnalyses(d)'
      PROVE  deals'[d].latest # NoSnapshot /\ snap'[s].at <= snap'[deals'[d].latest].at
  <2>1. CASE CommitAnalysis(r) /\ call[r].deal = d
    <3>1. /\ pc[r] = "commit" /\ call[r].op \in Analyses /\ deals'[d] = row[r] /\ snap' = snap
          /\ stored' = stored \cup {r}
      BY <2>1 DEF CommitAnalysis, PublishDeal, session, TypeInv, TypeOK, TablesOK
    <3>2. row[r].latest = r /\ snap[r].at \in Nat
      BY <3>1 DEF PointerInv, PointerOf, TypeInv, RequestWellFormed, Snapshot, Edits, Analyses
    <3>3. seen[r] = version[d]
      BY <2>1, <3>1 DEF AloneInv, Writes, Analyses
    <3>4. \A t \in StoredAnalyses(d) : snap[t].at < snap[r].at
      BY <2>1, <3>1, <3>3 DEF NewestInv, NewestOf
    <3>5. s = r \/ s \in StoredAnalyses(d)
      BY <3>1 DEF StoredAnalyses
    <3> QED BY <1>1, <3>1, <3>2, <3>4, <3>5
  <2>2. CASE ~ (CommitAnalysis(r) /\ call[r].deal = d)
    <3>1. s \in StoredAnalyses(d)
      BY <1>2, <2>2, AnalysisBumps
    <3>2. deals'[d].latest = deals[d].latest
      <4>1. CASE deals'[d] = deals[d]
        BY <4>1
      <4>2. CASE Writing(r, d) /\ CommitEdit(r) /\ deals'[d] = row[r]
        <5>1. LegalChange(call[r], r, deals[d], row[r])
          BY <4>2 DEF AloneInv, FreshInv, CopyOf, Writes, Writing
        <5> QED BY <1>1, <4>2, <5>1, EntityPointer DEF LegalChange, CommitEdit, Edits, Analyses
      <4> QED BY <1>2, <2>2, <4>1, <4>2, RowChange DEF Writing
    <3> QED BY <1>1, <3>1, <3>2 DEF PointerNewest
  <2> QED BY <2>1, <2>2
<1>3. CASE ActivateConfig \/ UNCHANGED vars
  <2>1. UNCHANGED <<deals, stored, snap>>
    BY <1>3 DEF ActivateConfig, vars, tables, session
  <2> QED BY <2>1 DEF PointerNewest, StoredAnalyses
<1> QED BY <1>2, <1>3 DEF Next, Terminated, PointerNewest

\* So the pointer names the newest analysis in every reachable state.
LEMMA AlwaysPointerNewest ==
  ASSUME MaxInFlight = 1
  PROVE  Spec => []PointerNewest
<1>1. Init => PointerNewest
  BY DEF Init, PointerNewest, StoredAnalyses
<1>2. Spec => []AloneInv
  BY AlwaysAlone
<1> QED
  BY <1>1, <1>2, StepPointerNewest, AlwaysNewest, AlwaysFresh, AlwaysOrigin, AlwaysPointer,
     AlwaysLocked, AlwaysTyped, PTL DEF Spec

\* For a user who works alone the snapshot a deal points to is never marked superseded, even
\* when a recalculation is cut short between its two transactions.
THEOREM CurrentIsCurrent ==
  ASSUME MaxInFlight = 1
  PROVE  Spec => []CurrentNotSuperseded
<1>1. TypeInv /\ PointerInv /\ SuccessorInv /\ PointerNewest => CurrentNotSuperseded
  <2> SUFFICES ASSUME TypeInv, PointerInv, SuccessorInv, PointerNewest,
                      NEW d \in Deals, deals[d].latest \in superseded
               PROVE  FALSE
    BY DEF CurrentNotSuperseded
  <2>1. deals[d].latest \in StoredAnalyses(d)
    BY WorkspaceAssumption DEF TypeInv, TypeOK, TablesOK, PointerInv, PointerIsOwnAnalysis
  <2>2. PICK e \in Deals : /\ deals[d].latest \in StoredAnalyses(e)
                           /\ \E t \in StoredAnalyses(e) : snap[t].at > snap[deals[d].latest].at
    BY DEF SuccessorInv, SupersededHasSuccessor
  <2>3. e = d
    BY <2>1, <2>2 DEF StoredAnalyses
  <2>4. \A t \in StoredAnalyses(d) : snap[t].at \in Nat
    BY DEF StoredAnalyses, TypeInv, TypeOK, TablesOK, RequestWellFormed, Snapshot
  <2> QED BY <2>1, <2>2, <2>3, <2>4 DEF PointerNewest
<1>2. Spec => []PointerNewest
  BY AlwaysPointerNewest
<1> QED BY <1>1, <1>2, AlwaysSucceeded, AlwaysPointer, AlwaysTyped, PTL

-----------------------------------------------------------------------------
(* The atomic record                                                       *)

\* The record's methods are the entity's.
LEMMA SameEntity ==
  /\ Record!NewDeals = NewDeals
  /\ Record!WorkingInputs = WorkingInputs
  /\ \A deal : /\ Record!CanAdvance(deal) <=> CanAdvance(deal)
               /\ Record!advance_status(deal) = advance_status(deal)
               /\ Record!archive(deal) = archive(deal)
               /\ \A patch : Record!merge_input_update(deal, patch) = merge_input_update(deal, patch)
               /\ \A id : Record!apply_snapshot_created(deal, id) = apply_snapshot_created(deal, id)
BY DEF Record!NewDeals, NewDeals, Record!NewDeal, NewDeal, Record!WorkingInputs, WorkingInputs,
   Record!CanAdvance, CanAdvance, Record!advance_status, advance_status, Record!transitions,
   transitions, Record!archive, archive, Record!merge_input_update, merge_input_update,
   Record!apply_snapshot_created, apply_snapshot_created

\* The analyses the record knows of.
AnalysedIds == {s \in stored : snap[s].source = NoSnapshot}

\* A commit of an edit is one of the record's three edits of that row.
LEMMA EditRefines ==
  ASSUME TypeInv, LockInv, OriginInv, PointerInv, FreshInv, AloneInv,
         NEW r \in Requests, CommitEdit(r)
  PROVE  Record!Next
<1>. PICK d \in Deals : d = call[r].deal
  BY DEF CommitEdit, TypeInv, RequestWellFormed, Call
<1>1. /\ pc[r] = "commit" /\ call[r].op \in Edits /\ stored' = stored
      /\ deals' = [deals EXCEPT ![d] = row[r]]
  BY DEF CommitEdit, PublishDeal
<1>2. call[r].inputs \in WorkingInputs
  BY <1>1 DEF TypeInv, RequestWellFormed, Call
<1>3. AnalysedIds' = AnalysedIds
  BY <1>1, SnapshotsKept DEF AnalysedIds, Next, Serve
<1>4. LegalChange(call[r], r, deals[d], row[r])
  BY <1>1 DEF AloneInv, FreshInv, CopyOf, Writes, Edits
<1>5. CASE call[r].op = "update"
  <2>1. Record!UpdateInputs(d, call[r].inputs)
    BY <1>1, <1>3, <1>4, <1>5, SameEntity
    DEF LegalChange, Analyses, AnalysedIds, Record!UpdateInputs, Record!Open, Record!Write
  <2> QED BY <1>2, <2>1, SameEntity DEF Record!Next
<1>6. CASE call[r].op = "advance"
  <2>1. Record!Advance(d)
    BY <1>1, <1>3, <1>4, <1>6, SameEntity
    DEF LegalChange, Analyses, AnalysedIds, Record!Advance, Record!Write
  <2> QED BY <2>1 DEF Record!Next
<1>7. CASE call[r].op = "archive"
  <2>1. Record!Archive(d)
    BY <1>1, <1>3, <1>4, <1>7, SameEntity
    DEF LegalChange, Analyses, AnalysedIds, Record!Archive, Record!Open, Record!Write
  <2> QED BY <2>1 DEF Record!Next
<1> QED BY <1>1, <1>5, <1>6, <1>7 DEF Edits

\* A commit of an analysis is the record's analysis of that row.
LEMMA AnalysisRefines ==
  ASSUME TypeInv, LockInv, OriginInv, PointerInv, FreshInv, AloneInv,
         NEW r \in Requests, CommitAnalysis(r)
  PROVE  Record!Next
<1>. PICK d \in Deals : d = call[r].deal
  BY DEF CommitAnalysis, TypeInv, RequestWellFormed, Call
<1>1. /\ pc[r] = "commit" /\ call[r].op \in Analyses /\ stored' = stored \cup {r} /\ snap' = snap
      /\ deals' = [deals EXCEPT ![d] = row[r]]
  BY DEF CommitAnalysis, PublishDeal, session
<1>2. r \notin stored /\ snap[r].source = NoSnapshot
  BY <1>1 DEF TypeInv, RequestWellFormed, PointerInv, PointerOf
<1>3. AnalysedIds' = AnalysedIds \cup {r} /\ r \notin AnalysedIds
  BY <1>1, <1>2 DEF AnalysedIds
<1>4. LegalChange(call[r], r, deals[d], row[r])
  BY <1>1 DEF AloneInv, FreshInv, CopyOf, Writes, Analyses
<1>5. Record!Analyse(d, r)
  BY <1>1, <1>3, <1>4, SameEntity
  DEF LegalChange, Analyses, AnalysedIds, Record!Analyse, Record!Open, Record!Write
<1> QED BY <1>5 DEF Record!Next

\* No other step shows in the record: a reproduction's snapshot is not an analysis.
LEMMA OthersStutter ==
  ASSUME TypeInv, LockInv, OriginInv, PointerInv,
         NEW r \in Requests, Receive(r) \/ Serve(r) \/ Abort(r),
         ~ CommitEdit(r), ~ CommitAnalysis(r)
  PROVE  UNCHANGED Record!vars
<1>1. deals' = deals
  BY DEF Receive, Refuse, update_working_inputs, advance_deal_status, archive_deal, BeginEdit,
     run_calculation, recalculate, reproduce_original, Serve, ReloadDeal, ReloadArchived, RunEngine,
     WriteFailure, WriteDeal, InsertReproduction, CommitReproduction, LoadSummary,
     LoadSummaryThenSupersede, MarkSuperseded, ReportReproduction, Abort, tables
<1>2. AnalysedIds' = AnalysedIds
  <2>1. \A s \in stored : snap'[s] = snap[s] /\ snap[s] \in Snapshot
    BY SnapshotsKept DEF Next, TypeInv, TypeOK, TablesOK, RequestWellFormed
  <2>2. \A d \in Deals : StoredAnalyses(d)' = StoredAnalyses(d)
    BY AnalysisBumps
  <2>3. stored \subseteq stored' /\ stored' \subseteq Requests /\ TypeInv'
    BY SnapshotsKept, StepType DEF Next, TypeInv, TypeOK, TablesOK
  <2>4. \A s \in stored' : snap'[s].deal \in Deals
    BY <2>3 DEF TypeInv, RequestWellFormed, Snapshot
  <2> QED BY <2>1, <2>2, <2>3, <2>4 DEF AnalysedIds, StoredAnalyses
<1> QED BY <1>1, <1>2 DEF Record!vars, AnalysedIds

\* For requests that do not overlap, the whole write path, with its aborts, its two loads and
\* its two transactions, implements one atomic change of one row per commit: status only moves
\* forward, ARCHIVED is final and the pointer moves only to the snapshot just created.
THEOREM SerialRefinement ==
  ASSUME MaxInFlight = 1
  PROVE  Spec => ImplementsRecord
<1>1. Init => Record!Init
  BY SameEntity DEF Init, Record!Init
<1>2. /\ TypeInv /\ LockInv /\ OriginInv /\ PointerInv /\ FreshInv /\ AloneInv /\ [Next]_vars
      => [Record!Next]_(Record!vars)
  <2> SUFFICES ASSUME TypeInv, LockInv, OriginInv, PointerInv, FreshInv, AloneInv, [Next]_vars
               PROVE  [Record!Next]_(Record!vars)
    OBVIOUS
  <2>1. ASSUME NEW r \in Requests, Receive(r) \/ Serve(r) \/ Abort(r)
        PROVE  [Record!Next]_(Record!vars)
    BY <2>1, EditRefines, AnalysisRefines, OthersStutter
  <2>2. CASE ActivateConfig \/ UNCHANGED vars
    <3>1. UNCHANGED <<deals, stored, snap>>
      BY <2>2 DEF ActivateConfig, vars, tables, session
    <3> QED BY <3>1 DEF Record!vars
  <2> QED BY <2>1, <2>2 DEF Next, Terminated
<1>3. Spec => []AloneInv
  BY AlwaysAlone
<1> QED
  BY <1>1, <1>2, <1>3, AlwaysFresh, AlwaysOrigin, AlwaysPointer, AlwaysLocked, AlwaysTyped, PTL
  DEF Spec, ImplementsRecord, Record!Spec

=============================================================================
