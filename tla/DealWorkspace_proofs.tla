------------------------ MODULE DealWorkspace_proofs ------------------------
(***************************************************************************)
(* Theorems about DealWorkspace for any deals, users, requests, working    *)
(* inputs and bounds.                                                      *)
(***************************************************************************)
EXTENDS DealWorkspace, TLAPS

-----------------------------------------------------------------------------
(* The methods of the Deal entity                                          *)

\* Each method of the entity takes a Deal to a Deal.
LEMMA EntityTypes ==
  ASSUME NEW deal \in Deal
  PROVE  /\ deal.status \in DealStatus
         /\ deal.inputs \in WorkingInputs
         /\ \A id \in Requests : apply_snapshot_created(deal, id) \in Deal
         /\ CanAdvance(deal) => advance_status(deal) \in Deal
         /\ archive(deal) \in Deal
         /\ \A patch \in WorkingInputs : merge_input_update(deal, patch) \in Deal
<1>1. deal.status \in DealStatus /\ deal.inputs \in WorkingInputs
  BY DEF Deal
<1>2. \A id \in Requests : apply_snapshot_created(deal, id) \in Deal
  BY DEF Deal, DealStatus, apply_snapshot_created
<1>3. CanAdvance(deal) => advance_status(deal) \in Deal
  BY DEF Deal, DealStatus, CanAdvance, advance_status, transitions
<1>4. archive(deal) \in Deal
  BY DEF Deal, DealStatus, archive
<1>5. ASSUME NEW patch \in WorkingInputs PROVE merge_input_update(deal, patch) \in Deal
  BY DEF Deal, WorkingInputs, merge_input_update
<1> QED BY <1>1, <1>2, <1>3, <1>4, <1>5

\* A new deal is a Deal, with or without inputs copied from a profile.
LEMMA NewDealType ==
  /\ NewDeal \in Deal
  /\ NoInputs \in WorkingInputs
  /\ \A deal \in NewDeals : deal \in Deal /\ deal.status = "DRAFT" /\ deal.latest = NoSnapshot
<1>1. NewDeal \in Deal /\ NoInputs \in WorkingInputs
  BY DEF NewDeal, Deal, DealStatus, WorkingInputs, NoInputs
<1>2. ASSUME NEW profile \in WorkingInputs
      PROVE  [f \in Fields |-> IF f \in ProfileFields THEN profile[f] ELSE Unset] \in WorkingInputs
  BY DEF WorkingInputs
<1>3. ASSUME NEW inputs \in WorkingInputs
      PROVE  /\ [NewDeal EXCEPT !.inputs = inputs] \in Deal
             /\ [NewDeal EXCEPT !.inputs = inputs].status = "DRAFT"
             /\ [NewDeal EXCEPT !.inputs = inputs].latest = NoSnapshot
  BY DEF NewDeal, Deal, DealStatus
<1> QED BY <1>1, <1>2, <1>3 DEF NewDeals

-----------------------------------------------------------------------------
(* Types                                                                   *)

\* What the type of a request's memory depends on: where the request is.
RequestWellFormed(r) ==
  /\ pc[r] \notin {"new", "done"} => call[r] \in Call
  /\ r \in stored => snap[r] \in Snapshot /\ pc[r] \in {"summary", "supersede", "deal_status", "done"}
  /\ pc[r] = "reload" => call[r].op = "recalculate"
  /\ pc[r] = "engine" /\ call[r].op = "reproduce" => snap[r] \in Snapshot
  /\ pc[r] \in {"persist", "commit"} /\ call[r].op \notin Edits => snap[r] \in Snapshot
  /\ pc[r] = "supersede" => prev[r] \in Requests

TypeInv == TypeOK /\ \A r \in Requests : RequestWellFormed(r)

\* The answer ends the session: its memory is blank but for a stored snapshot.
LEMMA AnswerType ==
  ASSUME TypeInv, NEW r \in Requests,
         NEW result \in Results, NEW status \in DealStatus \cup {NoStatus},
         Answer(r, result, status), stored' = stored
  PROVE  RequestsOK' /\ \A q \in Requests : RequestWellFormed(q)'
<1>1. RequestsOK'
  BY NewDealType DEF TypeInv, TypeOK, RequestsOK, Answer, Goto, Steps
<1>2. ASSUME NEW q \in Requests PROVE RequestWellFormed(q)'
  BY <1>2 DEF TypeInv, TypeOK, RequestsOK, RequestWellFormed, Answer, Goto
<1> QED BY <1>1, <1>2

\* The first await of an edit leaves everything typed.
LEMMA BeginEditType ==
  ASSUME TypeInv, NEW r \in Requests, NEW op \in Edits, NEW d \in Deals, NEW u \in Users,
         NEW patch \in WorkingInputs, NEW deal \in Deal, BeginEdit(r, op, d, u, patch, deal)
  PROVE  TypeInv'
<1>1. TablesOK' /\ RequestsOK'
  BY DEF TypeInv, TypeOK, TablesOK, RequestsOK, BeginEdit, Asked, Hold, Goto, tables, Steps,
         Call, Ops
<1>2. ASSUME NEW q \in Requests PROVE RequestWellFormed(q)'
  BY DEF TypeInv, TypeOK, TablesOK, RequestsOK, RequestWellFormed, BeginEdit, CanStart, Asked, Hold, Goto,
         tables, Call, Ops
<1> QED BY <1>1, <1>2 DEF TypeInv, TypeOK

\* The first await of any handler leaves everything typed.
LEMMA ReceiveType ==
  ASSUME TypeInv, NEW r \in Requests, Receive(r)
  PROVE  TypeInv'
<1> USE DEF TypeInv, TypeOK
<1>1. CASE Refuse(r)
  <2>1. TablesOK' /\ stored' = stored
    BY <1>1 DEF Refuse, TablesOK, tables
  <2>2. Answer(r, "not_found", NoStatus) \/ Answer(r, "domain_error", NoStatus)
    BY <1>1 DEF Refuse
  <2> QED BY <2>1, <2>2, AnswerType DEF Results
<1>2. ASSUME NEW u \in Users, NEW d \in Deals,
             NEW patch \in WorkingInputs, update_working_inputs(r, d, u, patch)
      PROVE TypeInv'
  <2>1. deals[d] \in Deal BY DEF TablesOK
  <2> QED BY <1>2, <2>1, EntityTypes, BeginEditType DEF update_working_inputs, Edits
<1>3. ASSUME NEW u \in Users, NEW d \in Deals, advance_deal_status(r, d, u) PROVE TypeInv'
  <2>1. deals[d] \in Deal BY DEF TablesOK
  <2> QED BY <1>3, <2>1, EntityTypes, NewDealType, BeginEditType DEF advance_deal_status, Edits
<1>4. ASSUME NEW u \in Users, NEW d \in Deals, archive_deal(r, d, u) PROVE TypeInv'
  <2>1. deals[d] \in Deal BY DEF TablesOK
  <2> QED BY <1>4, <2>1, EntityTypes, NewDealType, BeginEditType DEF archive_deal, Edits
<1>5. ASSUME NEW u \in Users, NEW d \in Deals,
             NEW body \in WorkingInputs, run_calculation(r, d, u, body)
      PROVE TypeInv'
  <2>1. TablesOK' /\ RequestsOK'
    BY <1>5 DEF run_calculation, TablesOK, RequestsOK, Asked, Hold, Goto, tables, Steps, Call, Ops, Analyses
  <2>2. ASSUME NEW q \in Requests PROVE RequestWellFormed(q)'
    BY <1>5 DEF run_calculation, RequestsOK, RequestWellFormed, CanStart, Asked, Hold, Goto, tables,
       Call, Ops, Analyses
  <2> QED BY <2>1, <2>2
<1>6. ASSUME NEW u \in Users, NEW d \in Deals, recalculate(r, d, u) PROVE TypeInv'
  <2>1. deals[d].inputs \in WorkingInputs /\ deals[d].latest \in Requests \cup {NoSnapshot}
    BY DEF TablesOK, Deal
  <2>2. TablesOK' /\ RequestsOK'
    BY <1>6, <2>1 DEF recalculate, TablesOK, RequestsOK, Asked, Goto, tables, Steps, Call, Ops, Analyses
  <2>3. ASSUME NEW q \in Requests PROVE RequestWellFormed(q)'
    BY <1>6, <2>1 DEF recalculate, RequestsOK, RequestWellFormed, CanStart, Asked, Goto, tables,
       Call, Ops, Analyses
  <2> QED BY <2>2, <2>3
<1>7. ASSUME NEW u \in Users, NEW s \in Requests, reproduce_original(r, u, s) PROVE TypeInv'
  <2>1. snap[s] \in Snapshot BY <1>7 DEF reproduce_original, RequestWellFormed
  <2>2. /\ snap[s].deal \in Deals
        /\ snap[s].inputs \in WorkingInputs
        /\ snap[s].config \in 1..MaxConfig
    BY <2>1 DEF Snapshot
  <2>3. /\ [op |-> "reproduce", deal |-> snap[s].deal, user |-> u, inputs |-> snap[s].inputs,
            source |-> s] \in Call
        /\ [deal |-> snap[s].deal, user |-> u, inputs |-> snap[s].inputs,
            config |-> snap[s].config, at |-> clock, source |-> s] \in Snapshot
    BY <2>2 DEF Call, Ops, Snapshot, TablesOK
  <2>4. TablesOK' /\ RequestsOK'
    BY <1>7, <2>3 DEF reproduce_original, TablesOK, RequestsOK, Asked, Goto, tables, Steps
  <2>5. ASSUME NEW q \in Requests PROVE RequestWellFormed(q)'
    BY <1>7, <2>3 DEF reproduce_original, RequestsOK, RequestWellFormed, CanStart, Asked, Goto, tables
  <2> QED BY <2>4, <2>5
<1> QED BY <1>1, <1>2, <1>3, <1>4, <1>5, <1>6, <1>7 DEF Receive

\* Every later step of a handler leaves everything typed.
LEMMA ServeType ==
  ASSUME TypeInv, NEW r \in Requests, Serve(r)
  PROVE  TypeInv'
<1> USE DEF TypeInv, TypeOK
<1>1. CASE ReloadDeal(r)
  <2>1. call[r] \in Call /\ call[r].deal \in Deals
    BY <1>1 DEF ReloadDeal, RequestWellFormed, Call
  <2>2. TablesOK' /\ RequestsOK'
    BY <1>1, <2>1 DEF ReloadDeal, TablesOK, RequestsOK, Hold, Goto, tables, Steps
  <2>3. ASSUME NEW q \in Requests PROVE RequestWellFormed(q)'
    BY <1>1, <2>1 DEF ReloadDeal, RequestsOK, RequestWellFormed, Hold, Goto, tables, Edits
  <2> QED BY <2>2, <2>3
<1>2. CASE ReloadArchived(r)
  <2>1. TablesOK' /\ stored' = stored BY <1>2 DEF ReloadArchived, TablesOK, tables
  <2> QED BY <1>2, <2>1, AnswerType DEF ReloadArchived, Results
<1>3. CASE RunEngine(r)
  <2>1. call[r] \in Call BY <1>3 DEF RunEngine, RequestWellFormed
  <2>2. TablesOK' /\ RequestsOK'
    BY <1>3, <2>1 DEF RunEngine, TablesOK, RequestsOK, Goto, tables, Steps, Call, Snapshot
  <2>3. ASSUME NEW q \in Requests PROVE RequestWellFormed(q)'
    BY <1>3, <2>1, <2>2 DEF RunEngine, TablesOK, RequestsOK, RequestWellFormed, Goto, tables,
       Call, Snapshot, Ops, Analyses, Edits
  <2> QED BY <2>2, <2>3
<1>4. CASE WriteFailure(r)
  <2>1. call[r] \in Call BY <1>4 DEF WriteFailure, RequestWellFormed
  <2>2. audits' \subseteq AuditEvent
    BY <1>4, <2>1 DEF WriteFailure, Audited, AuditEvent, Outcomes, Call, TablesOK
  <2>3. TablesOK' /\ stored' = stored BY <1>4, <2>2 DEF WriteFailure, TablesOK
  <2>4. Answer(r, "validation_failure", NoStatus) \/ Answer(r, "calculation_error", NoStatus)
    BY <1>4 DEF WriteFailure
  <2> QED BY <2>3, <2>4, AnswerType DEF Results
<1>5. CASE WriteDeal(r)
  <2>1. call[r].deal \in Deals /\ row[r] \in Deal
    BY <1>5 DEF WriteDeal, RequestWellFormed, Call, RequestsOK
  <2>2. apply_snapshot_created(row[r], r) \in Deal BY <2>1, EntityTypes
  <2>3. TablesOK' /\ RequestsOK'
    BY <1>5, <2>1, <2>2 DEF WriteDeal, TablesOK, RequestsOK, Goto, tables, Steps
  <2>4. ASSUME NEW q \in Requests PROVE RequestWellFormed(q)'
    BY <1>5 DEF WriteDeal, RequestsOK, RequestWellFormed, Goto, tables
  <2> QED BY <2>3, <2>4
<1>6. CASE InsertReproduction(r)
  <2>1. TablesOK' /\ RequestsOK'
    BY <1>6 DEF InsertReproduction, TablesOK, RequestsOK, Goto, tables, session, Steps
  <2>2. ASSUME NEW q \in Requests PROVE RequestWellFormed(q)'
    BY <1>6 DEF InsertReproduction, RequestsOK, RequestWellFormed, Goto, tables, session
  <2> QED BY <2>1, <2>2
<1>7. CASE CommitEdit(r)
  <2>1. /\ row[r] \in Deal
        /\ row[r].status \in DealStatus
        /\ call[r].deal \in Deals
    BY <1>7, EntityTypes DEF CommitEdit, RequestsOK, RequestWellFormed, Call
  <2>2. TablesOK' /\ stored' = stored
    BY <1>7, <2>1 DEF CommitEdit, PublishDeal, ReleasedBy, TablesOK
  <2> QED BY <1>7, <2>1, <2>2, AnswerType DEF CommitEdit, Results
<1>8. CASE CommitAnalysis(r)
  <2>1. call[r].deal \in Deals BY <1>8 DEF CommitAnalysis, RequestWellFormed, Call
  <2>2. TablesOK' /\ RequestsOK'
    BY <1>8, <2>1 DEF CommitAnalysis, PublishDeal, ReleasedBy, Audited, AuditEvent, Outcomes,
       TablesOK, RequestsOK, session, Goto, Steps
  <2>3. ASSUME NEW q \in Requests PROVE RequestWellFormed(q)'
    BY <1>8 DEF CommitAnalysis, RequestsOK, RequestWellFormed, Goto, session, Analyses, Edits
  <2> QED BY <2>2, <2>3
<1>9. CASE CommitReproduction(r)
  <2>1. call[r].deal \in Deals BY <1>9 DEF CommitReproduction, RequestWellFormed, Call
  <2>2. TablesOK' /\ RequestsOK'
    BY <1>9, <2>1 DEF CommitReproduction, Audited, AuditEvent, Outcomes,
       TablesOK, RequestsOK, session, Goto, Steps
  <2>3. ASSUME NEW q \in Requests PROVE RequestWellFormed(q)'
    BY <1>9 DEF CommitReproduction, RequestsOK, RequestWellFormed, Goto, session, Edits
  <2> QED BY <2>2, <2>3
<1>10. CASE LoadSummary(r)
  <2>1. TablesOK' /\ stored' = stored BY <1>10 DEF LoadSummary, TablesOK, tables
  <2> QED BY <1>10, <2>1, AnswerType DEF LoadSummary, Results, DealStatus
<1>11. CASE LoadSummaryThenSupersede(r)
  <2>1. TablesOK' /\ RequestsOK'
    BY <1>11 DEF LoadSummaryThenSupersede, TablesOK, RequestsOK, Goto, tables, session, Steps
  <2>2. ASSUME NEW q \in Requests PROVE RequestWellFormed(q)'
    BY <1>11 DEF LoadSummaryThenSupersede, RequestsOK, RequestWellFormed, Goto, tables, session
  <2> QED BY <2>1, <2>2
<1>12. CASE MarkSuperseded(r)
  <2>1. TablesOK' /\ stored' = stored
    BY <1>12 DEF MarkSuperseded, TablesOK, RequestWellFormed
  <2> QED BY <1>12, <2>1, AnswerType DEF MarkSuperseded, Results, DealStatus
<1>13. CASE ReportReproduction(r)
  <2>1. call[r].deal \in Deals BY <1>13 DEF ReportReproduction, RequestWellFormed, Call
  <2>2. deals[call[r].deal].status \in DealStatus BY <2>1, EntityTypes DEF TablesOK
  <2>3. TablesOK' /\ stored' = stored BY <1>13 DEF ReportReproduction, TablesOK, tables
  <2> QED BY <1>13, <2>2, <2>3, AnswerType DEF ReportReproduction, Results
<1> QED
  BY <1>1, <1>2, <1>3, <1>4, <1>5, <1>6, <1>7, <1>8, <1>9, <1>10, <1>11, <1>12, <1>13 DEF Serve

\* The strengthened type invariant is inductive.
LEMMA StepType == TypeInv /\ [Next]_vars => TypeInv'
<1> SUFFICES ASSUME TypeInv, [Next]_vars PROVE TypeInv'
  OBVIOUS
<1>1. ASSUME NEW r \in Requests, Receive(r) PROVE TypeInv'
  BY <1>1, ReceiveType
<1>2. ASSUME NEW r \in Requests, Serve(r) PROVE TypeInv'
  BY <1>2, ServeType
<1>3. ASSUME NEW r \in Requests, Abort(r) PROVE TypeInv'
  <2>1. TablesOK' /\ stored' = stored
    BY <1>3 DEF Abort, ReleasedBy, TypeInv, TypeOK, TablesOK, tables
  <2> QED BY <1>3, <2>1, AnswerType DEF Abort, Results, TypeInv, TypeOK
<1>4. CASE ActivateConfig
  BY <1>4, WorkspaceAssumption DEF ActivateConfig, TypeInv, TypeOK, TablesOK, RequestsOK,
     RequestWellFormed, session
<1>5. CASE UNCHANGED vars
  BY <1>5 DEF vars, tables, session, TypeInv, TypeOK, TablesOK, RequestsOK, RequestWellFormed
<1> QED BY <1>1, <1>2, <1>3, <1>4, <1>5 DEF Next, Terminated

\* It holds in the tables and sessions the backend starts with.
LEMMA InitType == Init => TypeInv
<1> SUFFICES ASSUME Init PROVE TypeInv
  OBVIOUS
<1>1. TablesOK
  BY WorkspaceAssumption, NewDealType DEF Init, TablesOK
<1>2. RequestsOK
  BY NewDealType DEF Init, RequestsOK, Steps
<1>3. ASSUME NEW r \in Requests PROVE RequestWellFormed(r)
  BY DEF Init, RequestWellFormed
<1> QED BY <1>1, <1>2, <1>3 DEF TypeInv, TypeOK

\* So it holds in every reachable state, whatever the constants.
LEMMA AlwaysTyped == Spec => []TypeInv
BY InitType, StepType, PTL DEF Spec

\* Every reachable state is well typed: in particular no request reads the deal or the
\* snapshot of a call it has not been given.
THEOREM TypeCorrect == Spec => []TypeOK
<1>1. TypeInv => TypeOK BY DEF TypeInv
<1> QED BY <1>1, AlwaysTyped, PTL

-----------------------------------------------------------------------------
(* Status and pointer agree                                                *)

\* The methods of the entity keep status and pointer in step.
LEMMA EntityCoherent ==
  ASSUME NEW deal \in Deal, Coherent(deal)
  PROVE  /\ \A id \in Requests : Coherent(apply_snapshot_created(deal, id))
         /\ CanAdvance(deal) => Coherent(advance_status(deal))
         /\ Coherent(archive(deal))
         /\ \A patch \in WorkingInputs : Coherent(merge_input_update(deal, patch))
         /\ Coherent(NewDeal)
<1>1. \A id \in Requests : Coherent(apply_snapshot_created(deal, id))
  BY WorkspaceAssumption DEF Coherent, Deal, DealStatus, apply_snapshot_created
<1>2. CanAdvance(deal) => Coherent(advance_status(deal))
  BY DEF Coherent, Deal, DealStatus, CanAdvance, advance_status, transitions
<1>3. Coherent(archive(deal))
  BY DEF Coherent, Deal, archive
<1>4. \A patch \in WorkingInputs : Coherent(merge_input_update(deal, patch))
  BY DEF Coherent, Deal, merge_input_update
<1>5. Coherent(NewDeal)
  BY DEF Coherent, NewDeal
<1> QED BY <1>1, <1>2, <1>3, <1>4, <1>5

\* The copies that requests hold are as coherent as the rows they will replace.
CoherentInv == StatusMatchesPointer /\ \A r \in Requests : Coherent(row[r])

\* No step breaks the agreement of status and pointer, in a row or in a request's copy of it.
LEMMA StepCoherent == TypeInv /\ CoherentInv /\ [Next]_vars => CoherentInv'
<1> SUFFICES ASSUME TypeInv, CoherentInv, [Next]_vars PROVE CoherentInv'
  OBVIOUS
<1> DEFINE Held(r, deal) == row' = [row EXCEPT ![r] = deal]
<1>1. /\ \A d \in Deals : deals[d] \in Deal /\ Coherent(deals[d])
      /\ \A r \in Requests : row[r] \in Deal /\ Coherent(row[r])
      /\ row \in [Requests -> Deal]
      /\ deals \in [Deals -> Deal]
  BY DEF TypeInv, TypeOK, TablesOK, RequestsOK, CoherentInv, StatusMatchesPointer
<1>2. ASSUME NEW r \in Requests, NEW deal \in Deal, Coherent(deal), Held(r, deal), deals' = deals
      PROVE  CoherentInv'
  BY <1>1, <1>2 DEF CoherentInv, StatusMatchesPointer
<1>3. CASE UNCHANGED <<deals, row>>
  BY <1>3 DEF CoherentInv, StatusMatchesPointer, Coherent
<1>4. ASSUME NEW r \in Requests, NEW result, NEW status, Answer(r, result, status), deals' = deals
      PROVE  CoherentInv'
  <2>1. Held(r, NewDeal) BY <1>4 DEF Answer
  <2>2. Coherent(NewDeal) BY DEF Coherent, NewDeal
  <2> QED BY <1>2, <1>4, <2>1, <2>2, NewDealType
<1>5. ASSUME NEW r \in Requests, Receive(r) PROVE CoherentInv'
  <2>1. CASE Refuse(r)
    BY <1>4, <2>1 DEF Refuse, tables
  <2>2. ASSUME NEW u \in Users, NEW d \in Deals, NEW patch \in WorkingInputs,
               update_working_inputs(r, d, u, patch)
        PROVE CoherentInv'
    <3>1. Held(r, merge_input_update(deals[d], patch)) /\ deals' = deals
      BY <2>2 DEF update_working_inputs, BeginEdit, Hold, tables
    <3>2. /\ merge_input_update(deals[d], patch) \in Deal
          /\ Coherent(merge_input_update(deals[d], patch))
      BY <1>1, EntityTypes, EntityCoherent
    <3> QED BY <3>1, <3>2, <1>2
  <2>3. ASSUME NEW u \in Users, NEW d \in Deals, advance_deal_status(r, d, u) PROVE CoherentInv'
    <3>1. Held(r, advance_status(deals[d])) /\ deals' = deals /\ CanAdvance(deals[d])
      BY <2>3 DEF advance_deal_status, BeginEdit, Hold, tables
    <3> QED BY <3>1, <1>1, <1>2, EntityTypes, EntityCoherent
  <2>4. ASSUME NEW u \in Users, NEW d \in Deals, archive_deal(r, d, u) PROVE CoherentInv'
    <3>1. Held(r, archive(deals[d])) /\ deals' = deals
      BY <2>4 DEF archive_deal, BeginEdit, Hold, tables
    <3> QED BY <3>1, <1>1, <1>2, EntityTypes, EntityCoherent
  <2>5. ASSUME NEW u \in Users, NEW d \in Deals, NEW body \in WorkingInputs,
               run_calculation(r, d, u, body)
        PROVE CoherentInv'
    BY <1>1, <1>2, <2>5 DEF run_calculation, Hold, tables
  <2>6. ASSUME NEW u \in Users, NEW d \in Deals, recalculate(r, d, u) PROVE CoherentInv'
    BY <1>3, <2>6 DEF recalculate, tables
  <2>7. ASSUME NEW u \in Users, NEW s \in Requests, reproduce_original(r, u, s) PROVE CoherentInv'
    BY <1>3, <2>7 DEF reproduce_original, tables
  <2> QED BY <1>5, <2>1, <2>2, <2>3, <2>4, <2>5, <2>6, <2>7 DEF Receive
<1>6. ASSUME NEW r \in Requests, Serve(r) PROVE CoherentInv'
  <2>1. CASE ReloadDeal(r)
    <3>1. call[r].deal \in Deals BY <2>1 DEF TypeInv, RequestWellFormed, ReloadDeal, Call
    <3> QED BY <1>1, <1>2, <2>1, <3>1 DEF ReloadDeal, Hold, tables
  <2>2. CASE ReloadArchived(r) \/ LoadSummary(r) \/ ReportReproduction(r)
    BY <1>4, <2>2 DEF ReloadArchived, LoadSummary, ReportReproduction, tables
  <2>3. CASE WriteFailure(r) \/ MarkSuperseded(r)
    BY <1>4, <2>3 DEF WriteFailure, MarkSuperseded
  <2>4. CASE \/ RunEngine(r) \/ InsertReproduction(r) \/ CommitReproduction(r)
             \/ LoadSummaryThenSupersede(r)
    BY <1>3, <2>4 DEF RunEngine, InsertReproduction, CommitReproduction, LoadSummaryThenSupersede,
       tables, session
  <2>5. CASE WriteDeal(r)
    <3>1. Held(r, IF call[r].op \in Analyses THEN apply_snapshot_created(row[r], r) ELSE row[r])
          /\ deals' = deals
      BY <2>5 DEF WriteDeal, tables
    <3>2. /\ apply_snapshot_created(row[r], r) \in Deal
          /\ Coherent(apply_snapshot_created(row[r], r))
      BY <1>1, EntityTypes, EntityCoherent
    <3> QED BY <1>1, <1>2, <3>1, <3>2
  <2>6. CASE CommitEdit(r) \/ CommitAnalysis(r)
    <3>1. row' = row \/ Held(r, NewDeal)
      BY <2>6 DEF CommitEdit, CommitAnalysis, Answer, session
    <3>2. deals' = [deals EXCEPT ![call[r].deal] = row[r]]
      BY <2>6 DEF CommitEdit, CommitAnalysis, PublishDeal
    <3>3. Coherent(NewDeal) BY DEF Coherent, NewDeal
    <3>4. \A d \in Deals : Coherent(deals'[d])
      BY <1>1, <3>2
    <3> QED BY <1>1, <3>1, <3>3, <3>4 DEF CoherentInv, StatusMatchesPointer
  <2> QED BY <1>6, <2>1, <2>2, <2>3, <2>4, <2>5, <2>6 DEF Serve
<1>7. ASSUME NEW r \in Requests, Abort(r) PROVE CoherentInv'
  BY <1>4, <1>7 DEF Abort, tables
<1>8. CASE ActivateConfig \/ UNCHANGED vars
  BY <1>3, <1>8 DEF ActivateConfig, vars, tables, session
<1> QED BY <1>5, <1>6, <1>7, <1>8 DEF Next, Terminated

\* Rows and in-memory copies are coherent in every reachable state.
LEMMA AlwaysCoherent == Spec => []CoherentInv
<1>1. Init => CoherentInv
  BY NewDealType DEF Init, CoherentInv, StatusMatchesPointer, Coherent, NewDeal
<1> QED BY <1>1, StepCoherent, AlwaysTyped, PTL DEF Spec

\* However requests overlap and overwrite each other, a committed deal is in DRAFT only without
\* a snapshot and in a pipeline stage only with one.
THEOREM StatusFollowsPointer == Spec => []StatusMatchesPointer
<1>1. CoherentInv => StatusMatchesPointer BY DEF CoherentInv
<1> QED BY <1>1, AlwaysCoherent, PTL

-----------------------------------------------------------------------------
(* What a step leaves alone                                                *)

\* A request's step changes no other request's memory.
LEMMA OthersUntouched ==
  ASSUME TypeInv, NEW r \in Requests, Receive(r) \/ Serve(r) \/ Abort(r),
         NEW q \in Requests, q # r
  PROVE  /\ pc'[q] = pc[q] /\ call'[q] = call[q] /\ row'[q] = row[q]
         /\ prev'[q] = prev[q] /\ snap'[q] = snap[q] /\ seen'[q] = seen[q]
<1> USE DEF TypeInv, TypeOK, RequestsOK, Goto, session
<1>1. CASE Receive(r)
  <2>1. CASE Refuse(r)
    BY <2>1 DEF Refuse, Answer
  <2>2. ASSUME NEW u \in Users, NEW d \in Deals, NEW op, NEW patch, NEW deal,
               BeginEdit(r, op, d, u, patch, deal)
        PROVE /\ pc'[q] = pc[q] /\ call'[q] = call[q] /\ row'[q] = row[q]
              /\ prev'[q] = prev[q] /\ snap'[q] = snap[q] /\ seen'[q] = seen[q]
    BY <2>2 DEF BeginEdit, Asked, Hold
  <2>3. ASSUME NEW u \in Users, NEW d \in Deals, NEW body \in WorkingInputs,
               run_calculation(r, d, u, body)
        PROVE /\ pc'[q] = pc[q] /\ call'[q] = call[q] /\ row'[q] = row[q]
              /\ prev'[q] = prev[q] /\ snap'[q] = snap[q] /\ seen'[q] = seen[q]
    BY <2>3 DEF run_calculation, Asked, Hold
  <2>4. ASSUME NEW u \in Users, NEW d \in Deals, recalculate(r, d, u)
        PROVE /\ pc'[q] = pc[q] /\ call'[q] = call[q] /\ row'[q] = row[q]
              /\ prev'[q] = prev[q] /\ snap'[q] = snap[q] /\ seen'[q] = seen[q]
    BY <2>4 DEF recalculate, Asked
  <2>5. ASSUME NEW u \in Users, NEW s \in Requests, reproduce_original(r, u, s)
        PROVE /\ pc'[q] = pc[q] /\ call'[q] = call[q] /\ row'[q] = row[q]
              /\ prev'[q] = prev[q] /\ snap'[q] = snap[q] /\ seen'[q] = seen[q]
    BY <2>5 DEF reproduce_original, Asked
  <2> QED
    BY <1>1, <2>1, <2>2, <2>3, <2>4, <2>5
    DEF Receive, update_working_inputs, advance_deal_status, archive_deal
<1>2. CASE ReloadDeal(r) \/ RunEngine(r) \/ WriteDeal(r)
  BY <1>2 DEF ReloadDeal, RunEngine, WriteDeal, Hold
<1>3. CASE \/ ReloadArchived(r) \/ WriteFailure(r) \/ CommitEdit(r) \/ LoadSummary(r)
           \/ MarkSuperseded(r) \/ ReportReproduction(r) \/ Abort(r)
  BY <1>3 DEF ReloadArchived, WriteFailure, CommitEdit, LoadSummary, MarkSuperseded,
     ReportReproduction, Abort, Answer
<1>4. CASE \/ InsertReproduction(r) \/ CommitAnalysis(r) \/ CommitReproduction(r)
           \/ LoadSummaryThenSupersede(r)
  BY <1>4 DEF InsertReproduction, CommitAnalysis, CommitReproduction, LoadSummaryThenSupersede
<1> QED BY <1>1, <1>2, <1>3, <1>4 DEF Serve

\* A request that has stored its snapshot never rebuilds it, and no step deletes a snapshot.
LEMMA SnapshotsKept ==
  ASSUME TypeInv, [Next]_vars
  PROVE  /\ stored \subseteq stored'
         /\ \A s \in stored : snap'[s] = snap[s]
         /\ \A d \in Deals : StoredAnalyses(d) \subseteq StoredAnalyses(d)'
<1>1. ASSUME NEW r \in Requests, Receive(r) \/ Serve(r) \/ Abort(r)
      PROVE  stored \subseteq stored' /\ \A s \in stored : snap'[s] = snap[s]
  <2>1. stored \subseteq stored'
    BY <1>1 DEF Receive, Refuse, update_working_inputs, advance_deal_status, archive_deal, BeginEdit,
       run_calculation, recalculate, reproduce_original, Serve, ReloadDeal, ReloadArchived, RunEngine,
       WriteFailure, WriteDeal, InsertReproduction, CommitEdit, CommitAnalysis, CommitReproduction,
       LoadSummary, LoadSummaryThenSupersede, MarkSuperseded, ReportReproduction, Abort, tables
  <2>2. ASSUME r \in stored PROVE snap'[r] = snap[r]
    <3>1. pc[r] \in {"summary", "supersede", "deal_status", "done"}
      BY <2>2 DEF TypeInv, RequestWellFormed
    <3>2. /\ ~ CanStart(r) /\ ~ ReloadDeal(r) /\ ~ ReloadArchived(r) /\ ~ RunEngine(r)
          /\ ~ WriteFailure(r) /\ ~ WriteDeal(r) /\ ~ InsertReproduction(r) /\ ~ CommitEdit(r)
          /\ ~ CommitAnalysis(r) /\ ~ CommitReproduction(r)
      BY <3>1 DEF CanStart, ReloadDeal, ReloadArchived, RunEngine, WriteFailure, WriteDeal,
         InsertReproduction, CommitEdit, CommitAnalysis, CommitReproduction
    <3>3. ~ Receive(r)
      BY <3>2 DEF Receive, Refuse, update_working_inputs, advance_deal_status, archive_deal,
         BeginEdit, run_calculation, recalculate, reproduce_original
    <3>4. CASE LoadSummaryThenSupersede(r)
      BY <3>4 DEF LoadSummaryThenSupersede, session
    <3>5. CASE LoadSummary(r) \/ MarkSuperseded(r) \/ ReportReproduction(r) \/ Abort(r)
      BY <3>5, <2>2 DEF LoadSummary, MarkSuperseded, ReportReproduction, Abort, Answer,
         TypeInv, TypeOK, RequestsOK
    <3> QED BY <1>1, <3>2, <3>3, <3>4, <3>5 DEF Serve
  <2>3. stored \subseteq Requests BY DEF TypeInv, TypeOK, TablesOK
  <2> QED BY <1>1, <2>1, <2>2, <2>3, OthersUntouched
<1>2. ASSUME ActivateConfig \/ UNCHANGED vars
      PROVE  stored \subseteq stored' /\ \A s \in stored : snap'[s] = snap[s]
  BY <1>2 DEF ActivateConfig, vars, tables, session
<1>3. stored \subseteq stored' /\ \A s \in stored : snap'[s] = snap[s]
  BY <1>1, <1>2 DEF Next, Terminated
<1> QED BY <1>3 DEF StoredAnalyses

-----------------------------------------------------------------------------
(* The pointer's target                                                    *)

\* A copy of a row points where a row may, and at its commit an analysis points to its own
\* snapshot, which by then describes the deal it was asked for.
PointerOf(r) ==
  /\ pc[r] = "new" => row[r].latest = NoSnapshot
  /\ pc[r] \notin {"new", "done"} /\ ~ (pc[r] = "commit" /\ call[r].op \in Analyses) =>
       row[r].latest \in StoredAnalyses(call[r].deal) \cup {NoSnapshot}
  /\ pc[r] = "commit" /\ call[r].op \in Analyses => row[r].latest = r
  /\ pc[r] \in {"persist", "commit"} /\ call[r].op \in Analyses =>
       snap[r].deal = call[r].deal /\ snap[r].source = NoSnapshot

PointerInv == PointerIsOwnAnalysis /\ \A r \in Requests : PointerOf(r)

\* The entity methods that leave the pointer alone.
LEMMA EntityPointer ==
  ASSUME NEW deal \in Deal
  PROVE  /\ advance_status(deal).latest = deal.latest
         /\ archive(deal).latest = deal.latest
         /\ \A patch : merge_input_update(deal, patch).latest = deal.latest
         /\ \A id : apply_snapshot_created(deal, id).latest = id
BY DEF Deal, advance_status, archive, merge_input_update, apply_snapshot_created

\* No step makes a row, or a copy of one, point to anything but a committed analysis of its deal.
LEMMA StepPointer == TypeInv /\ PointerInv /\ [Next]_vars => PointerInv'
<1> SUFFICES ASSUME TypeInv, PointerInv, [Next]_vars PROVE PointerInv'
  OBVIOUS
<1>1. /\ deals \in [Deals -> Deal] /\ row \in [Requests -> Deal]
      /\ call \in [Requests -> Call \cup {NoRequest}]
      /\ pc \in [Requests -> Steps]
      /\ snap \in [Requests -> Snapshot \cup {NoSnapshot}]
      /\ stored \subseteq Requests
  BY DEF TypeInv, TypeOK, TablesOK, RequestsOK
<1>2. \A d \in Deals : StoredAnalyses(d) \subseteq StoredAnalyses(d)'
  BY SnapshotsKept
<1>3. \A d \in Deals : deals[d].latest \in StoredAnalyses(d) \cup {NoSnapshot}
  BY DEF PointerInv, PointerIsOwnAnalysis
<1>4. ASSUME deals' = deals PROVE PointerIsOwnAnalysis'
  BY <1>2, <1>3, <1>4 DEF PointerIsOwnAnalysis
<1>5. ASSUME NEW r \in Requests, Receive(r) \/ Serve(r) \/ Abort(r),
             NEW q \in Requests, q # r
      PROVE  PointerOf(q)'
  <2>1. /\ pc'[q] = pc[q] /\ call'[q] = call[q] /\ row'[q] = row[q] /\ snap'[q] = snap[q]
    BY <1>5, OthersUntouched
  <2>2. pc[q] \notin {"new", "done"} => call[q].deal \in Deals
    BY DEF TypeInv, RequestWellFormed, Call
  <2>3. PointerOf(q) BY DEF PointerInv
  <2> QED BY <1>2, <2>1, <2>2, <2>3 DEF PointerOf
<1>6. ASSUME NEW r \in Requests, NEW result, NEW status, Answer(r, result, status)
      PROVE  PointerOf(r)'
  BY <1>1, <1>6 DEF Answer, Goto, PointerOf
<1>7. ASSUME NEW r \in Requests, Receive(r) PROVE deals' = deals /\ PointerOf(r)'
  <2>1. CASE Refuse(r)
    BY <1>6, <2>1 DEF Refuse, tables
  <2>2. ASSUME NEW u \in Users, NEW d \in Deals, NEW op \in Edits, NEW patch, NEW deal \in Deal,
               deal.latest = deals[d].latest, BeginEdit(r, op, d, u, patch, deal)
        PROVE  deals' = deals /\ PointerOf(r)'
    <3>1. /\ pc'[r] = "persist" /\ call'[r].op = op /\ call'[r].deal = d
          /\ row'[r].latest = deals[d].latest /\ deals' = deals
      BY <1>1, <2>2 DEF BeginEdit, Asked, Hold, Goto, tables
    <3> QED BY <1>2, <1>3, <3>1 DEF PointerOf, Edits, Analyses
  <2>3. ASSUME NEW u \in Users, NEW d \in Deals, NEW body \in WorkingInputs,
               run_calculation(r, d, u, body)
        PROVE  deals' = deals /\ PointerOf(r)'
    <3>1. /\ pc'[r] = "engine" /\ call'[r].deal = d /\ row'[r] = deals[d] /\ deals' = deals
      BY <1>1, <2>3 DEF run_calculation, Asked, Hold, Goto, tables
    <3> QED BY <1>2, <1>3, <3>1 DEF PointerOf
  <2>4. ASSUME NEW u \in Users, NEW d \in Deals, recalculate(r, d, u)
        PROVE  deals' = deals /\ PointerOf(r)'
    <3>1. /\ pc[r] = "new" /\ pc'[r] = "reload" /\ row' = row /\ deals' = deals
      BY <1>1, <2>4 DEF recalculate, CanStart, Goto, tables
    <3> QED BY <3>1 DEF PointerOf, PointerInv
  <2>5. ASSUME NEW u \in Users, NEW s \in Requests, reproduce_original(r, u, s)
        PROVE  deals' = deals /\ PointerOf(r)'
    <3>1. /\ pc[r] = "new" /\ pc'[r] = "engine" /\ row' = row /\ deals' = deals
      BY <1>1, <2>5 DEF reproduce_original, CanStart, Goto, tables
    <3> QED BY <3>1 DEF PointerOf, PointerInv
  <2>6. ASSUME NEW u \in Users, NEW d \in Deals, NEW patch \in WorkingInputs,
               update_working_inputs(r, d, u, patch)
        PROVE  deals' = deals /\ PointerOf(r)'
    <3>1. /\ merge_input_update(deals[d], patch) \in Deal
          /\ merge_input_update(deals[d], patch).latest = deals[d].latest
      BY <1>1, EntityTypes, EntityPointer
    <3> QED BY <2>2, <2>6, <3>1 DEF update_working_inputs, Edits
  <2>7. ASSUME NEW u \in Users, NEW d \in Deals, advance_deal_status(r, d, u)
        PROVE  deals' = deals /\ PointerOf(r)'
    <3>1. /\ advance_status(deals[d]) \in Deal
          /\ advance_status(deals[d]).latest = deals[d].latest
      BY <1>1, <2>7, EntityTypes, EntityPointer DEF advance_deal_status
    <3> QED BY <2>2, <2>7, <3>1 DEF advance_deal_status, Edits
  <2>8. ASSUME NEW u \in Users, NEW d \in Deals, archive_deal(r, d, u)
        PROVE  deals' = deals /\ PointerOf(r)'
    <3>1. /\ archive(deals[d]) \in Deal
          /\ archive(deals[d]).latest = deals[d].latest
      BY <1>1, EntityTypes, EntityPointer
    <3> QED BY <2>2, <2>8, <3>1 DEF archive_deal, Edits
  <2> QED BY <1>7, <2>1, <2>3, <2>4, <2>5, <2>6, <2>7, <2>8 DEF Receive
<1>8. ASSUME NEW r \in Requests, Serve(r) PROVE PointerIsOwnAnalysis' /\ PointerOf(r)'
  <2>1. PointerOf(r) BY DEF PointerInv
  <2>2. pc[r] \notin {"new", "done"} => call[r] \in Call /\ call[r].deal \in Deals
    BY DEF TypeInv, RequestWellFormed, Call
  <2>3. CASE ReloadDeal(r)
    <3>1. /\ pc'[r] = "engine" /\ call' = call /\ row'[r] = deals[call[r].deal] /\ deals' = deals
          /\ call[r].deal \in Deals
      BY <1>1, <2>2, <2>3 DEF ReloadDeal, Hold, Goto, tables
    <3> QED BY <1>2, <1>3, <1>4, <3>1 DEF PointerOf
  <2>4. CASE ReloadArchived(r) \/ LoadSummary(r) \/ ReportReproduction(r)
    BY <1>4, <1>6, <2>4 DEF ReloadArchived, LoadSummary, ReportReproduction, tables
  <2>5. CASE WriteFailure(r) \/ MarkSuperseded(r)
    BY <1>4, <1>6, <2>5 DEF WriteFailure, MarkSuperseded
  <2>6. CASE RunEngine(r)
    <3>1. /\ pc'[r] \in {"persist", "validation_failure", "engine_error"}
          /\ pc[r] = "engine" /\ call' = call /\ row' = row /\ deals' = deals
      BY <1>1, <2>6 DEF RunEngine, Goto, tables
    <3>2. call[r].op \in Analyses =>
            snap'[r].deal = call[r].deal /\ snap'[r].source = NoSnapshot
      BY <1>1, <2>6 DEF RunEngine, Analyses
    <3> QED BY <1>2, <1>4, <2>1, <2>2, <3>1, <3>2 DEF PointerOf
  <2>7. CASE InsertReproduction(r) \/ CommitReproduction(r) \/ LoadSummaryThenSupersede(r)
    <3>1. /\ pc'[r] \in {"commit", "deal_status", "supersede"}
          /\ pc'[r] = "commit" => call[r].op = "reproduce"
          /\ pc[r] \notin {"new", "done"} /\ ~ (pc[r] = "commit" /\ call[r].op \in Analyses)
          /\ call' = call /\ row' = row /\ deals' = deals
      BY <1>1, <2>7 DEF InsertReproduction, CommitReproduction, LoadSummaryThenSupersede, Goto,
         tables, session, Analyses
    <3> QED BY <1>2, <1>4, <2>1, <2>2, <3>1 DEF PointerOf, Analyses
  <2>8. CASE WriteDeal(r)
    <3>1. /\ pc[r] = "persist" /\ pc'[r] = "commit" /\ call' = call /\ snap' = snap /\ deals' = deals
          /\ row'[r] = IF call[r].op \in Analyses THEN apply_snapshot_created(row[r], r) ELSE row[r]
      BY <1>1, <2>8 DEF WriteDeal, Goto, tables
    <3>2. apply_snapshot_created(row[r], r).latest = r
      BY <1>1, EntityPointer
    <3> QED BY <1>2, <1>4, <2>1, <2>2, <3>1, <3>2 DEF PointerOf
  <2>9. CASE CommitEdit(r)
    <3>1. /\ pc[r] = "commit" /\ call[r].op \notin Analyses
          /\ deals' = [deals EXCEPT ![call[r].deal] = row[r]]
      BY <2>9 DEF CommitEdit, PublishDeal, Edits, Analyses
    <3>. PICK d \in Deals : d = call[r].deal
      BY <2>2, <3>1
    <3>2. row[r].latest \in StoredAnalyses(d)' \cup {NoSnapshot}
      BY <1>2, <2>1, <3>1 DEF PointerOf
    <3>3. PointerIsOwnAnalysis'
      BY <1>1, <1>2, <1>3, <3>1, <3>2 DEF PointerIsOwnAnalysis
    <3> QED BY <1>6, <2>9, <3>3 DEF CommitEdit
  <2>10. CASE CommitAnalysis(r)
    <3>1. /\ pc[r] = "commit" /\ call[r].op \in Analyses /\ pc'[r] = "summary"
          /\ deals' = [deals EXCEPT ![call[r].deal] = row[r]]
          /\ call' = call /\ row' = row /\ snap' = snap /\ stored' = stored \cup {r}
      BY <1>1, <2>10 DEF CommitAnalysis, PublishDeal, session, Goto
    <3>2. row[r].latest = r /\ r \in StoredAnalyses(call[r].deal)'
      BY <2>1, <3>1 DEF PointerOf, StoredAnalyses
    <3>3. PointerIsOwnAnalysis'
      BY <1>1, <1>2, <1>3, <2>2, <3>1, <3>2 DEF PointerIsOwnAnalysis
    <3> QED BY <3>1, <3>2, <3>3 DEF PointerOf
  <2> QED
    BY <1>8, <2>3, <2>4, <2>5, <2>6, <2>7, <2>8, <2>9, <2>10 DEF Serve
<1>9. ASSUME NEW r \in Requests, Abort(r) PROVE deals' = deals /\ PointerOf(r)'
  BY <1>6, <1>9 DEF Abort, tables
<1>10. CASE ActivateConfig \/ UNCHANGED vars
  <2>1. UNCHANGED <<deals, stored, snap, pc, call, row>>
    BY <1>10 DEF ActivateConfig, vars, tables, session
  <2> QED BY <2>1 DEF PointerInv, PointerIsOwnAnalysis, PointerOf, StoredAnalyses
<1> QED BY <1>4, <1>5, <1>7, <1>8, <1>9, <1>10 DEF Next, Terminated, PointerInv

\* Every row and every copy points to a committed analysis of its deal, or nowhere.
LEMMA AlwaysPointer == Spec => []PointerInv
<1>1. Init => PointerInv
  BY NewDealType DEF Init, PointerInv, PointerIsOwnAnalysis, PointerOf, NewDeal
<1> QED BY <1>1, StepPointer, AlwaysTyped, PTL DEF Spec

\* latest_snapshot_id never points to a snapshot that was rolled back, to another deal's or
\* to a reproduction, whatever requests overlap.
THEOREM PointerTarget == Spec => []PointerIsOwnAnalysis
<1>1. PointerInv => PointerIsOwnAnalysis BY DEF PointerInv
<1> QED BY <1>1, AlwaysPointer, PTL

-----------------------------------------------------------------------------
(* Row locks                                                               *)

\* Request r has updated the row of d and not committed.
Writing(r, d) == pc[r] = "commit" /\ call[r].op # "reproduce" /\ call[r].deal = d

\* A row is locked by the request that has updated it, and by nobody else.
LockInv == \A r \in Requests, d \in Deals : lock[d] = r <=> Writing(r, d)

\* A row's lock is held by exactly the request between its UPDATE and its commit.
LEMMA StepLock == TypeInv /\ LockInv /\ [Next]_vars => LockInv'
<1> SUFFICES ASSUME TypeInv, LockInv, [Next]_vars PROVE LockInv'
  OBVIOUS
<1>1. /\ pc \in [Requests -> Steps] /\ call \in [Requests -> Call \cup {NoRequest}]
      /\ lock \in [Deals -> Requests \cup {NoRequest}]
      /\ NoRequest \notin Requests
  BY WorkspaceAssumption DEF TypeInv, TypeOK, TablesOK, RequestsOK
<1>2. ASSUME NEW r \in Requests, Receive(r) \/ Serve(r) \/ Abort(r),
             NEW q \in Requests, q # r, NEW d \in Deals
      PROVE  Writing(q, d)' <=> Writing(q, d)
  BY <1>2, OthersUntouched DEF Writing
<1>3. ASSUME NEW r \in Requests, Receive(r) \/ Serve(r) \/ Abort(r),
             lock' = lock, \A d \in Deals : ~ Writing(r, d) /\ ~ Writing(r, d)'
      PROVE  LockInv'
  BY <1>2, <1>3 DEF LockInv
<1>4. ASSUME NEW r \in Requests, Receive(r) \/ Serve(r) \/ Abort(r),
             lock' = ReleasedBy(r), pc'[r] # "commit"
      PROVE  LockInv'
  <2>1. ASSUME NEW d \in Deals PROVE ~ Writing(r, d)'
    BY <1>4 DEF Writing
  <2>2. ASSUME NEW q \in Requests, NEW d \in Deals PROVE lock'[d] = q <=> q # r /\ lock[d] = q
    BY <1>1, <1>4 DEF ReleasedBy
  <2> QED BY <1>2, <1>4, <2>1, <2>2 DEF LockInv
<1>5. ASSUME NEW r \in Requests, Receive(r) PROVE LockInv'
  <2>1. lock' = lock /\ pc[r] = "new" /\ pc'[r] # "commit"
    BY <1>1, <1>5 DEF Receive, Refuse, update_working_inputs, advance_deal_status, archive_deal,
       BeginEdit, run_calculation, recalculate, reproduce_original, CanStart, Answer, Goto
  <2> QED BY <1>3, <1>5, <2>1 DEF Writing
<1>6. ASSUME NEW r \in Requests, Serve(r) PROVE LockInv'
  <2>1. CASE \/ ReloadDeal(r) \/ ReloadArchived(r) \/ RunEngine(r) \/ WriteFailure(r)
             \/ LoadSummary(r) \/ LoadSummaryThenSupersede(r) \/ MarkSuperseded(r)
             \/ ReportReproduction(r)
    <3>1. lock' = lock /\ pc[r] # "commit" /\ pc'[r] # "commit"
      BY <1>1, <2>1 DEF ReloadDeal, ReloadArchived, RunEngine, WriteFailure, LoadSummary,
         LoadSummaryThenSupersede, MarkSuperseded, ReportReproduction, Answer, Goto
    <3> QED BY <1>3, <1>6, <3>1 DEF Writing
  <2>2. CASE InsertReproduction(r) \/ CommitReproduction(r)
    <3>1. lock' = lock /\ call' = call /\ call[r].op = "reproduce"
      BY <2>2 DEF InsertReproduction, CommitReproduction, session
    <3> QED BY <1>3, <1>6, <3>1 DEF Writing
  <2>3. CASE WriteDeal(r)
    <3>. PICK e \in Deals : e = call[r].deal
      BY <2>3 DEF WriteDeal, TypeInv, RequestWellFormed, Call
    <3>1. /\ pc[r] = "persist" /\ pc'[r] = "commit" /\ call' = call /\ call[r].op # "reproduce"
          /\ lock[e] = NoRequest /\ lock' = [lock EXCEPT ![e] = r]
      BY <1>1, <2>3 DEF WriteDeal, Goto
    <3>2. ASSUME NEW d \in Deals PROVE lock'[d] = r <=> Writing(r, d)'
      BY <1>1, <3>1 DEF Writing, LockInv
    <3>3. ASSUME NEW q \in Requests, q # r, NEW d \in Deals PROVE lock'[d] = q <=> lock[d] = q
      BY <1>1, <3>1, <3>3
    <3> QED BY <1>2, <1>6, <3>2, <3>3 DEF LockInv
  <2>4. CASE CommitEdit(r) \/ CommitAnalysis(r)
    <3>1. lock' = ReleasedBy(r) /\ pc'[r] # "commit"
      BY <1>1, <2>4 DEF CommitEdit, CommitAnalysis, PublishDeal, Answer, Goto
    <3> QED BY <1>4, <1>6, <3>1
  <2> QED BY <1>6, <2>1, <2>2, <2>3, <2>4 DEF Serve
<1>7. ASSUME NEW r \in Requests, Abort(r) PROVE LockInv'
  <2>1. lock' = ReleasedBy(r) /\ pc'[r] # "commit"
    BY <1>1, <1>7 DEF Abort, Answer, Goto
  <2> QED BY <1>4, <1>7, <2>1
<1>8. CASE ActivateConfig \/ UNCHANGED vars
  <2>1. UNCHANGED <<lock, pc, call>>
    BY <1>8 DEF ActivateConfig, vars, session
  <2> QED BY <2>1 DEF LockInv, Writing
<1> QED BY <1>5, <1>6, <1>7, <1>8 DEF Next, Terminated

\* The lock discipline holds in every reachable state.
LEMMA AlwaysLocked == Spec => []LockInv
<1>1. Init => LockInv
  BY WorkspaceAssumption DEF Init, LockInv, Writing
<1> QED BY <1>1, StepLock, AlwaysTyped, PTL DEF Spec

-----------------------------------------------------------------------------
(* Progress                                                                *)

\* Request r waits at the UPDATE of a deals row that another one has locked.
Waits(r) ==
  pc[r] = "persist" /\ call[r].op # "reproduce" /\ lock[call[r].deal] # NoRequest

\* Whom it waits for.
Holder(r) == lock[call[r].deal]

\* No request waits for one that waits: who holds a row's lock has done all its
\* waiting, and its next step is the commit that gives the lock back.  So no
\* requests ever wait for each other.
THEOREM NoCircleOfWaiters ==
  Spec => [](\A r \in Requests : Waits(r) =>
               /\ Holder(r) \in Requests \ {r}
               /\ pc[Holder(r)] = "commit"
               /\ ~ Waits(Holder(r)))
<1>1. ASSUME TypeInv, LockInv, NEW r \in Requests, Waits(r)
      PROVE  /\ Holder(r) \in Requests \ {r}
             /\ pc[Holder(r)] = "commit"
             /\ ~ Waits(Holder(r))
  <2>1. call[r] \in Call /\ call[r].deal \in Deals
    BY <1>1 DEF Waits, TypeInv, RequestWellFormed, Call
  <2>2. Holder(r) \in Requests
    BY <1>1, <2>1 DEF Holder, Waits, TypeInv, TypeOK, TablesOK
  <2>3. Writing(Holder(r), call[r].deal)
    BY <1>1, <2>1, <2>2 DEF LockInv, Holder
  <2>4. pc[Holder(r)] = "commit"
    BY <2>3 DEF Writing
  <2> QED BY <1>1, <2>2, <2>4 DEF Waits
<1>2. TypeInv /\ LockInv =>
        \A r \in Requests : Waits(r) => /\ Holder(r) \in Requests \ {r}
                                        /\ pc[Holder(r)] = "commit"
                                        /\ ~ Waits(Holder(r))
  BY <1>1
<1> QED BY <1>2, AlwaysTyped, AlwaysLocked, PTL

\* How many awaits a request at a step may still have before its answer.
Left(step) ==
  CASE step = "new" -> 7
    [] step = "reload" -> 6
    [] step = "engine" -> 5
    [] step = "persist" -> 4
    [] step = "commit" -> 3
    [] step = "summary" -> 2
    [] step \in {"supersede", "deal_status", "validation_failure", "engine_error"} -> 1
    [] step = "done" -> 0

LEMMA LeftValues ==
  /\ Left("new") = 7 /\ Left("reload") = 6 /\ Left("engine") = 5 /\ Left("persist") = 4
  /\ Left("commit") = 3 /\ Left("summary") = 2 /\ Left("supersede") = 1
  /\ Left("deal_status") = 1 /\ Left("validation_failure") = 1 /\ Left("engine_error") = 1
  /\ Left("done") = 0
  /\ \A step \in Steps : Left(step) \in 0 .. 7
<1>1. /\ Left("new") = 7 /\ Left("reload") = 6 /\ Left("engine") = 5 /\ Left("persist") = 4
      /\ Left("commit") = 3 /\ Left("summary") = 2 /\ Left("supersede") = 1
      /\ Left("deal_status") = 1 /\ Left("validation_failure") = 1 /\ Left("engine_error") = 1
      /\ Left("done") = 0
  BY DEF Left
<1> QED BY <1>1 DEF Steps

\* Every step that serves a request takes it nearer to its answer.
LEMMA ServeAdvances ==
  ASSUME TypeInv, NEW r \in Requests, Serve(r)
  PROVE  Left(pc'[r]) < Left(pc[r])
<1> USE LeftValues DEF Goto, Answer
<1>1. pc \in [Requests -> Steps]
  BY DEF TypeInv, TypeOK, RequestsOK
<1>2. CASE ReloadDeal(r) \/ ReloadArchived(r)
  BY <1>1, <1>2 DEF ReloadDeal, ReloadArchived
<1>3. CASE RunEngine(r)
  BY <1>1, <1>3 DEF RunEngine
<1>4. CASE WriteFailure(r)
  BY <1>1, <1>4 DEF WriteFailure
<1>5. CASE WriteDeal(r) \/ InsertReproduction(r)
  BY <1>1, <1>5 DEF WriteDeal, InsertReproduction
<1>6. CASE CommitEdit(r) \/ CommitAnalysis(r) \/ CommitReproduction(r)
  BY <1>1, <1>6 DEF CommitEdit, CommitAnalysis, CommitReproduction
<1>7. CASE LoadSummary(r) \/ LoadSummaryThenSupersede(r)
  BY <1>1, <1>7 DEF LoadSummary, LoadSummaryThenSupersede
<1>8. CASE MarkSuperseded(r) \/ ReportReproduction(r)
  BY <1>1, <1>8 DEF MarkSuperseded, ReportReproduction
<1> QED BY <1>2, <1>3, <1>4, <1>5, <1>6, <1>7, <1>8 DEF Serve

\* A handler is finite whatever the others do: each step that serves a request
\* takes it nearer to its answer, and no step of any request, no crash and no
\* change of configuration takes one back.
THEOREM RequestsAdvance ==
  Spec => [][\A r \in Requests :
               /\ Left(pc'[r]) <= Left(pc[r])
               /\ Serve(r) => Left(pc'[r]) < Left(pc[r])]_vars
<1>1. ASSUME TypeInv, TypeInv', [Next]_vars, NEW r \in Requests
      PROVE  /\ Left(pc'[r]) <= Left(pc[r])
             /\ Serve(r) => Left(pc'[r]) < Left(pc[r])
  <2>1. /\ pc[r] \in Steps /\ pc'[r] \in Steps
        /\ Left(pc[r]) \in 0 .. 7 /\ Left(pc'[r]) \in 0 .. 7
    BY <1>1, LeftValues DEF TypeInv, TypeOK, RequestsOK
  <2>2. Serve(r) => Left(pc'[r]) < Left(pc[r])
    BY <1>1, ServeAdvances
  <2>3. ASSUME pc'[r] = pc[r] PROVE Left(pc'[r]) <= Left(pc[r])
    BY <2>1, <2>3
  <2>4. ASSUME NEW q \in Requests, Receive(q) \/ Serve(q) \/ Abort(q)
        PROVE  Left(pc'[r]) <= Left(pc[r])
    <3>1. CASE q # r
      BY <1>1, <2>3, <2>4, <3>1, OthersUntouched
    <3>2. CASE q = r /\ Receive(r)
      <4>1. pc[r] = "new"
        BY <3>2 DEF Receive, Refuse, update_working_inputs, advance_deal_status, archive_deal,
           BeginEdit, run_calculation, recalculate, reproduce_original, CanStart
      <4> QED BY <2>1, <4>1, LeftValues
    <3>3. CASE q = r /\ Serve(r)
      BY <2>1, <2>2, <3>3
    <3>4. CASE q = r /\ Abort(r)
      <4>1. pc'[r] = "done"
        BY <1>1, <3>4 DEF Abort, Answer, Goto, TypeInv, TypeOK, RequestsOK
      <4> QED BY <2>1, <4>1, LeftValues
    <3> QED BY <2>4, <3>1, <3>2, <3>3, <3>4
  <2>5. CASE ActivateConfig \/ UNCHANGED vars
    <3>1. pc' = pc
      BY <2>5 DEF ActivateConfig, vars
    <3> QED BY <2>2, <2>3, <3>1
  <2> QED BY <1>1, <2>2, <2>4, <2>5 DEF Next, Terminated
<1>2. TypeInv /\ TypeInv' /\ [Next]_vars =>
        [\A r \in Requests : /\ Left(pc'[r]) <= Left(pc[r])
                             /\ Serve(r) => Left(pc'[r]) < Left(pc[r])]_vars
  BY <1>1
<1> QED BY <1>2, AlwaysTyped, PTL DEF Spec

-----------------------------------------------------------------------------
(* Fresh copies                                                            *)

Writes(r) == pc[r] \in {"engine", "persist", "commit"} /\ call[r].op # "reproduce"

\* A copy is never of a version the row has not had; one of the current version is the row
\* with the request's own change made or still to be made.
CopyOf(r, d) ==
  Writes(r) /\ call[r].deal = d =>
    /\ seen[r] <= version[d]
    /\ seen[r] = version[d] =>
         /\ call[r].op \in Edits \/ pc[r] = "commit" => LegalChange(call[r], r, deals[d], row[r])
         /\ call[r].op \in Analyses /\ pc[r] # "commit" =>
              row[r] = deals[d] /\ deals[d].status # "ARCHIVED"

FreshInv == \A r \in Requests, d \in Deals : CopyOf(r, d)

\* The only steps that change a row or its version are commits of its writer.
LEMMA RowChange ==
  ASSUME TypeInv, LockInv, NEW r \in Requests, Receive(r) \/ Serve(r) \/ Abort(r)
  PROVE  \A d \in Deals :
           \/ deals'[d] = deals[d] /\ version'[d] = version[d]
           \/ /\ lock[d] = r /\ Writing(r, d) /\ (CommitEdit(r) \/ CommitAnalysis(r))
              /\ deals'[d] = row[r] /\ version'[d] = version[d] + 1
<1>1. CASE CommitEdit(r) \/ CommitAnalysis(r)
  <2>1. Writing(r, call[r].deal)
    BY <1>1 DEF CommitEdit, CommitAnalysis, Writing, Edits, Analyses
  <2>2. /\ deals' = [deals EXCEPT ![call[r].deal] = row[r]]
        /\ version' = [version EXCEPT ![call[r].deal] = @ + 1]
    BY <1>1 DEF CommitEdit, CommitAnalysis, PublishDeal
  <2> QED BY <1>1, <2>1, <2>2 DEF LockInv, TypeInv, TypeOK, TablesOK
<1>2. CASE ~ (CommitEdit(r) \/ CommitAnalysis(r))
  <2>1. deals' = deals /\ version' = version
    BY <1>2 DEF Receive, Refuse, update_working_inputs, advance_deal_status, archive_deal, BeginEdit,
       run_calculation, recalculate, reproduce_original, Serve, ReloadDeal, ReloadArchived, RunEngine,
       WriteFailure, WriteDeal, InsertReproduction, CommitReproduction, LoadSummary,
       LoadSummaryThenSupersede, MarkSuperseded, ReportReproduction, Abort, tables
  <2> QED BY <2>1
<1> QED BY <1>1, <1>2

\* A copy whose row has not been written since it was read stays equal to that row, changed by its own handler.
LEMMA StepFresh == TypeInv /\ LockInv /\ FreshInv /\ [Next]_vars => FreshInv'
<1> SUFFICES ASSUME TypeInv, LockInv, FreshInv, [Next]_vars PROVE FreshInv'
  OBVIOUS
<1>1. /\ pc \in [Requests -> Steps] /\ call \in [Requests -> Call \cup {NoRequest}]
      /\ row \in [Requests -> Deal] /\ seen \in [Requests -> Nat]
      /\ deals \in [Deals -> Deal] /\ version \in [Deals -> Nat]
  BY DEF TypeInv, TypeOK, TablesOK, RequestsOK
<1>2. ASSUME NEW r \in Requests, Receive(r) \/ Serve(r) \/ Abort(r),
             NEW q \in Requests, q # r, NEW d \in Deals
      PROVE  CopyOf(q, d)'
  <2>1. /\ pc'[q] = pc[q] /\ call'[q] = call[q] /\ row'[q] = row[q] /\ seen'[q] = seen[q]
    BY <1>2, OthersUntouched
  <2>2. CopyOf(q, d) BY DEF FreshInv
  <2>3. CASE deals'[d] = deals[d] /\ version'[d] = version[d]
    BY <2>1, <2>2, <2>3 DEF CopyOf, Writes, LegalChange
  <2>4. CASE version'[d] = version[d] + 1
    BY <1>1, <2>1, <2>2, <2>4 DEF CopyOf, Writes
  <2> QED BY <1>2, <2>3, <2>4, RowChange
<1>3. ASSUME NEW r \in Requests, pc'[r] \notin {"engine", "persist", "commit"}, NEW d \in Deals
      PROVE  CopyOf(r, d)'
  BY <1>3 DEF CopyOf, Writes
<1>4. ASSUME NEW r \in Requests, NEW e \in Deals, NEW deal \in Deal,
             Hold(r, e, deal), call'[r].deal = e, deals' = deals, version' = version,
             pc'[r] # "commit",
             call'[r].op \in Edits => LegalChange(call'[r], r, deals[e], deal),
             call'[r].op \in Analyses => deal = deals[e] /\ deals[e].status # "ARCHIVED",
             NEW d \in Deals
      PROVE  CopyOf(r, d)'
  BY <1>1, <1>4 DEF CopyOf, Hold, Edits, Analyses, LegalChange
<1>5. ASSUME NEW r \in Requests, Receive(r), NEW d \in Deals PROVE CopyOf(r, d)'
  <2>1. CASE Refuse(r)
    BY <1>1, <1>3, <2>1 DEF Refuse, Answer, Goto
  <2>2. ASSUME NEW u \in Users, NEW e \in Deals, NEW patch \in WorkingInputs,
               update_working_inputs(r, e, u, patch)
        PROVE CopyOf(r, d)'
    <3>1. /\ Hold(r, e, merge_input_update(deals[e], patch)) /\ deals' = deals /\ version' = version
          /\ pc'[r] = "persist"
          /\ call'[r] = [op |-> "update", deal |-> e, user |-> u, inputs |-> patch, source |-> NoSnapshot]
          /\ deals[e].status # "ARCHIVED"
      BY <1>1, <2>2 DEF update_working_inputs, BeginEdit, Asked, Goto, tables
    <3>2. merge_input_update(deals[e], patch) \in Deal
      BY <1>1, EntityTypes
    <3>3. LegalChange(call'[r], r, deals[e], merge_input_update(deals[e], patch))
      BY <3>1 DEF LegalChange
    <3> QED BY <1>4, <3>1, <3>2, <3>3 DEF Analyses
  <2>3. ASSUME NEW u \in Users, NEW e \in Deals, advance_deal_status(r, e, u) PROVE CopyOf(r, d)'
    <3>1. /\ Hold(r, e, advance_status(deals[e])) /\ deals' = deals /\ version' = version
          /\ pc'[r] = "persist" /\ CanAdvance(deals[e])
          /\ call'[r] = [op |-> "advance", deal |-> e, user |-> u, inputs |-> NoInputs, source |-> NoSnapshot]
      BY <1>1, <2>3 DEF advance_deal_status, BeginEdit, Asked, Goto, tables
    <3>2. advance_status(deals[e]) \in Deal
      BY <1>1, <3>1, EntityTypes
    <3>3. LegalChange(call'[r], r, deals[e], advance_status(deals[e]))
      BY <3>1 DEF LegalChange
    <3> QED BY <1>4, <3>1, <3>2, <3>3 DEF Analyses
  <2>4. ASSUME NEW u \in Users, NEW e \in Deals, archive_deal(r, e, u) PROVE CopyOf(r, d)'
    <3>1. /\ Hold(r, e, archive(deals[e])) /\ deals' = deals /\ version' = version
          /\ pc'[r] = "persist" /\ deals[e].status # "ARCHIVED"
          /\ call'[r] = [op |-> "archive", deal |-> e, user |-> u, inputs |-> NoInputs, source |-> NoSnapshot]
      BY <1>1, <2>4 DEF archive_deal, BeginEdit, Asked, Goto, tables
    <3>2. archive(deals[e]) \in Deal
      BY <1>1, EntityTypes
    <3>3. LegalChange(call'[r], r, deals[e], archive(deals[e]))
      BY <3>1 DEF LegalChange
    <3> QED BY <1>4, <3>1, <3>2, <3>3 DEF Analyses
  <2>5. ASSUME NEW u \in Users, NEW e \in Deals, NEW body \in WorkingInputs,
               run_calculation(r, e, u, body)
        PROVE CopyOf(r, d)'
    <3>1. /\ Hold(r, e, deals[e]) /\ deals' = deals /\ version' = version
          /\ pc'[r] = "engine" /\ deals[e].status # "ARCHIVED"
          /\ call'[r].op = "calculate" /\ call'[r].deal = e
      BY <1>1, <2>5 DEF run_calculation, Asked, Goto, tables
    <3> QED BY <1>1, <1>4, <3>1 DEF Edits
  <2>6. ASSUME NEW u \in Users, NEW e \in Deals, recalculate(r, e, u) PROVE CopyOf(r, d)'
    BY <1>1, <1>3, <2>6 DEF recalculate, Goto
  <2>7. ASSUME NEW u \in Users, NEW s \in Requests, reproduce_original(r, u, s)
        PROVE CopyOf(r, d)'
    BY <1>1, <2>7 DEF reproduce_original, Asked, CopyOf, Writes
  <2> QED BY <1>5, <2>1, <2>2, <2>3, <2>4, <2>5, <2>6, <2>7 DEF Receive
<1>6. ASSUME NEW r \in Requests, Serve(r), NEW d \in Deals PROVE CopyOf(r, d)'
  <2>1. CopyOf(r, d) BY DEF FreshInv
  <2>2. CASE ReloadDeal(r)
    <3>. PICK e \in Deals : e = call[r].deal
      BY <2>2 DEF ReloadDeal, TypeInv, RequestWellFormed, Call
    <3>1. /\ Hold(r, e, deals[e]) /\ deals' = deals /\ version' = version
          /\ pc'[r] = "engine" /\ deals[e].status # "ARCHIVED"
          /\ call'[r].op = "recalculate" /\ call'[r].deal = e
      BY <1>1, <2>2 DEF ReloadDeal, Goto, tables, TypeInv, RequestWellFormed
    <3> QED BY <1>1, <1>4, <3>1 DEF Edits
  <2>3. CASE RunEngine(r)
    <3>1. /\ pc[r] = "engine" /\ pc'[r] # "commit" /\ call[r].op \notin Edits
          /\ UNCHANGED <<call, row, seen, deals, version>>
      BY <1>1, <2>3 DEF RunEngine, Goto, tables, Edits, Analyses
    <3> QED BY <2>1, <3>1 DEF CopyOf, Writes
  <2>4. CASE WriteDeal(r)
    <3>1. /\ pc[r] = "persist" /\ pc'[r] = "commit" /\ UNCHANGED <<call, seen, deals, version>>
          /\ call[r].op # "reproduce" /\ call[r].op \in Ops
          /\ row'[r] = IF call[r].op \in Analyses THEN apply_snapshot_created(row[r], r) ELSE row[r]
      BY <1>1, <2>4 DEF WriteDeal, Goto, tables, TypeInv, RequestWellFormed, Call
    <3>2. CASE call[r].op \in Edits
      <4>1. row'[r] = row[r] BY <3>1, <3>2 DEF Edits, Analyses
      <4> QED BY <2>1, <3>1, <3>2, <4>1 DEF CopyOf, Writes, LegalChange, Analyses, Edits
    <3>3. CASE call[r].op \in Analyses
      BY <2>1, <3>1, <3>3 DEF CopyOf, Writes, LegalChange
    <3> QED BY <3>1, <3>2, <3>3 DEF Ops
  <2>5. CASE InsertReproduction(r)
    BY <2>5 DEF InsertReproduction, session, CopyOf, Writes
  <2>6. CASE \/ ReloadArchived(r) \/ WriteFailure(r) \/ CommitEdit(r) \/ CommitAnalysis(r)
             \/ CommitReproduction(r) \/ LoadSummary(r) \/ LoadSummaryThenSupersede(r)
             \/ MarkSuperseded(r) \/ ReportReproduction(r)
    <3>1. pc'[r] \notin {"engine", "persist", "commit"}
      BY <1>1, <2>6 DEF ReloadArchived, WriteFailure, CommitEdit, CommitAnalysis, CommitReproduction,
         LoadSummary, LoadSummaryThenSupersede, MarkSuperseded, ReportReproduction, Answer, Goto
    <3> QED BY <1>3, <3>1
  <2> QED BY <1>6, <2>2, <2>3, <2>4, <2>5, <2>6 DEF Serve
<1>7. ASSUME NEW r \in Requests, Abort(r), NEW d \in Deals PROVE CopyOf(r, d)'
  BY <1>1, <1>3, <1>7 DEF Abort, Answer, Goto
<1>8. CASE ActivateConfig \/ UNCHANGED vars
  <2>1. UNCHANGED <<deals, version, pc, call, row, seen>>
    BY <1>8 DEF ActivateConfig, vars, tables, session
  <2> QED BY <2>1 DEF FreshInv, CopyOf, Writes, LegalChange
<1> QED BY <1>2, <1>5, <1>6, <1>7, <1>8 DEF Next, Terminated, FreshInv

\* Fresh copies are what their handler would make of the row, in every reachable state.
LEMMA AlwaysFresh == Spec => []FreshInv
<1>1. Init => FreshInv
  BY DEF Init, FreshInv, CopyOf, Writes
<1> QED BY <1>1, StepFresh, AlwaysLocked, AlwaysTyped, PTL DEF Spec

\* Whatever requests overlap, a commit whose copy is of the row's current version makes one of
\* the legal changes: every illegal transition is the work of an overtaken request.
THEOREM FreshWrites == Spec => FreshWritesAreLegal
<1>1. TypeInv /\ LockInv /\ FreshInv /\ [Next]_vars => [LegalWrite]_vars
  <2> SUFFICES ASSUME TypeInv, LockInv, FreshInv, [Next]_vars,
                      NEW r \in Requests, NEW d \in Deals,
                      lock[d] = r, seen[r] = version[d], deals'[d] # deals[d]
               PROVE  LegalChange(call[r], r, deals[d], deals'[d])
    BY DEF LegalWrite
  <2>1. PICK q \in Requests : Receive(q) \/ Serve(q) \/ Abort(q)
    BY DEF Next, Terminated, ActivateConfig, vars, tables
  <2>2. lock[d] = q /\ Writing(q, d) /\ deals'[d] = row[q]
    BY <2>1, RowChange
  <2>3. CopyOf(r, d) BY DEF FreshInv
  <2> QED BY <2>2, <2>3 DEF CopyOf, Writes, Writing
<1> QED BY <1>1, AlwaysTyped, AlwaysLocked, AlwaysFresh, PTL DEF Spec, FreshWritesAreLegal

=============================================================================
