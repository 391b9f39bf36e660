----------------------- MODULE GenerationWorkers_proofs -----------------------
(***************************************************************************)
(* Theorems about GenerationWorkers, for any number of workers, any retry  *)
(* limit and any number of faults: every state is well typed; what a step  *)
(* may never do - an outlived worker changes nothing, a withdrawn task is  *)
(* not submitted, an administrator decides on current evidence; the quota  *)
(* hold is settled exactly with the task, the provider never holds two     *)
(* tasks for one row, every step is one GenerationLifecycle allows, or     *)
(* none, and a task is submitted beyond the retry limit only as often as   *)
(* the environment has had detours.                                        *)
(***************************************************************************)
EXTENDS GenerationWorkers, SequenceTheorems, TLAPS

-----------------------------------------------------------------------------
(* The row: every mutation of a row is a row. *)

LEMMA RowMutations ==
  ASSUME NEW t \in TaskRow
  PROVE  /\ AcquireLease(t) \in TaskRow
         /\ ReleaseLease(t) \in TaskRow
         /\ ReleaseForRetry(t) \in TaskRow
         /\ BeginSubmission(t) \in TaskRow
         /\ MarkSubmissionUnknown(t) \in TaskRow
         /\ ReconcileNotAccepted(t) \in TaskRow
         /\ ScheduleRetry(t) \in TaskRow
         /\ RequestCancel(t) \in TaskRow
         /\ RevokeAccess(t) \in TaskRow
         /\ \A id \in Nat : RecordExternalTaskID(t, id) \in TaskRow
         /\ \A next \in Statuses : /\ ApplyProviderState(t, next) \in TaskRow
                                   /\ Settle(t, next) \in TaskRow
<1> DEFINE n == t.statusRevision + 1
           f == t.fencingToken + 1
           a == t.submissionAttempt + 1
<1>n. n \in Nat /\ f \in Nat /\ a \in Nat
  BY DEF TaskRow
<1> HIDE DEF n, f, a
<1> USE <1>n
<1>1. AcquireLease(t) \in TaskRow
  <2>1. AcquireLease(t) =
          [t EXCEPT !.status = IF @ = "queued" THEN "running" ELSE @, !.retryPending = FALSE,
                    !.lease = "held", !.fencingToken = f, !.statusRevision = n]
    BY DEF AcquireLease, f, n
  <2> QED BY <2>1 DEF TaskRow, Statuses, Active, Terminal, WithoutOutput, LeaseStates
<1>2. ReleaseLease(t) \in TaskRow
  <2>1. ReleaseLease(t) = [t EXCEPT !.lease = "free", !.statusRevision = n]
    BY DEF ReleaseLease, n
  <2> QED BY <2>1 DEF TaskRow, LeaseStates
<1>3. ReleaseForRetry(t) \in TaskRow
  BY <1>2 DEF ReleaseForRetry, TaskRow
<1>4. BeginSubmission(t) \in TaskRow
  <2>1. BeginSubmission(t) = [t EXCEPT !.submissionState = "in_flight", !.submissionAttempt = a,
                                       !.retryPending = FALSE, !.statusRevision = n]
    BY DEF BeginSubmission, n, a
  <2> QED BY <2>1 DEF TaskRow, SubmissionStates
<1>5. MarkSubmissionUnknown(t) \in TaskRow
  <2>1. MarkSubmissionUnknown(t) = [t EXCEPT !.submissionState = "unknown", !.statusRevision = n]
    BY DEF MarkSubmissionUnknown, n
  <2> QED BY <2>1 DEF TaskRow, SubmissionStates
<1>6. ReconcileNotAccepted(t) \in TaskRow
  <2>1. ReconcileNotAccepted(t) = [t EXCEPT !.submissionState = "not_started", !.statusRevision = n]
    BY DEF ReconcileNotAccepted, n
  <2> QED BY <2>1 DEF TaskRow, SubmissionStates
<1>7. ScheduleRetry(t) \in TaskRow
  <2>1. ScheduleRetry(t) = [t EXCEPT !.retryPending = TRUE, !.statusRevision = n]
    BY DEF ScheduleRetry, n
  <2> QED BY <2>1 DEF TaskRow
<1>8. RequestCancel(t) \in TaskRow
  <2>1. RequestCancel(t) = [t EXCEPT !.cancelRequested = TRUE, !.retryPending = FALSE, !.statusRevision = n]
    BY DEF RequestCancel, n
  <2> QED BY <2>1 DEF TaskRow
<1>9. RevokeAccess(t) \in TaskRow
  <2>1. CASE t.accessRevoked
    BY <2>1 DEF RevokeAccess
  <2>2. CASE ~t.accessRevoked
    <3>1. RevokeAccess(t) = [t EXCEPT !.accessRevoked = TRUE, !.retryPending = FALSE, !.statusRevision = n]
      BY <2>2 DEF RevokeAccess, n
    <3> QED BY <3>1 DEF TaskRow
  <2> QED BY <2>1, <2>2
<1>10. ASSUME NEW id \in Nat PROVE RecordExternalTaskID(t, id) \in TaskRow
  <2>1. CASE t.externalTaskID # 0
    BY <2>1 DEF RecordExternalTaskID
  <2>2. CASE t.externalTaskID = 0
    <3> DEFINE first == IF t.submissionAttempt = 0 THEN 1 ELSE t.submissionAttempt
    <3>1. RecordExternalTaskID(t, id) =
            [t EXCEPT !.externalTaskID = id, !.submissionState = "accepted",
                      !.submissionAttempt = first, !.retryPending = FALSE, !.statusRevision = n]
      BY <2>2 DEF RecordExternalTaskID, n
    <3>2. first \in Nat
      BY DEF TaskRow
    <3> HIDE DEF first
    <3> QED BY <3>1, <3>2 DEF TaskRow, SubmissionStates
  <2> QED BY <2>1, <2>2
<1>11. ASSUME NEW next \in Statuses
       PROVE  ApplyProviderState(t, next) \in TaskRow /\ Settle(t, next) \in TaskRow
  <2>1. Transition(t, next) = [t EXCEPT !.status = next, !.retryPending = FALSE, !.statusRevision = n]
    BY DEF Transition, n
  <2>2. Transition(t, next) \in TaskRow
    BY <2>1 DEF TaskRow
  <2> QED BY <2>2 DEF ApplyProviderState, Settle, TaskRow, LeaseStates
<1> QED BY <1>1, <1>2, <1>3, <1>4, <1>5, <1>6, <1>7, <1>8, <1>9, <1>10, <1>11

\* The fields the safety of a task rests on, and how each mutation moves them.
Core(t) == <<t.status, t.submissionState, t.externalTaskID>>

LEMMA CoreOfMutations ==
  ASSUME NEW t \in TaskRow
  PROVE  /\ Core(AcquireLease(t)) = <<IF t.status = "queued" THEN "running" ELSE t.status,
                                      t.submissionState, t.externalTaskID>>
         /\ Core(ReleaseLease(t)) = Core(t)
         /\ Core(ReleaseForRetry(t)) = Core(t)
         /\ Core(ScheduleRetry(t)) = Core(t)
         /\ Core(RequestCancel(t)) = Core(t)
         /\ Core(RevokeAccess(t)) = Core(t)
         /\ Core(BeginSubmission(t)) = <<t.status, "in_flight", t.externalTaskID>>
         /\ Core(MarkSubmissionUnknown(t)) = <<t.status, "unknown", t.externalTaskID>>
         /\ Core(ReconcileNotAccepted(t)) = <<t.status, "not_started", t.externalTaskID>>
         /\ \A id \in Nat : Core(RecordExternalTaskID(t, id)) =
              IF t.externalTaskID = 0 THEN <<t.status, "accepted", id>> ELSE Core(t)
         /\ \A next \in Statuses :
              /\ Core(ApplyProviderState(t, next)) = <<next, t.submissionState, t.externalTaskID>>
              /\ Core(Settle(t, next)) = <<next, t.submissionState, t.externalTaskID>>
BY DEF Core, TaskRow, AcquireLease, ReleaseLease, ReleaseForRetry, ScheduleRetry, RequestCancel,
       RevokeAccess, BeginSubmission, MarkSubmissionUnknown, ReconcileNotAccepted,
       RecordExternalTaskID, ApplyProviderState, Settle, Transition

-----------------------------------------------------------------------------
(* Types.  A provider identity must name a task the provider has created,  *)
(* or the state read under it would not be one; a settlement must have     *)
(* seen a terminal state.                                                  *)

References ==
  /\ task.externalTaskID <= Len(remote)
  /\ admin.evidence <= Len(remote)
  /\ \A w \in Workers :
       /\ worker[w].id <= Len(remote)
       /\ worker[w].step = "cancelRemote" => task.externalTaskID # 0
       /\ worker[w].step = "settleRemote" => worker[w].reply \in WithoutOutput

Typed == TypeOK /\ References

LEMMA InitTyped == Init => Typed
<1> SUFFICES ASSUME Init PROVE Typed
  OBVIOUS
<1>1. task \in TaskRow
  BY DEF Init, NewTask, TaskRow, Statuses, Active, SubmissionStates, LeaseStates
<1>2. worker \in [Workers -> WorkerState]
  BY DEF Init, Idle, WorkerState, Steps
<1>3. hold \in HoldStates /\ overdue \in BOOLEAN /\ remote = <<>> /\ travelling \in Nat
  BY DEF Init, HoldStates
<1>4. admin \in [revision : Nat, attempt : Nat, evidence : Nat] /\ admin.evidence = 0
  BY DEF Init, NoFile
<1>5. budget \in Nat
  BY FaultBudgetAssumption DEF Init
<1>6. task.externalTaskID = 0 /\ \A w \in Workers : worker[w].id = 0 /\ worker[w].step = "idle"
  BY DEF Init, NewTask, Idle
<1>7. remote \in Seq(RemoteStates) /\ Len(remote) = 0
  BY <1>3
<1> QED BY <1>1, <1>2, <1>3, <1>4, <1>5, <1>6, <1>7 DEF Typed, TypeOK, References

\* What a worker does to its own record keeps the types.
LEMMA WorkerMoves ==
  ASSUME Typed, NEW w \in Workers
  PROVE  /\ Idle \in WorkerState
         /\ [worker EXCEPT ![w] = Idle] \in [Workers -> WorkerState]
         /\ \A step \in Steps : [worker EXCEPT ![w].step = step] \in [Workers -> WorkerState]
<1>1. Idle \in WorkerState
  BY DEF Idle, WorkerState, Steps
<1>2. ASSUME NEW step \in Steps
      PROVE  [worker EXCEPT ![w].step = step] \in [Workers -> WorkerState]
  BY <1>2 DEF Typed, TypeOK, WorkerState
<1> QED BY <1>1, <1>2 DEF Typed, TypeOK

\* The positions a worker reaches without having read a provider state.
Plain == Steps \ {"cancelRemote", "settleRemote"}
Claimed(step) == [Idle EXCEPT !.step = step, !.token = task.fencingToken + 1,
                              !.sawCancel = task.cancelRequested]
Moved(w) ==
  \/ Stop(w)
  \/ \E step \in Plain : Goto(w, step) \/ worker' = [worker EXCEPT ![w] = Claimed(step)]

KeepsID(row) == row \in TaskRow /\ row.externalTaskID = task.externalTaskID

\* A step that moves at most one worker to a plain position, keeps a known
\* provider identity and forgets no provider task.
LEMMA RowStepTyped ==
  ASSUME Typed, NEW w \in Workers, Moved(w) \/ UNCHANGED worker,
         task' \in TaskRow, hold' \in HoldStates, overdue' \in BOOLEAN, budget' \in Nat,
         task'.externalTaskID <= Len(remote),
         task.externalTaskID # 0 => task'.externalTaskID # 0,
         remote' \in Seq(RemoteStates), Len(remote) <= Len(remote'), travelling' \in Nat,
         admin' \in {admin, NoFile}
  PROVE  Typed'
<1>0. Len(remote) \in Nat /\ Len(remote') \in Nat
  BY DEF Typed, TypeOK
<1>1. worker' \in [Workers -> WorkerState]
  <2>1. ASSUME NEW step \in Steps PROVE Claimed(step) \in WorkerState
    <3>1. task.fencingToken + 1 \in Nat /\ task.cancelRequested \in BOOLEAN
      BY DEF Typed, TypeOK, TaskRow
    <3> QED BY <3>1 DEF Claimed, Idle, WorkerState
  <2> QED BY <2>1, WorkerMoves DEF Moved, Plain, Goto, Stop, Typed, TypeOK
<1>2. admin' \in [revision : Nat, attempt : Nat, evidence : Nat] /\ admin'.evidence <= Len(remote)
  BY DEF NoFile, Typed, TypeOK, References
<1>3. ASSUME NEW v \in Workers
      PROVE  /\ worker'[v].id <= Len(remote)
             /\ worker'[v].step = "cancelRemote" => task.externalTaskID # 0
             /\ worker'[v].step = "settleRemote" => worker'[v].reply \in WithoutOutput
  <2>1. \/ worker'[v] \in {worker[v], Idle}
        \/ \E step \in Plain : worker'[v] \in {[worker[v] EXCEPT !.step = step], Claimed(step)}
    BY DEF Moved, Goto, Stop, Typed, TypeOK
  <2>2. /\ Idle.id <= Len(remote) /\ Idle.step = "idle"
        /\ \A step : Claimed(step).id <= Len(remote) /\ Claimed(step).step = step
    BY DEF Idle, Claimed, Typed, TypeOK
  <2> QED BY <2>1, <2>2 DEF Typed, TypeOK, References, WorkerState, Plain
<1>4. TypeOK'
  BY <1>1, <1>2 DEF Typed, TypeOK
<1>5. References'
  <2>1. ASSUME NEW v \in Workers PROVE worker'[v].id \in Nat
    BY <1>1 DEF WorkerState
  <2>2. task'.externalTaskID \in Nat /\ admin'.evidence \in Nat
    BY <1>2 DEF TaskRow
  <2> QED BY <1>0, <1>2, <1>3, <2>1, <2>2 DEF References
<1> QED BY <1>4, <1>5 DEF Typed

LEMMA MutationsKeepID ==
  ASSUME Typed
  PROVE  /\ task.externalTaskID \in Nat /\ task.externalTaskID <= Len(remote)
         /\ KeepsID(task) /\ KeepsID(AcquireLease(task)) /\ KeepsID(ReleaseLease(task))
         /\ KeepsID(ReleaseForRetry(task)) /\ KeepsID(BeginSubmission(task))
         /\ KeepsID(MarkSubmissionUnknown(task)) /\ KeepsID(ReconcileNotAccepted(task))
         /\ KeepsID(ScheduleRetry(task)) /\ KeepsID(RequestCancel(task)) /\ KeepsID(RevokeAccess(task))
         /\ \A next \in Statuses :
              KeepsID(ApplyProviderState(task, next)) /\ KeepsID(Settle(task, next))
<1>1. task \in TaskRow /\ task.externalTaskID <= Len(remote)
  BY DEF Typed, TypeOK, References
<1>2. task.externalTaskID \in Nat
  BY <1>1 DEF TaskRow
<1> QED BY <1>1, <1>2, RowMutations, CoreOfMutations DEF KeepsID, Core

\* Transactions that keep the provider identity, and settlements.
LEMMA TransactionsTyped ==
  ASSUME Typed, NEW w \in Workers
  PROVE  /\ /\ \E row : KeepsID(row) /\ task' \in {task, row}
            /\ Moved(w) \/ UNCHANGED worker
            /\ hold' \in {hold, "released", "consumed"}
            /\ admin' \in {admin, NoFile}
            /\ UNCHANGED <<overdue, remote, travelling, budget>>
            => Typed'
         /\ \A next \in WithoutOutput : Finalize(w, next) => Typed'
<1>1. ASSUME NEW row, KeepsID(row), task' \in {task, row}, Moved(w) \/ UNCHANGED worker,
             hold' \in {hold, "released", "consumed"}, admin' \in {admin, NoFile},
             UNCHANGED <<overdue, remote, travelling, budget>>
      PROVE  Typed'
  <2>1. task' \in TaskRow /\ task'.externalTaskID = task.externalTaskID
    BY <1>1 DEF KeepsID, Typed, TypeOK
  <2>2. hold' \in HoldStates /\ overdue' \in BOOLEAN /\ budget' \in Nat
    BY <1>1 DEF Typed, TypeOK, HoldStates
  <2>3. remote' \in Seq(RemoteStates) /\ Len(remote) <= Len(remote') /\ travelling' \in Nat
    BY <1>1 DEF Typed, TypeOK
  <2> QED BY <1>1, <2>1, <2>2, <2>3, MutationsKeepID, RowStepTyped
<1>2. ASSUME NEW next \in WithoutOutput, Finalize(w, next)
      PROVE  Typed'
  <2>1. KeepsID(Settle(task, next))
    BY <1>2, MutationsKeepID DEF Statuses, Terminal
  <2>2. task' \in {task, Settle(task, next)} /\ hold' \in {hold, "released"} /\ Moved(w)
    BY <1>2 DEF Finalize, Moved
  <2>3. UNCHANGED <<overdue, remote, travelling, admin, budget>>
    BY <1>2 DEF Finalize
  <2> QED BY <2>1, <2>2, <2>3, <1>1
<1> QED BY <1>1, <1>2

LEMMA ClaimTyped ==
  ASSUME Typed, NEW w \in Workers, NEW step \in Plain, Claim(w, step)
  PROVE  Typed'
<1>1. task' = AcquireLease(task) /\ Moved(w)
  BY DEF Claim, Moved, Claimed
<1>2. UNCHANGED <<hold, overdue, remote, travelling, admin, budget>>
  BY DEF Claim
<1> QED BY <1>1, <1>2, MutationsKeepID, TransactionsTyped

\* What becomes of a request: the provider's tasks only grow in number.
LEMMA FateTyped ==
  ASSUME Typed, RequestFate
  PROVE  remote' \in Seq(RemoteStates) /\ travelling' \in Nat /\ Len(remote) <= Len(remote')
<1>1. Append(remote, "running") \in Seq(RemoteStates) /\ Len(Append(remote, "running")) = Len(remote) + 1
  BY DEF Typed, TypeOK, RemoteStates, RemoteOpen
<1>2. remote' \in {remote, Append(remote, "running")} /\ travelling' \in {travelling, travelling + 1}
  BY DEF RequestFate
<1>3. remote \in Seq(RemoteStates) /\ Len(remote) \in Nat /\ travelling \in Nat
  BY DEF Typed, TypeOK
<1>4. travelling' \in Nat
  BY <1>2, <1>3
<1>5. CASE remote' = remote
  BY <1>3, <1>4, <1>5
<1>6. CASE remote' = Append(remote, "running")
  BY <1>1, <1>3, <1>4, <1>6
<1> QED BY <1>2, <1>5, <1>6

LEMMA SubmissionTyped ==
  ASSUME Typed, NEW w \in Workers, Submission(w)
  PROVE  Typed'
<1>1. ASSUME ClaimSubmission(w) PROVE Typed'
  <2>1. \E step \in Plain : Claim(w, step)
    BY <1>1 DEF ClaimSubmission, Plain, Steps, SubmissionSteps
  <2> QED BY <2>1, ClaimTyped
<1>2. ASSUME FinalizeCanceled(w) PROVE Typed'
  BY <1>2, TransactionsTyped DEF FinalizeCanceled, WithoutOutput
<1>3. ASSUME Begin(w) PROVE Typed'
  <2>1. task' \in {task, BeginSubmission(task)} /\ Moved(w)
    BY <1>3 DEF Begin, Save, Moved, Plain, Steps, SubmissionSteps, ObservationSteps, ResultSteps
  <2>2. UNCHANGED <<hold, overdue, remote, travelling, admin, budget>>
    BY <1>3 DEF Begin, Save
  <2> QED BY <2>1, <2>2, MutationsKeepID, TransactionsTyped
<1>4. ASSUME MarkUnknown(w) PROVE Typed'
  <2>1. task' \in {task, MarkSubmissionUnknown(task)} /\ Moved(w)
    BY <1>4 DEF MarkUnknown, Save, Moved, Plain, Steps, SubmissionSteps, ObservationSteps, ResultSteps
  <2>2. UNCHANGED <<hold, overdue, remote, travelling, admin, budget>>
    BY <1>4 DEF MarkUnknown, Save
  <2> QED BY <2>1, <2>2, MutationsKeepID, TransactionsTyped
<1>5. ASSUME Reconcile(w) PROVE Typed'
  <2>1. task' \in {task, ReconcileNotAccepted(task)} /\ Moved(w)
    BY <1>5 DEF Reconcile, Save, Moved, Plain, Steps, SubmissionSteps, ObservationSteps, ResultSteps
  <2>2. UNCHANGED <<hold, overdue, remote, travelling, admin, budget>>
    BY <1>5 DEF Reconcile, Save
  <2> QED BY <2>1, <2>2, MutationsKeepID, TransactionsTyped
<1>6. ASSUME Schedule(w) PROVE Typed'
  <2>1. task' \in {task, ScheduleRetry(task)} /\ Moved(w)
    BY <1>6 DEF Schedule, Save, Moved, Plain, Steps, SubmissionSteps, ObservationSteps, ResultSteps
  <2>2. UNCHANGED <<hold, overdue, remote, travelling, admin, budget>>
    BY <1>6 DEF Schedule, Save
  <2> QED BY <2>1, <2>2, MutationsKeepID, TransactionsTyped
<1>7. ASSUME FinalizeExhausted(w) PROVE Typed'
  BY <1>7, TransactionsTyped DEF FinalizeExhausted, WithoutOutput
<1>8. ASSUME Record(w) PROVE Typed'
  <2> DEFINE id == worker[w].id
  <2>1. id \in Nat /\ id <= Len(remote) /\ task \in TaskRow
    BY DEF Typed, TypeOK, References, WorkerState
  <2>2. Core(RecordExternalTaskID(task, id)) =
          IF task.externalTaskID = 0 THEN <<task.status, "accepted", id>> ELSE Core(task)
    BY <2>1, CoreOfMutations
  <2>3. task' \in {task, RecordExternalTaskID(task, id)} /\ Moved(w)
    BY <1>8 DEF Record, Save, Moved, Plain, Steps, SubmissionSteps
  <2>4. task' \in TaskRow
    BY <2>1, <2>3, RowMutations
  <2>5. task'.externalTaskID \in {task.externalTaskID, id}
        /\ (task.externalTaskID # 0 => task'.externalTaskID = task.externalTaskID)
    BY <2>2, <2>3 DEF Core
  <2>6. UNCHANGED <<hold, overdue, remote, travelling, admin, budget>>
    BY <1>8 DEF Record, Save
  <2>7. task'.externalTaskID <= Len(remote) /\ remote' = remote
    BY <2>1, <2>5, <2>6 DEF Typed, References
  <2> QED BY <2>1, <2>3, <2>4, <2>5, <2>6, <2>7, RowStepTyped DEF Typed, TypeOK
<1>9. ASSUME SubmitAccepted(w) PROVE Typed'
  <2> DEFINE n == Len(remote) + 1
  <2>1. n \in Nat /\ remote' \in Seq(RemoteStates) /\ Len(remote') = n /\ Len(remote) <= n
    BY <1>9 DEF SubmitAccepted, Typed, TypeOK, RemoteStates, RemoteOpen
  <2>2. /\ worker' = [worker EXCEPT ![w].step = "record", ![w].id = n]
        /\ UNCHANGED <<task, hold, overdue, travelling, admin, budget>>
    BY <1>9 DEF SubmitAccepted
  <2> HIDE DEF n
  <2>3. [worker[w] EXCEPT !.step = "record", !.id = n] \in WorkerState
    BY <2>1 DEF Typed, TypeOK, WorkerState, Steps, SubmissionSteps
  <2>4. worker' \in [Workers -> WorkerState]
    BY <2>2, <2>3 DEF Typed, TypeOK
  <2>5. TypeOK'
    BY <2>1, <2>2, <2>4 DEF Typed, TypeOK
  <2>6. ASSUME NEW v \in Workers
        PROVE  \/ worker'[v] = worker[v]
               \/ worker'[v].id = n /\ worker'[v].step = "record"
    BY <2>2 DEF Typed, TypeOK, WorkerState
  <2>7. /\ Len(remote) \in Nat
        /\ task.externalTaskID \in Nat /\ task.externalTaskID <= Len(remote)
        /\ admin.evidence \in Nat /\ admin.evidence <= Len(remote)
        /\ \A v \in Workers : worker[v].id \in Nat /\ worker[v].id <= Len(remote)
    BY DEF Typed, TypeOK, References, TaskRow, WorkerState
  <2>8. task'.externalTaskID <= Len(remote') /\ admin'.evidence <= Len(remote')
    BY <2>1, <2>2, <2>7
  <2>9. ASSUME NEW v \in Workers
        PROVE  /\ worker'[v].id <= Len(remote')
               /\ worker'[v].step = "cancelRemote" => task'.externalTaskID # 0
               /\ worker'[v].step = "settleRemote" => worker'[v].reply \in WithoutOutput
    <3>1. CASE worker'[v] = worker[v]
      BY <3>1, <2>1, <2>2, <2>7 DEF Typed, References
    <3>2. CASE worker'[v].id = n /\ worker'[v].step = "record"
      BY <3>2, <2>1
    <3> QED BY <3>1, <3>2, <2>6
  <2> QED BY <2>5, <2>8, <2>9 DEF Typed, References
<1>10. ASSUME SubmitRefused(w) PROVE Typed'
  <2>1. Moved(w) /\ UNCHANGED <<task, hold, overdue, remote, travelling, admin, budget>>
    BY <1>10 DEF SubmitRefused, Moved, Plain, Steps, SubmissionSteps
  <2> QED BY <2>1, MutationsKeepID, TransactionsTyped
<1>11. ASSUME SubmitLost(w) PROVE Typed'
  <2>1. Moved(w) /\ RequestFate /\ UNCHANGED <<task, hold, overdue, admin, budget>>
    BY <1>11 DEF SubmitLost, Moved, Plain, Steps, SubmissionSteps
  <2> QED BY <2>1, FateTyped, RowStepTyped DEF Typed, TypeOK, References
<1> QED BY <1>1, <1>2, <1>3, <1>4, <1>5, <1>6, <1>7, <1>8, <1>9, <1>10, <1>11 DEF Submission

\* What a query returns, under an identity the row names.
LEMMA ObservedState ==
  ASSUME Typed, task.externalTaskID # 0
  PROVE  task.externalTaskID \in DOMAIN remote /\ remote[task.externalTaskID] \in RemoteStates
BY MutationsKeepID DEF Typed, TypeOK

LEMMA QueryTyped ==
  ASSUME Typed, NEW w \in Workers, Query(w)
  PROVE  Typed'
<1> DEFINE state == remote[task.externalTaskID]
<1>1. task.externalTaskID # 0 /\ state \in RemoteStates
  BY ObservedState DEF Query
<1>2. budget' \in Nat /\ UNCHANGED <<task, hold, overdue, remote, travelling, admin>>
  BY DEF Query, Detour, Typed, TypeOK
<1>3. Goto(w, "cancelRemote") \/ React(w, state)
  BY DEF Query
<1> HIDE DEF state
<1>4. worker' \in [Workers -> WorkerState]
  <2>1. CASE Goto(w, "cancelRemote")
    BY <2>1, WorkerMoves DEF Goto, Steps, ObservationSteps
  <2>2. CASE React(w, state)
    <3>1. \E step \in Steps : worker' = [worker EXCEPT ![w].reply = state, ![w].step = step]
      BY <2>2 DEF React, Steps, ObservationSteps
    <3>2. PICK step \in Steps : worker' = [worker EXCEPT ![w].reply = state, ![w].step = step]
      BY <3>1
    <3>3. [worker[w] EXCEPT !.reply = state, !.step = step] \in WorkerState
      BY <1>1 DEF Typed, TypeOK, WorkerState
    <3>4. worker' = [worker EXCEPT ![w] = [worker[w] EXCEPT !.reply = state, !.step = step]]
      BY <3>2 DEF Typed, TypeOK
    <3> QED BY <3>3, <3>4 DEF Typed, TypeOK
  <2> QED BY <1>3, <2>1, <2>2
<1>5. ASSUME NEW v \in Workers
      PROVE  /\ worker'[v].id = worker[v].id
             /\ worker'[v].step = "settleRemote" => worker'[v].reply \in WithoutOutput
  <2>1. CASE Goto(w, "cancelRemote")
    BY <2>1 DEF Goto, Typed, TypeOK, References, WorkerState
  <2>2. CASE React(w, state)
    BY <1>1, <2>2 DEF React, Typed, TypeOK, References, WorkerState
  <2> QED BY <1>3, <2>1, <2>2
<1>6. TypeOK'
  BY <1>2, <1>4 DEF Typed, TypeOK
<1>7. References'
  BY <1>1, <1>2, <1>5 DEF Typed, References
<1> QED BY <1>6, <1>7 DEF Typed

LEMMA ObservationTyped ==
  ASSUME Typed, NEW w \in Workers, Observation(w)
  PROVE  Typed'
<1>1. ASSUME ClaimObservation(w) PROVE Typed'
  BY <1>1, ClaimTyped DEF ClaimObservation, Plain, Steps, ObservationSteps
<1>2. ASSUME Query(w) PROVE Typed'
  BY <1>2, QueryTyped
<1>3. ASSUME CancelRemote(w) PROVE Typed'
  <2> DEFINE id == task.externalTaskID
  <2>1. id \in DOMAIN remote /\ remote[id] \in RemoteStates
    BY <1>3, ObservedState DEF CancelRemote, Typed, References
  <2>2. \E state \in RemoteStates : remote' \in {remote, [remote EXCEPT ![id] = state]}
    BY <1>3, <2>1 DEF CancelRemote, RemoteStates, WithoutOutput
  <2>3. remote' \in Seq(RemoteStates) /\ Len(remote') = Len(remote)
    BY <2>2 DEF Typed, TypeOK
  <2>4. Moved(w) /\ UNCHANGED <<task, hold, overdue, travelling, admin, budget>>
    BY <1>3 DEF CancelRemote, Moved, Plain, Steps, ObservationSteps
  <2> QED BY <2>3, <2>4, RowStepTyped DEF Typed, TypeOK, References
<1>4. ASSUME Apply(w) PROVE Typed'
  <2>1. /\ KeepsID(ApplyProviderState(task, "running"))
        /\ KeepsID(ApplyProviderState(task, "validating"))
    BY MutationsKeepID DEF Statuses, Active
  <2>2. task' \in {task, ApplyProviderState(task, "running"), ApplyProviderState(task, "validating")}
        /\ Moved(w)
    BY <1>4 DEF Apply, Save, Moved, Plain, Steps, ObservationSteps
  <2>3. UNCHANGED <<hold, overdue, remote, travelling, admin, budget>>
    BY <1>4 DEF Apply, Save
  <2> QED BY <2>1, <2>2, <2>3, TransactionsTyped
<1>5. ASSUME SettleRemote(w) PROVE Typed'
  <2>1. worker[w].reply \in WithoutOutput
    BY <1>5 DEF SettleRemote, Typed, References
  <2> QED BY <1>5, <2>1, TransactionsTyped DEF SettleRemote
<1> QED BY <1>1, <1>2, <1>3, <1>4, <1>5 DEF Observation

LEMMA ResultTyped ==
  ASSUME Typed, NEW w \in Workers, Result(w) \/ Release(w) \/ ReleaseRetry(w)
  PROVE  Typed'
<1>1. ASSUME ClaimResult(w) PROVE Typed'
  BY <1>1, ClaimTyped DEF ClaimResult, Plain, Steps, ResultSteps
<1>2. ASSUME Fetch(w) PROVE Typed'
  <2>1. Moved(w) /\ UNCHANGED <<task, hold, overdue, remote, travelling, admin, budget>>
    BY <1>2 DEF Fetch, Moved, Plain, Steps, SubmissionSteps, ResultSteps
  <2> QED BY <2>1, MutationsKeepID, TransactionsTyped
<1>3. ASSUME Publish(w) PROVE Typed'
  <2>1. KeepsID(Settle(task, "succeeded"))
    BY MutationsKeepID DEF Statuses, Terminal
  <2>2. task' \in {task, Settle(task, "succeeded")} /\ hold' \in {hold, "consumed"} /\ Moved(w)
    BY <1>3 DEF Publish, Moved, Plain, Steps
  <2>3. UNCHANGED <<overdue, remote, travelling, admin, budget>>
    BY <1>3 DEF Publish
  <2> QED BY <2>1, <2>2, <2>3, TransactionsTyped
<1>4. ASSUME Release(w) PROVE Typed'
  <2>1. task' \in {task, ReleaseLease(task)} /\ Moved(w)
    BY <1>4 DEF Release, SaveAndStop, Moved
  <2>2. UNCHANGED <<hold, overdue, remote, travelling, admin, budget>>
    BY <1>4 DEF Release, SaveAndStop
  <2> QED BY <2>1, <2>2, MutationsKeepID, TransactionsTyped
<1>5. ASSUME ReleaseRetry(w) PROVE Typed'
  <2>1. task' \in {task, ReleaseForRetry(task)} /\ Moved(w)
    BY <1>5 DEF ReleaseRetry, SaveAndStop, Moved
  <2>2. UNCHANGED <<hold, overdue, remote, travelling, admin, budget>>
    BY <1>5 DEF ReleaseRetry, SaveAndStop
  <2> QED BY <2>1, <2>2, MutationsKeepID, TransactionsTyped
<1> QED BY <1>1, <1>2, <1>3, <1>4, <1>5 DEF Result

\* Owner, timeout worker and administrator: no worker moves, no provider task.
LEMMA OthersTyped ==
  ASSUME Typed, Cancel \/ Delete \/ Expire \/ Inspect \/ ReconcileAccepted \/ ReconcileRefused
  PROVE  Typed'
<1> DEFINE Frame == /\ UNCHANGED <<worker, overdue, remote, travelling, budget>>
                    /\ hold' \in {hold, "released"}
<1>keep. ASSUME NEW row, KeepsID(row), task' = row, Frame, admin' \in {admin, NoFile}
         PROVE  Typed'
  <2>1. task' \in TaskRow /\ task'.externalTaskID = task.externalTaskID
    BY <1>keep DEF KeepsID
  <2>2. TypeOK'
    BY <1>keep, <2>1 DEF Typed, TypeOK, HoldStates, NoFile
  <2>3. References'
    BY <1>keep, <2>1, MutationsKeepID DEF Typed, TypeOK, References, NoFile
  <2> QED BY <2>2, <2>3 DEF Typed
<1>next. ASSUME NEW row, KeepsID(row), NEW next \in Statuses
         PROVE  /\ KeepsID(Settle(row, next)) /\ KeepsID(RequestCancel(row))
                /\ KeepsID(RevokeAccess(row)) /\ KeepsID(Revoke(row))
                /\ \A b \in BOOLEAN : KeepsID([row EXCEPT !.retryPending = b])
  <2>1. row \in TaskRow
    BY <1>next DEF KeepsID
  <2>2. KeepsID(Settle(row, next)) /\ KeepsID(RequestCancel(row)) /\ KeepsID(RevokeAccess(row))
    BY <1>next, <2>1, RowMutations, CoreOfMutations DEF KeepsID, Core
  <2>3. KeepsID(RequestCancel(RevokeAccess(row)))
    <3>1. RevokeAccess(row) \in TaskRow
      BY <2>2 DEF KeepsID
    <3> QED BY <2>2, <3>1, RowMutations, CoreOfMutations DEF KeepsID, Core
  <2>4. \A b \in BOOLEAN : KeepsID([row EXCEPT !.retryPending = b])
    BY <1>next, <2>1 DEF KeepsID, TaskRow
  <2> QED BY <2>2, <2>3, <2>4 DEF Revoke
<1>statuses. {"canceled", "expired", "failed"} \subseteq Statuses
  BY DEF Statuses, Terminal, WithoutOutput
<1>1. ASSUME Cancel PROVE Typed'
  <2>1. /\ KeepsID(Settle(RequestCancel(task), "canceled"))
        /\ KeepsID([RequestCancel(task) EXCEPT !.retryPending = task.retryPending])
    <3>1. KeepsID(RequestCancel(task)) /\ task.retryPending \in BOOLEAN
      BY MutationsKeepID DEF KeepsID, TaskRow
    <3> QED BY <3>1, <1>next, <1>statuses
  <2>2. /\ task' \in {Settle(RequestCancel(task), "canceled"),
                      [RequestCancel(task) EXCEPT !.retryPending = task.retryPending]}
        /\ Frame /\ admin' = admin
    BY <1>1 DEF Cancel
  <2> QED BY <2>1, <2>2, <1>keep
<1>2. ASSUME Delete PROVE Typed'
  <2>1. KeepsID(Revoke(task)) /\ KeepsID(Settle(Revoke(task), "canceled"))
    BY MutationsKeepID, <1>next, <1>statuses
  <2>2. task' \in {Revoke(task), Settle(Revoke(task), "canceled")} /\ Frame /\ admin' = admin
    BY <1>2 DEF Delete
  <2> QED BY <2>1, <2>2, <1>keep
<1>3. ASSUME Expire PROVE Typed'
  <2>1. KeepsID(Revoke(Settle(task, "expired")))
    BY MutationsKeepID, <1>next, <1>statuses
  <2>2. task' = Revoke(Settle(task, "expired")) /\ Frame /\ admin' = admin
    BY <1>3 DEF Expire
  <2> QED BY <2>1, <2>2, <1>keep
<1>4. ASSUME Inspect PROVE Typed'
  <2>1. /\ admin' = [revision |-> task.statusRevision, attempt |-> task.submissionAttempt,
                     evidence |-> Len(remote)]
        /\ UNCHANGED <<task, hold, overdue, remote, travelling, worker, budget>>
    BY <1>4 DEF Inspect
  <2>2. admin' \in [revision : Nat, attempt : Nat, evidence : Nat] /\ admin'.evidence = Len(remote)
    BY <2>1 DEF Typed, TypeOK, TaskRow
  <2> QED BY <2>1, <2>2 DEF Typed, TypeOK, References
<1>5. ASSUME ReconcileAccepted PROVE Typed'
  <2> DEFINE claimed == AcquireLease(task)
             id == admin.evidence
             named == RecordExternalTaskID(claimed, id)
  <2>1. claimed \in TaskRow /\ claimed.externalTaskID = task.externalTaskID
    BY MutationsKeepID DEF KeepsID
  <2>2. id \in Nat /\ id <= Len(remote) /\ task.externalTaskID = 0
    BY <1>5 DEF ReconcileAccepted, MayReconcile, Typed, TypeOK, References
  <2> HIDE DEF claimed, id
  <2>3. named \in TaskRow /\ named.externalTaskID = id
    BY <2>1, <2>2, RowMutations, CoreOfMutations DEF Core
  <2>4. ReleaseLease(named) \in TaskRow /\ ReleaseLease(named).externalTaskID = id
    BY <2>3, RowMutations, CoreOfMutations DEF Core
  <2>5. /\ task' = ReleaseLease(named) /\ admin' = NoFile
        /\ UNCHANGED <<hold, overdue, remote, travelling, worker, budget>>
    BY <1>5 DEF ReconcileAccepted, claimed, id
  <2>6. TypeOK'
    BY <2>4, <2>5 DEF Typed, TypeOK, NoFile
  <2>7. References'
    BY <2>2, <2>4, <2>5 DEF Typed, TypeOK, References, NoFile
  <2> QED BY <2>6, <2>7 DEF Typed
<1>6. ASSUME ReconcileRefused PROVE Typed'
  <2> DEFINE refused == ReconcileNotAccepted(AcquireLease(task))
  <2>1. KeepsID(refused)
    <3>1. AcquireLease(task) \in TaskRow /\ AcquireLease(task).externalTaskID = task.externalTaskID
      BY MutationsKeepID DEF KeepsID
    <3> QED BY <3>1, RowMutations, CoreOfMutations DEF KeepsID, Core
  <2>2. task' \in {Settle(refused, "canceled"), Settle(refused, "failed")} /\ Frame /\ admin' = NoFile
    BY <1>6 DEF ReconcileRefused
  <2> HIDE DEF refused
  <2>3. KeepsID(Settle(refused, "canceled")) /\ KeepsID(Settle(refused, "failed"))
    BY <2>1, <1>next, <1>statuses
  <2> QED BY <2>2, <2>3, <1>keep
<1> QED BY <1>1, <1>2, <1>3, <1>4, <1>5, <1>6

LEMMA EnvironmentTyped ==
  ASSUME Typed, Environment
  PROVE  Typed'
<1> DEFINE Quiet == UNCHANGED <<hold, worker, admin>> /\ budget' \in Nat
<1>row. ASSUME task' \in TaskRow, task'.externalTaskID = task.externalTaskID,
               overdue' \in BOOLEAN, UNCHANGED <<remote, travelling>>, Quiet
        PROVE  Typed'
  BY <1>row DEF Typed, TypeOK, References
<1>remote. ASSUME remote' \in Seq(RemoteStates), Len(remote) <= Len(remote'), travelling' \in Nat,
                  UNCHANGED <<task, overdue>>, Quiet
           PROVE  Typed'
  <2>1. TypeOK'
    BY <1>remote DEF Typed, TypeOK
  <2>2. task.externalTaskID \in Nat /\ admin.evidence \in Nat /\ Len(remote) \in Nat
        /\ Len(remote') \in Nat /\ \A v \in Workers : worker[v].id \in Nat
    BY <1>remote DEF Typed, TypeOK, TaskRow, WorkerState
  <2>3. References'
    BY <1>remote, <2>2 DEF Typed, References
  <2> QED BY <2>1, <2>3 DEF Typed
<1>1. ASSUME LeaseLapses \/ RetryDue PROVE Typed'
  <2>1. task' \in TaskRow /\ task'.externalTaskID = task.externalTaskID
    BY <1>1 DEF LeaseLapses, RetryDue, Typed, TypeOK, TaskRow, LeaseStates
  <2> QED BY <1>1, <2>1, <1>row DEF LeaseLapses, RetryDue, Detour, Typed, TypeOK
<1>2. ASSUME Deadline PROVE Typed'
  BY <1>2, <1>row DEF Deadline, Typed, TypeOK
<1>3. ASSUME LateAcceptance PROVE Typed'
  <2>1. Append(remote, "running") \in Seq(RemoteStates) /\ Len(Append(remote, "running")) = Len(remote) + 1
    BY DEF Typed, TypeOK, RemoteStates, RemoteOpen
  <2>2. remote' \in {remote, Append(remote, "running")} /\ travelling' \in Nat
    BY <1>3 DEF LateAcceptance, Typed, TypeOK
  <2>3. remote' \in Seq(RemoteStates) /\ Len(remote) <= Len(remote')
    BY <2>1, <2>2 DEF Typed, TypeOK
  <2>4. UNCHANGED <<task, overdue>> /\ Quiet
    BY <1>3 DEF LateAcceptance, Typed, TypeOK
  <2> QED BY <2>2, <2>3, <2>4, <1>remote
<1>4. ASSUME ProviderStep PROVE Typed'
  <2>1. remote' \in Seq(RemoteStates) /\ Len(remote') = Len(remote)
    BY <1>4 DEF ProviderStep, Typed, TypeOK
  <2> QED BY <1>4, <2>1, <1>remote DEF ProviderStep, Typed, TypeOK
<1>5. ASSUME NEW w \in Workers, Crash(w) PROVE Typed'
  <2>1. Moved(w) /\ budget' \in Nat /\ UNCHANGED <<task, hold, overdue, admin>>
    BY <1>5 DEF Crash, Moved, Detour, Typed, TypeOK
  <2>2. remote' \in Seq(RemoteStates) /\ travelling' \in Nat /\ Len(remote) <= Len(remote')
    BY <1>5, FateTyped DEF Crash, Typed, TypeOK
  <2> QED BY <2>1, <2>2, RowStepTyped DEF Typed, TypeOK, References
<1>6. ASSUME NEW w \in Workers, CallFails(w) PROVE Typed'
  <2>1. Moved(w) /\ budget' \in Nat /\ UNCHANGED <<task, hold, overdue, remote, travelling, admin>>
    BY <1>6 DEF CallFails, Moved, Plain, Steps, Detour, Typed, TypeOK
  <2> QED BY <1>6, <2>1, RowStepTyped DEF Typed, TypeOK, References
<1> QED BY <1>1, <1>2, <1>3, <1>4, <1>5, <1>6 DEF Environment

LEMMA StepTyped == Typed /\ [Next]_vars => Typed'
<1> SUFFICES ASSUME Typed, [Next]_vars PROVE Typed'
  OBVIOUS
<1>1. CASE UNCHANGED vars
  BY <1>1 DEF vars, Typed, TypeOK, References
<1>2. CASE Next
  BY <1>2, SubmissionTyped, ObservationTyped, ResultTyped, OthersTyped, EnvironmentTyped
  DEF Next, WorkerStep
<1> QED BY <1>1, <1>2

\* Every reachable state is well typed, and no row, worker or administrator
\* ever names a provider task that does not exist.
THEOREM TypeCorrect == Spec => [](TypeOK /\ References)
BY InitTyped, StepTyped, PTL DEF Spec, Typed

-----------------------------------------------------------------------------
(* The row from one revision to the next.                                   *)

\* A submission attempt is never counted without a new revision.
Onward(t, row) ==
  /\ row \in TaskRow
  /\ row.statusRevision >= t.statusRevision
  /\ row.statusRevision = t.statusRevision => row.submissionAttempt = t.submissionAttempt

\* The same, without a submission being begun.
Quiet(t, row) ==
  /\ Onward(t, row)
  /\ row.submissionState = "in_flight" => t.submissionState = "in_flight"

LEMMA QuietTwice ==
  ASSUME NEW t \in TaskRow, NEW row, NEW next, Quiet(t, row), Quiet(row, next)
  PROVE  Quiet(t, next)
BY DEF Quiet, Onward, TaskRow

LEMMA QuietMutations ==
  ASSUME NEW t \in TaskRow
  PROVE  /\ Quiet(t, t) /\ Quiet(t, AcquireLease(t)) /\ Quiet(t, ReleaseLease(t))
         /\ Quiet(t, ReleaseForRetry(t)) /\ Quiet(t, MarkSubmissionUnknown(t))
         /\ Quiet(t, ReconcileNotAccepted(t)) /\ Quiet(t, ScheduleRetry(t))
         /\ Quiet(t, RequestCancel(t)) /\ Quiet(t, RevokeAccess(t))
         /\ Onward(t, BeginSubmission(t))
         /\ \A id \in Nat : Quiet(t, RecordExternalTaskID(t, id))
         /\ \A next \in Statuses :
              Quiet(t, ApplyProviderState(t, next)) /\ Quiet(t, Settle(t, next))
<1> DEFINE n == t.statusRevision + 1
           f == t.fencingToken + 1
           a == t.submissionAttempt + 1
<1>0. /\ t.statusRevision \in Nat /\ n \in Nat /\ n > t.statusRevision
      /\ f \in Nat /\ a \in Nat
  BY DEF TaskRow
<1> HIDE DEF n, f, a
<1> USE <1>0
<1>1. ASSUME NEW row \in TaskRow, row.statusRevision = n
      PROVE  /\ Onward(t, row)
             /\ row.submissionState \in {t.submissionState, "unknown", "not_started", "accepted"}
                  => Quiet(t, row)
  BY <1>1 DEF Quiet, Onward, TaskRow
<1>2. Quiet(t, t)
  BY DEF Quiet, Onward, TaskRow
<1>3. Quiet(t, AcquireLease(t))
  <2>1. AcquireLease(t) =
          [t EXCEPT !.status = IF @ = "queued" THEN "running" ELSE @, !.retryPending = FALSE,
                    !.lease = "held", !.fencingToken = f, !.statusRevision = n]
    BY DEF AcquireLease, f, n
  <2> QED BY <1>1, <2>1, RowMutations DEF TaskRow
<1>4. Quiet(t, ReleaseLease(t)) /\ Quiet(t, ReleaseForRetry(t))
  <2>1. ReleaseLease(t) = [t EXCEPT !.lease = "free", !.statusRevision = n]
    BY DEF ReleaseLease, n
  <2> QED BY <1>1, <2>1, RowMutations DEF ReleaseForRetry, TaskRow
<1>5. Onward(t, BeginSubmission(t))
  <2>1. BeginSubmission(t) = [t EXCEPT !.submissionState = "in_flight", !.submissionAttempt = a,
                                       !.retryPending = FALSE, !.statusRevision = n]
    BY DEF BeginSubmission, n, a
  <2> QED BY <1>1, <2>1, RowMutations DEF TaskRow
<1>6. /\ Quiet(t, MarkSubmissionUnknown(t)) /\ Quiet(t, ReconcileNotAccepted(t))
      /\ Quiet(t, ScheduleRetry(t)) /\ Quiet(t, RequestCancel(t))
  <2>1. /\ MarkSubmissionUnknown(t) = [t EXCEPT !.submissionState = "unknown", !.statusRevision = n]
        /\ ReconcileNotAccepted(t) = [t EXCEPT !.submissionState = "not_started", !.statusRevision = n]
        /\ ScheduleRetry(t) = [t EXCEPT !.retryPending = TRUE, !.statusRevision = n]
        /\ RequestCancel(t) =
             [t EXCEPT !.cancelRequested = TRUE, !.retryPending = FALSE, !.statusRevision = n]
    BY DEF MarkSubmissionUnknown, ReconcileNotAccepted, ScheduleRetry, RequestCancel, n
  <2>2. /\ MarkSubmissionUnknown(t).statusRevision = n
        /\ MarkSubmissionUnknown(t).submissionState = "unknown"
        /\ ReconcileNotAccepted(t).statusRevision = n
        /\ ReconcileNotAccepted(t).submissionState = "not_started"
    BY <2>1 DEF TaskRow
  <2>3. /\ ScheduleRetry(t).statusRevision = n
        /\ ScheduleRetry(t).submissionState = t.submissionState
        /\ RequestCancel(t).statusRevision = n
        /\ RequestCancel(t).submissionState = t.submissionState
    BY <2>1 DEF TaskRow
  <2> QED BY <1>1, <2>2, <2>3, RowMutations
<1>7. Quiet(t, RevokeAccess(t))
  <2>1. RevokeAccess(t) \in {t, [t EXCEPT !.accessRevoked = TRUE, !.retryPending = FALSE,
                                         !.statusRevision = n]}
    BY DEF RevokeAccess, n
  <2>2. CASE RevokeAccess(t) # t
    <3>1. /\ RevokeAccess(t).statusRevision = n
          /\ RevokeAccess(t).submissionState = t.submissionState
      BY <2>1, <2>2 DEF TaskRow
    <3> QED BY <1>1, <3>1, RowMutations
  <2> QED BY <1>2, <2>2
<1>8. ASSUME NEW id \in Nat PROVE Quiet(t, RecordExternalTaskID(t, id))
  <2>1. CASE t.externalTaskID # 0
    BY <1>2, <2>1 DEF RecordExternalTaskID
  <2>2. CASE t.externalTaskID = 0
    <3> DEFINE first == IF t.submissionAttempt = 0 THEN 1 ELSE t.submissionAttempt
    <3>1. RecordExternalTaskID(t, id) =
            [t EXCEPT !.externalTaskID = id, !.submissionState = "accepted",
                      !.submissionAttempt = first, !.retryPending = FALSE, !.statusRevision = n]
      BY <2>2 DEF RecordExternalTaskID, n
    <3> HIDE DEF first
    <3> QED BY <1>1, <3>1, RowMutations DEF TaskRow
  <2> QED BY <2>1, <2>2
<1>9. ASSUME NEW next \in Statuses
      PROVE  Quiet(t, ApplyProviderState(t, next)) /\ Quiet(t, Settle(t, next))
  <2>1. Transition(t, next) = [t EXCEPT !.status = next, !.retryPending = FALSE, !.statusRevision = n]
    BY DEF Transition, n
  <2>2. Transition(t, next).statusRevision = n
          /\ Transition(t, next).submissionState = t.submissionState
    BY <2>1 DEF TaskRow
  <2>3. Quiet(t, Settle(t, next))
    <3>1. Settle(t, next).statusRevision = n /\ Settle(t, next).submissionState = t.submissionState
      BY <2>1 DEF Settle, TaskRow
    <3> QED BY <1>1, <3>1, RowMutations
  <2>4. Quiet(t, ApplyProviderState(t, next))
    BY <1>1, <1>2, <2>2, RowMutations DEF ApplyProviderState
  <2> QED BY <2>3, <2>4
<1> QED BY <1>2, <1>3, <1>4, <1>5, <1>6, <1>7, <1>8, <1>9

LEMMA QuietRevoke ==
  ASSUME NEW t \in TaskRow
  PROVE  Quiet(t, Revoke(t))
<1>1. Quiet(t, RevokeAccess(t)) /\ RevokeAccess(t) \in TaskRow
  BY QuietMutations DEF Quiet, Onward
<1>2. Quiet(RevokeAccess(t), RequestCancel(RevokeAccess(t)))
  BY <1>1, QuietMutations
<1> QED BY <1>1, <1>2, QuietTwice DEF Revoke

-----------------------------------------------------------------------------
(* One step.                                                                *)

\* The row changes under the hand of the newest claim only.
Fenced ==
  \A w \in Workers :
    worker[w].step # "idle" /\ worker'[w] # worker[w] /\ task' # task
      => worker[w].token = task.fencingToken

\* Nobody is sent to the provider.
NobodySent == \A w \in Workers : worker'[w].step = "submit" => worker[w].step = "submit"

NotBegun ==
  (task.cancelRequested \/ task.accessRevoked) /\ task.submissionState = "not_started"
    => task'.submissionState # "in_flight" /\ NobodySent

\* What an administrator has looked at, and what a decision does.
AdminLooks ==
  /\ task' = task
  /\ admin'.revision = task.statusRevision /\ admin'.attempt = task.submissionAttempt
AdminDecides ==
  /\ admin.revision = task.statusRevision
  /\ admin' = NoFile
  /\ task'.externalTaskID = admin.evidence
AdminStep == admin' = admin \/ AdminLooks \/ AdminDecides

SafeStep == Onward(task, task') /\ Fenced /\ NotBegun /\ AdminStep

\* A worker's transaction or call: it alone moves, and its writes carry the
\* token of the newest claim.
LEMMA WorkerMovesSafely ==
  ASSUME Typed, NEW w \in Workers, Quiet(task, task'), admin' = admin,
         task' # task /\ worker[w].step # "idle" => worker[w].token = task.fencingToken,
         \A v \in Workers : v # w => worker'[v] = worker[v],
         worker'[w].step = "submit" => worker[w].step = "submit"
  PROVE  SafeStep
BY DEF SafeStep, Fenced, NotBegun, NobodySent, AdminStep, Quiet

\* Everybody else leaves the workers alone.
LEMMA OthersMoveSafely ==
  ASSUME Typed, Quiet(task, task'), AdminStep, worker' = worker
  PROVE  SafeStep
BY DEF SafeStep, Fenced, NotBegun, NobodySent, Quiet

LEMMA Steered ==
  ASSUME Typed, NEW w \in Workers
  PROVE  /\ Stop(w) => /\ worker'[w].step = "idle"
                       /\ \A v \in Workers : v # w => worker'[v] = worker[v]
         /\ \A step : Goto(w, step) => /\ worker'[w].step = step
                                       /\ \A v \in Workers : v # w => worker'[v] = worker[v]
BY DEF Stop, Goto, Idle, Typed, TypeOK, WorkerState

LEMMA SaveSafe ==
  ASSUME Typed, NEW w \in Workers, NEW allowed, NEW row, NEW next,
         Save(w, allowed, row, next) \/ SaveAndStop(w, allowed, row),
         allowed => worker[w].token = task.fencingToken,
         Quiet(task, row), next # "submit"
  PROVE  SafeStep
<1>1. task' \in {task, row} /\ (task' # task => worker[w].token = task.fencingToken) /\ admin' = admin
  BY DEF Save, SaveAndStop
<1>2. Quiet(task, task')
  BY <1>1, QuietMutations DEF Typed, TypeOK
<1>3. /\ \A v \in Workers : v # w => worker'[v] = worker[v]
      /\ worker'[w].step # "submit"
  BY Steered DEF Save, SaveAndStop
<1> QED BY <1>1, <1>2, <1>3, WorkerMovesSafely

LEMMA FinalizeSafe ==
  ASSUME Typed, NEW w \in Workers, NEW next \in Statuses, Finalize(w, next)
  PROVE  SafeStep
<1>1. /\ task' \in {task, Settle(task, next)} /\ admin' = admin
      /\ task' # task => worker[w].token = task.fencingToken
  BY DEF Finalize, WorkerProof, ValidateLease
<1>2. Quiet(task, task')
  BY <1>1, QuietMutations DEF Typed, TypeOK
<1>3. /\ \A v \in Workers : v # w => worker'[v] = worker[v]
      /\ worker'[w].step # "submit"
  BY Steered DEF Finalize
<1> QED BY <1>1, <1>2, <1>3, WorkerMovesSafely

LEMMA ClaimSafe ==
  ASSUME Typed, NEW w \in Workers, NEW step, step # "submit", Claim(w, step)
  PROVE  SafeStep
<1>1. task' = AcquireLease(task) /\ admin' = admin /\ worker[w].step = "idle"
  BY DEF Claim
<1>2. worker' = [worker EXCEPT ![w] = Claimed(step)]
  BY DEF Claim, Claimed
<1>3. Claimed(step).step = step
  BY DEF Claimed, Idle
<1>4. /\ \A v \in Workers : v # w => worker'[v] = worker[v]
      /\ worker'[w].step # "submit"
  BY <1>2, <1>3 DEF Typed, TypeOK
<1>5. Quiet(task, task')
  BY <1>1, QuietMutations DEF Typed, TypeOK
<1> QED BY <1>1, <1>4, <1>5, WorkerMovesSafely

\* A call of the provider, or a decision on its answer, leaves the row alone.
LEMMA CallSafe ==
  ASSUME Typed, NEW w \in Workers, task' = task, admin' = admin,
         \A v \in Workers : v # w => worker'[v] = worker[v],
         worker'[w].step # "submit"
  PROVE  SafeStep
BY QuietMutations, WorkerMovesSafely DEF Typed, TypeOK

\* Each write is refused unless the lease of the newest claim is shown.
LEMMA Proofs ==
  ASSUME NEW token
  PROVE  /\ WorkerProof(task, token) => token = task.fencingToken
         /\ ValidateLease(task, token) => token = task.fencingToken
BY DEF WorkerProof, ValidateLease

\* Only Begin sends a worker to the provider, and it asks first whether the
\* owner has withdrawn.
LEMMA BeginSafe ==
  ASSUME Typed, NEW w \in Workers, Begin(w)
  PROVE  SafeStep
<1>1. CASE Save(w, MayBeginSubmission(task, worker[w].token), BeginSubmission(task), "submit")
  <2>1. CASE MayBeginSubmission(task, worker[w].token)
    <3>1. ~task.cancelRequested /\ ~task.accessRevoked /\ worker[w].token = task.fencingToken
      BY <2>1, Proofs DEF MayBeginSubmission
    <3>2. task' \in {task, BeginSubmission(task)} /\ admin' = admin
      BY <1>1 DEF Save
    <3>3. Onward(task, task')
      BY <3>2, QuietMutations DEF Quiet, Typed, TypeOK
    <3>4. \A v \in Workers : v # w => worker'[v] = worker[v]
      BY <1>1, Steered DEF Save
    <3> QED BY <3>1, <3>2, <3>3, <3>4 DEF SafeStep, Fenced, NotBegun, AdminStep
  <2>2. CASE ~MayBeginSubmission(task, worker[w].token)
    <3>1. task' = task /\ admin' = admin /\ Stop(w)
      BY <1>1, <2>2 DEF Save
    <3> QED BY <3>1, Steered, CallSafe
  <2> QED BY <2>1, <2>2
<1>2. CASE Save(w, WorkerProof(task, worker[w].token), task, "release")
  <2>1. Quiet(task, task)
    BY QuietMutations DEF Typed, TypeOK
  <2> QED BY <1>2, <2>1, Proofs, SaveSafe
<1> QED BY <1>1, <1>2 DEF Begin

LEMMA SubmissionSafe ==
  ASSUME Typed, NEW w \in Workers, Submission(w)
  PROVE  SafeStep
<1> DEFINE token == worker[w].token
<1>0. task \in TaskRow /\ worker[w].id \in Nat
  BY DEF Typed, TypeOK, WorkerState
<1>1. CASE ClaimSubmission(w)
  BY <1>1, ClaimSafe DEF ClaimSubmission
<1>2. CASE FinalizeCanceled(w) \/ FinalizeExhausted(w)
  BY <1>2, FinalizeSafe DEF FinalizeCanceled, FinalizeExhausted, Statuses, Terminal, WithoutOutput
<1>3. CASE SubmitAccepted(w)
  <2>1. /\ task' = task /\ admin' = admin
        /\ worker' = [worker EXCEPT ![w].step = "record", ![w].id = Len(remote) + 1]
    BY <1>3 DEF SubmitAccepted
  <2>2. /\ \A v \in Workers : v # w => worker'[v] = worker[v]
        /\ worker'[w].step = "record"
    BY <2>1 DEF Typed, TypeOK, WorkerState
  <2> QED BY <2>1, <2>2, CallSafe
<1>4. CASE SubmitRefused(w) \/ SubmitLost(w)
  BY <1>4, Steered, CallSafe DEF SubmitRefused, SubmitLost
<1>5. CASE MarkUnknown(w)
  <2>1. PICK next \in {"reconcile", "release"} :
          Save(w, MayMarkSubmissionUnknown(task, token), MarkSubmissionUnknown(task), next)
    BY <1>5 DEF MarkUnknown
  <2> QED BY <1>0, <2>1, QuietMutations, Proofs, SaveSafe DEF MayMarkSubmissionUnknown
<1>6. CASE Reconcile(w)
  BY <1>0, <1>6, QuietMutations, Proofs, SaveSafe DEF Reconcile, MayReconcileNotAccepted
<1>7. CASE Schedule(w)
  <2>1. PICK row \in {task, ScheduleRetry(task)}, next \in {"release", "exhausted"} :
          Save(w, MayScheduleRetry(task, token), row, next)
    BY <1>7 DEF Schedule
  <2>2. Quiet(task, row)
    BY <1>0, <2>1, QuietMutations
  <2> QED BY <2>1, <2>2, Proofs, SaveSafe DEF MayScheduleRetry
<1>8. CASE Record(w)
  BY <1>0, <1>8, QuietMutations, Proofs, SaveSafe DEF Record, MayRecordExternalTaskID
<1>9. CASE Begin(w)
  BY <1>9, BeginSafe
<1> QED BY <1>1, <1>2, <1>3, <1>4, <1>5, <1>6, <1>7, <1>8, <1>9 DEF Submission

LEMMA OtherQueuesSafe ==
  ASSUME Typed, NEW w \in Workers, Observation(w) \/ Result(w) \/ Release(w) \/ ReleaseRetry(w)
  PROVE  SafeStep
<1> DEFINE token == worker[w].token
<1>0. task \in TaskRow
  BY DEF Typed, TypeOK
<1>1. CASE ClaimObservation(w) \/ ClaimResult(w)
  BY <1>1, ClaimSafe DEF ClaimObservation, ClaimResult
<1>2. CASE Query(w)
  <2>1. task' = task /\ admin' = admin
    BY <1>2 DEF Query
  <2>2. Goto(w, "cancelRemote") \/ React(w, remote[task.externalTaskID])
    BY <1>2 DEF Query
  <2>3. /\ \A v \in Workers : v # w => worker'[v] = worker[v]
        /\ worker'[w].step # "submit"
    BY <2>2, Steered DEF React, Typed, TypeOK, WorkerState
  <2> QED BY <2>1, <2>3, CallSafe
<1>3. CASE CancelRemote(w) \/ Fetch(w)
  <2>1. PICK step \in {"requery", "cancel", "publish"} : Goto(w, step)
    BY <1>3 DEF CancelRemote, Fetch
  <2>2. task' = task /\ admin' = admin
    BY <1>3 DEF CancelRemote, Fetch
  <2> QED BY <2>1, <2>2, Steered, CallSafe
<1>4. CASE Apply(w)
  <2>1. PICK state \in {"running", "validating"}, next \in {"release", "releaseRetry"} :
          Save(w, MayApplyProviderState(task, token, task.externalTaskID, state),
               ApplyProviderState(task, state), next)
    BY <1>4 DEF Apply
  <2>2. Quiet(task, ApplyProviderState(task, state))
    BY <1>0, <2>1, QuietMutations DEF Statuses, Active
  <2> QED BY <2>1, <2>2, Proofs, SaveSafe DEF MayApplyProviderState
<1>5. CASE SettleRemote(w)
  <2>1. worker[w].reply \in Statuses /\ Finalize(w, worker[w].reply)
    BY <1>5 DEF SettleRemote, Typed, References, Statuses, Terminal
  <2> QED BY <2>1, FinalizeSafe
<1>6. CASE Publish(w)
  <2>1. CASE MayPublishOutput(task, token, hold) /\ ~overdue
    <3>1. task' = Settle(task, "succeeded") /\ Stop(w) /\ admin' = admin
      BY <1>6, <2>1 DEF Publish
    <3>2. Quiet(task, task')
      BY <1>0, <3>1, QuietMutations DEF Statuses, Terminal
    <3>3. token = task.fencingToken
      BY <2>1, Proofs DEF MayPublishOutput
    <3>4. /\ \A v \in Workers : v # w => worker'[v] = worker[v]
          /\ worker'[w].step # "submit"
      BY <3>1, Steered
    <3> QED BY <3>1, <3>2, <3>3, <3>4, WorkerMovesSafely
  <2>2. CASE ~(MayPublishOutput(task, token, hold) /\ ~overdue)
    BY <1>6, <2>2, Steered, CallSafe DEF Publish
  <2> QED BY <2>1, <2>2
<1>7. CASE Release(w)
  BY <1>0, <1>7, QuietMutations, Proofs, SaveSafe DEF Release
<1>8. CASE ReleaseRetry(w)
  BY <1>0, <1>8, QuietMutations, Proofs, SaveSafe DEF ReleaseRetry, MayReleaseForRetry
<1> QED BY <1>1, <1>2, <1>3, <1>4, <1>5, <1>6, <1>7, <1>8 DEF Observation, Result

LEMMA OthersSafe ==
  ASSUME Typed, Cancel \/ Delete \/ Expire \/ Inspect \/ ReconcileAccepted \/ ReconcileRefused
  PROVE  SafeStep
<1>0. task \in TaskRow /\ worker' = worker /\ {"canceled", "failed", "expired"} \subseteq Statuses
  BY DEF Typed, TypeOK, Cancel, Delete, Expire, Inspect, ReconcileAccepted, ReconcileRefused,
         Statuses, Terminal, WithoutOutput
<1>1. CASE Cancel
  <2>1. Quiet(task, RequestCancel(task)) /\ RequestCancel(task) \in TaskRow
    BY <1>0, QuietMutations DEF Quiet, Onward
  <2>2. Quiet(task, Settle(RequestCancel(task), "canceled"))
    BY <1>0, <2>1, QuietMutations, QuietTwice
  <2>3. Quiet(task, [RequestCancel(task) EXCEPT !.retryPending = task.retryPending])
    BY <1>0, <2>1 DEF Quiet, Onward, TaskRow
  <2>4. Quiet(task, task') /\ AdminStep
    BY <1>1, <2>2, <2>3 DEF Cancel, AdminStep
  <2> QED BY <1>0, <2>4, OthersMoveSafely
<1>2. CASE Delete
  <2>1. Quiet(task, Revoke(task)) /\ Revoke(task) \in TaskRow
    BY <1>0, QuietRevoke DEF Quiet, Onward
  <2>2. Quiet(task, Settle(Revoke(task), "canceled"))
    BY <1>0, <2>1, QuietMutations, QuietTwice
  <2>3. Quiet(task, task') /\ AdminStep
    BY <1>2, <2>1, <2>2 DEF Delete, AdminStep
  <2> QED BY <1>0, <2>3, OthersMoveSafely
<1>3. CASE Expire
  <2>1. Quiet(task, Settle(task, "expired")) /\ Settle(task, "expired") \in TaskRow
    BY <1>0, QuietMutations DEF Quiet, Onward
  <2>2. Quiet(task, Revoke(Settle(task, "expired")))
    BY <1>0, <2>1, QuietRevoke, QuietTwice
  <2>3. Quiet(task, task') /\ AdminStep
    BY <1>3, <2>2 DEF Expire, AdminStep
  <2> QED BY <1>0, <2>3, OthersMoveSafely
<1>4. CASE Inspect
  <2>1. Quiet(task, task') /\ AdminStep
    BY <1>0, <1>4, QuietMutations DEF Inspect, AdminStep, AdminLooks
  <2> QED BY <1>0, <2>1, OthersMoveSafely
<1>5. Quiet(task, AcquireLease(task)) /\ AcquireLease(task) \in TaskRow
  BY <1>0, QuietMutations DEF Quiet, Onward
<1>6. CASE ReconcileAccepted
  <2> DEFINE claimed  == AcquireLease(task)
             recorded == RecordExternalTaskID(claimed, admin.evidence)
  <2>1. admin.evidence \in Nat /\ task.externalTaskID = 0 /\ admin.revision = task.statusRevision
    BY <1>6 DEF ReconcileAccepted, MayReconcile, Typed, TypeOK
  <2>2. Quiet(task, recorded) /\ recorded \in TaskRow
    <3>1. Quiet(claimed, recorded)
      BY <1>5, <2>1, QuietMutations
    <3>2. recorded \in TaskRow
      BY <3>1 DEF Quiet, Onward
    <3> QED BY <1>0, <1>5, <3>1, <3>2, QuietTwice
  <2>3. Quiet(task, ReleaseLease(recorded))
    BY <1>0, <2>2, QuietMutations, QuietTwice
  <2>4. ReleaseLease(recorded).externalTaskID = admin.evidence
    <3>1. Core(claimed)[3] = 0
      BY <1>0, <2>1, CoreOfMutations
    <3>2. claimed.externalTaskID = 0
      BY <3>1 DEF Core
    <3>3. Core(ReleaseLease(recorded)) = Core(recorded) /\ Core(recorded)[3] = admin.evidence
      BY <1>5, <2>1, <2>2, <3>2, CoreOfMutations
    <3> QED BY <3>3 DEF Core
  <2>5. task' = ReleaseLease(recorded) /\ admin' = NoFile
    BY <1>6 DEF ReconcileAccepted
  <2> HIDE DEF recorded
  <2>6. Quiet(task, task') /\ AdminStep
    BY <2>1, <2>3, <2>4, <2>5 DEF AdminStep, AdminDecides
  <2> QED BY <1>0, <2>6, OthersMoveSafely
<1>7. CASE ReconcileRefused
  <2> DEFINE claimed == AcquireLease(task)
             refused == ReconcileNotAccepted(claimed)
  <2>1. /\ admin.evidence = 0 /\ task.externalTaskID = 0 /\ admin.revision = task.statusRevision
        /\ admin' = NoFile
    BY <1>7 DEF ReconcileRefused, MayReconcile
  <2>2. PICK next \in {"canceled", "failed"} : task' = Settle(refused, next)
    BY <1>7 DEF ReconcileRefused
  <2>3. Quiet(task, refused) /\ refused \in TaskRow
    BY <1>0, <1>5, QuietMutations, QuietTwice DEF Quiet, Onward
  <2>4. Quiet(task, Settle(refused, next))
    BY <1>0, <2>2, <2>3, QuietMutations, QuietTwice
  <2>5. Settle(refused, next).externalTaskID = 0
    <3>1. Core(claimed)[3] = 0
      BY <1>0, <2>1, CoreOfMutations
    <3>2. claimed.externalTaskID = 0
      BY <3>1 DEF Core
    <3>3. Core(refused)[3] = 0
      BY <1>5, <3>2, CoreOfMutations
    <3>4. refused.externalTaskID = 0
      BY <3>3 DEF Core
    <3>5. Core(Settle(refused, next))[3] = 0
      BY <1>0, <2>2, <2>3, <3>4, CoreOfMutations
    <3> QED BY <3>5 DEF Core
  <2> HIDE DEF refused
  <2>6. Quiet(task, task') /\ AdminStep
    BY <2>1, <2>2, <2>4, <2>5 DEF AdminStep, AdminDecides
  <2> QED BY <1>0, <2>6, OthersMoveSafely
<1> QED BY <1>1, <1>2, <1>3, <1>4, <1>6, <1>7

LEMMA EnvironmentSafe ==
  ASSUME Typed, Environment
  PROVE  SafeStep
<1>0. task \in TaskRow /\ Quiet(task, task)
  BY QuietMutations DEF Typed, TypeOK
<1>1. CASE LeaseLapses \/ RetryDue
  <2>1. Quiet(task, [task EXCEPT !.lease = "lapsed"]) /\ Quiet(task, [task EXCEPT !.retryPending = FALSE])
    BY <1>0 DEF Quiet, Onward, TaskRow, LeaseStates
  <2>2. Quiet(task, task') /\ AdminStep /\ worker' = worker
    BY <1>1, <2>1 DEF LeaseLapses, RetryDue, AdminStep
  <2> QED BY <2>2, OthersMoveSafely
<1>2. CASE Deadline \/ LateAcceptance \/ ProviderStep
  <2>1. Quiet(task, task') /\ AdminStep /\ worker' = worker
    BY <1>0, <1>2 DEF Deadline, LateAcceptance, ProviderStep, AdminStep
  <2> QED BY <2>1, OthersMoveSafely
<1>3. ASSUME NEW w \in Workers, Crash(w) \/ CallFails(w) PROVE SafeStep
  <2>1. task' = task /\ admin' = admin /\ (Stop(w) \/ Goto(w, "releaseRetry"))
    BY <1>3 DEF Crash, CallFails
  <2> QED BY <2>1, Steered, CallSafe
<1> QED BY <1>1, <1>2, <1>3 DEF Environment

LEMMA EveryStepSafe ==
  ASSUME Typed, [Next]_vars
  PROVE  SafeStep
<1>1. CASE UNCHANGED vars
  <2>1. Quiet(task, task') /\ AdminStep /\ worker' = worker
    BY <1>1, QuietMutations DEF vars, AdminStep, Typed, TypeOK
  <2> QED BY <2>1, OthersMoveSafely
<1> QED BY <1>1, SubmissionSafe, OtherQueuesSafe, OthersSafe, EnvironmentSafe DEF Next, WorkerStep

-----------------------------------------------------------------------------
(* The theorems *)

\* What the administrator looked at is about the attempt of that revision.
FileInv ==
  /\ task.statusRevision > 0
  /\ admin.revision <= task.statusRevision
  /\ admin.revision = task.statusRevision => admin.attempt = task.submissionAttempt

FencingInv == Typed /\ FileInv

THEOREM FencingInductive == Spec => []FencingInv
<1>1. Init => FencingInv
  BY InitTyped DEF Init, NewTask, NoFile, FencingInv, FileInv
<1>2. FencingInv /\ [Next]_vars => FencingInv'
  <2> SUFFICES ASSUME FencingInv, [Next]_vars PROVE FencingInv'
    OBVIOUS
  <2>1. Typed' /\ SafeStep /\ Typed
    BY StepTyped, EveryStepSafe DEF FencingInv
  <2>2. /\ {task.statusRevision, task'.statusRevision, admin.revision} \subseteq Nat
        /\ Onward(task, task')
    BY <2>1 DEF SafeStep, Typed, TypeOK, TaskRow
  <2>3. FileInv'
    <3>1. CASE admin' = admin
      BY <2>2, <3>1 DEF FencingInv, FileInv, Onward
    <3>2. CASE AdminLooks
      BY <2>2, <3>2 DEF FencingInv, FileInv, AdminLooks
    <3>3. CASE AdminDecides
      BY <2>2, <3>3 DEF FencingInv, FileInv, AdminDecides, NoFile, Onward
    <3> QED BY <2>1, <3>1, <3>2, <3>3 DEF SafeStep, AdminStep
  <2> QED BY <2>1, <2>3 DEF FencingInv
<1> QED BY <1>1, <1>2, PTL DEF Spec

\* Only the holder of the newest claim changes the row, however many workers
\* were outlived by their leases.
THEOREM StaleWorkerChangesNothingAlways == Spec => StaleWorkerChangesNothing
<1>1. FencingInv /\ [Next]_vars =>
        [ \A w \in Workers :
            worker[w].step # "idle" /\ worker'[w] # worker[w] /\ task' # task
              => worker[w].token = task.fencingToken ]_vars
  BY EveryStepSafe DEF FencingInv, SafeStep, Fenced
<1> QED BY <1>1, FencingInductive, PTL DEF Spec, StaleWorkerChangesNothing

\* A task that was cancelled or deleted before it was submitted never is.
THEOREM CanceledIsNeverSubmittedAlways == Spec => CanceledIsNeverSubmitted
<1>1. FencingInv /\ [Next]_vars =>
        [ /\ task.cancelRequested \/ task.accessRevoked
          /\ task.submissionState = "not_started"
          => /\ task'.submissionState # "in_flight"
             /\ \A w \in Workers : worker'[w].step = "submit" => worker[w].step = "submit" ]_vars
  BY EveryStepSafe DEF FencingInv, SafeStep, NotBegun, NobodySent
<1> QED BY <1>1, FencingInductive, PTL DEF Spec, CanceledIsNeverSubmitted

\* A decision about an unknown submission is about the attempt whose evidence
\* was looked at.
THEOREM ReconciledOnCurrentEvidenceAlways == Spec => ReconciledOnCurrentEvidence
<1>1. FencingInv /\ [Next]_vars =>
        [ admin # NoFile /\ admin' = NoFile =>
            /\ admin.attempt = task.submissionAttempt
            /\ task'.externalTaskID = admin.evidence ]_vars
  <2> SUFFICES ASSUME FencingInv, [Next]_vars, admin # NoFile, admin' = NoFile
               PROVE  /\ admin.attempt = task.submissionAttempt
                      /\ task'.externalTaskID = admin.evidence
    OBVIOUS
  <2>1. SafeStep
    BY EveryStepSafe DEF FencingInv
  <2>2. ~AdminLooks
    BY DEF AdminLooks, NoFile, FencingInv, FileInv
  <2> QED BY <2>1, <2>2 DEF SafeStep, AdminStep, AdminDecides, FencingInv, FileInv
<1> QED BY <1>1, FencingInductive, PTL DEF Spec, ReconciledOnCurrentEvidence

-----------------------------------------------------------------------------
(* The inductive invariant.  A worker has a request in hand from the       *)
(* moment BeginSubmission commits until the row says what became of it;    *)
(* the row alone does not say who that worker is, because its lease may    *)
(* lapse while the provider call runs.                                     *)

Hand == {"submit", "refused", "reconcile"}

NotStarted == task.status \in Active /\ task.submissionState = "not_started"

NothingOutside == remote = <<>> /\ travelling = 0

OneRequest ==
  /\ AtMostOneRemoteTask
  /\ \A w \in Workers : worker[w].step \in Hand => NothingOutside
  /\ \A v, w \in Workers : worker[v].step \in Hand /\ worker[w].step \in Hand => v = w
  /\ NotStarted => NothingOutside /\ \A w \in Workers : worker[w].step \notin Hand

\* What one step may do to the status and the hold: the status changes within
\* the active ones, or an active task and its hold are settled together.
StatusStep ==
  \/ /\ hold' = hold
     /\ task'.status = task.status \/ {task.status, task'.status} \subseteq Active
  \/ /\ hold = "reserved" /\ task.status \in Active
     /\ \/ hold' = "released" /\ task'.status \in WithoutOutput
        \/ hold' = "consumed" /\ task'.status = "succeeded"

\* No worker gets hold of a request by the step.
HandsOff == \A v \in Workers : worker'[v].step \in Hand => worker[v].step \in Hand

\* A row the current one may become without being settled or made ready for
\* another submission.
SameStage(row) ==
  /\ row.status = task.status \/ {task.status, row.status} \subseteq Active
  /\ row.submissionState = "not_started" => task.submissionState = "not_started"

LEMMA QuietStep ==
  ASSUME Typed, OneRequest, HandsOff, NEW row, SameStage(row), task' \in {task, row},
         hold' = hold, UNCHANGED <<remote, travelling>>
  PROVE  StatusStep /\ OneRequest'
<1>1. StatusStep
  BY DEF StatusStep, SameStage
<1>2. NotStarted' => NotStarted
  BY DEF NotStarted, SameStage
<1>3. AtMostOneRemoteTask' = AtMostOneRemoteTask /\ NothingOutside' = NothingOutside
  BY DEF AtMostOneRemoteTask, NothingOutside
<1> QED BY <1>1, <1>2, <1>3 DEF OneRequest, HandsOff

LEMMA SettlingStep ==
  ASSUME Typed, OneRequest, HandsOff, hold = "reserved", task.status \in Active,
         \/ hold' = "released" /\ task'.status \in WithoutOutput
         \/ hold' = "consumed" /\ task'.status = "succeeded",
         UNCHANGED <<remote, travelling>>
  PROVE  StatusStep /\ OneRequest'
<1>1. StatusStep
  BY DEF StatusStep
<1>2. ~NotStarted'
  BY DEF NotStarted, Active, WithoutOutput
<1>3. AtMostOneRemoteTask' = AtMostOneRemoteTask /\ NothingOutside' = NothingOutside
  BY DEF AtMostOneRemoteTask, NothingOutside
<1> QED BY <1>1, <1>2, <1>3 DEF OneRequest, HandsOff

LEMMA SameStageRows ==
  ASSUME Typed
  PROVE  /\ SameStage(task) /\ SameStage(ReleaseLease(task)) /\ SameStage(ReleaseForRetry(task))
         /\ SameStage(ScheduleRetry(task)) /\ SameStage(RequestCancel(task))
         /\ SameStage(RevokeAccess(task)) /\ SameStage(MarkSubmissionUnknown(task))
         /\ \A id \in Nat : SameStage(RecordExternalTaskID(task, id))
         /\ task.status \in Active => SameStage(AcquireLease(task))
<1>1. task \in TaskRow
  BY DEF Typed, TypeOK
<1>2. ASSUME NEW row, Core(row) = Core(task) PROVE SameStage(row)
  BY <1>2 DEF Core, SameStage
<1>3. SameStage(MarkSubmissionUnknown(task))
  BY <1>1, CoreOfMutations DEF Core, SameStage
<1>4. ASSUME NEW id \in Nat PROVE SameStage(RecordExternalTaskID(task, id))
  <2>1. Core(RecordExternalTaskID(task, id)) =
          IF task.externalTaskID = 0 THEN <<task.status, "accepted", id>> ELSE Core(task)
    BY <1>1, CoreOfMutations
  <2> QED BY <2>1 DEF Core, SameStage
<1>5. ASSUME task.status \in Active PROVE SameStage(AcquireLease(task))
  <2>1. Core(AcquireLease(task)) = <<IF task.status = "queued" THEN "running" ELSE task.status,
                                     task.submissionState, task.externalTaskID>>
    BY <1>1, CoreOfMutations
  <2> QED BY <1>5, <2>1 DEF Core, SameStage, Active
<1> QED BY <1>1, <1>2, <1>3, <1>4, <1>5, CoreOfMutations

LEMMA SettledRow ==
  ASSUME NEW row \in TaskRow, NEW next \in Statuses
  PROVE  Settle(row, next).status = next
<1>1. Core(Settle(row, next)) = <<next, row.submissionState, row.externalTaskID>>
  BY CoreOfMutations
<1> QED BY <1>1 DEF Core

LEMMA WorkerLetsGo ==
  ASSUME Typed, NEW w \in Workers
  PROVE  /\ Stop(w) => HandsOff
         /\ \A step : Goto(w, step) /\ (step \in Hand => worker[w].step \in Hand) => HandsOff
<1>1. ASSUME Stop(w) PROVE HandsOff
  BY <1>1 DEF Stop, HandsOff, Idle, Hand, Typed, TypeOK
<1>2. ASSUME NEW step, Goto(w, step), step \in Hand => worker[w].step \in Hand PROVE HandsOff
  BY <1>2 DEF Goto, HandsOff, Typed, TypeOK, WorkerState
<1> QED BY <1>1, <1>2

\* Every settlement goes through Finalize or Settle on a reserved hold.
LEMMA FinalizeStep ==
  ASSUME Typed, OneRequest, NEW w \in Workers, NEW next \in WithoutOutput, Finalize(w, next)
  PROVE  StatusStep /\ OneRequest'
<1>1. HandsOff /\ UNCHANGED <<remote, travelling>>
  BY DEF Finalize, Stop, HandsOff, Idle, Hand, Typed, TypeOK
<1>2. CASE task' = task /\ hold' = hold
  BY <1>1, <1>2, SameStageRows, QuietStep
<1>3. CASE MayFinalize(task, hold, next) /\ task' = Settle(task, next) /\ hold' = "released"
  <2>1. task'.status = next
    BY <1>3, SettledRow DEF Typed, TypeOK, Statuses, Terminal
  <2> QED BY <1>1, <1>3, <2>1, SettlingStep DEF MayFinalize
<1> QED BY <1>2, <1>3 DEF Finalize

\* The worker that had the request in hand gives it up: whatever became of it
\* is the only thing outside, because there was nothing before.
LEMMA RequestResolved ==
  ASSUME Typed, OneRequest, NEW w \in Workers, worker[w].step \in Hand, RequestFate,
         UNCHANGED <<task, hold>>, worker'[w].step \notin Hand,
         \A v \in Workers : worker'[v].step = IF v = w THEN worker'[w].step ELSE worker[v].step
  PROVE  StatusStep /\ OneRequest'
<1>1. NothingOutside /\ ~NotStarted /\ \A v \in Workers : worker[v].step \in Hand => v = w
  BY DEF OneRequest
<1>2. AtMostOneRemoteTask'
  <2>1. Len(<<>>) = 0 /\ Len(Append(<<>>, "running")) = 1
    OBVIOUS
  <2> QED BY <1>1, <2>1 DEF NothingOutside, RequestFate, AtMostOneRemoteTask
<1>3. \A v \in Workers : worker'[v].step \notin Hand
  BY <1>1
<1>4. ~NotStarted' /\ StatusStep
  BY <1>1 DEF NotStarted, StatusStep
<1> QED BY <1>2, <1>3, <1>4 DEF OneRequest

\* A step of the provider on the tasks it has.
LEMMA RemoteMoved ==
  ASSUME Typed, OneRequest, HandsOff, UNCHANGED <<task, hold, travelling>>,
         Len(remote') = Len(remote), remote = <<>> => remote' = <<>>
  PROVE  StatusStep /\ OneRequest'
<1>1. StatusStep /\ (NotStarted' <=> NotStarted)
  BY DEF StatusStep, NotStarted
<1>2. AtMostOneRemoteTask' /\ (NothingOutside => NothingOutside')
  BY DEF OneRequest, AtMostOneRemoteTask, NothingOutside
<1> QED BY <1>1, <1>2 DEF OneRequest, HandsOff

-----------------------------------------------------------------------------
(* One lemma per queue *)

LEMMA ClaimStep ==
  ASSUME Typed, OneRequest, NEW w \in Workers, NEW step \in Steps \ Hand, Claim(w, step)
  PROVE  StatusStep /\ OneRequest'
<1>1. /\ task' = AcquireLease(task) /\ task.status \in Active
      /\ UNCHANGED <<hold, remote, travelling>>
  BY DEF Claim, MayAcquireLease
<1>2. HandsOff
  BY DEF Claim, HandsOff, Typed, TypeOK, Idle
<1> QED BY <1>1, <1>2, SameStageRows, QuietStep

LEMMA SubmissionStep ==
  ASSUME Typed, OneRequest, NEW w \in Workers, Submission(w)
  PROVE  StatusStep /\ OneRequest'
<1>1. ASSUME ClaimSubmission(w) PROVE StatusStep /\ OneRequest'
  <2>1. \E step \in Steps \ Hand : Claim(w, step)
    BY <1>1 DEF ClaimSubmission, Steps, SubmissionSteps, Hand
  <2> QED BY <2>1, ClaimStep
<1>2. ASSUME FinalizeCanceled(w) \/ FinalizeExhausted(w) PROVE StatusStep /\ OneRequest'
  BY <1>2, FinalizeStep DEF FinalizeCanceled, FinalizeExhausted, WithoutOutput
<1>3. ASSUME Begin(w) PROVE StatusStep /\ OneRequest'
  <2>1. CASE HandsOff
    <3>1. task' \in {task, BeginSubmission(task)} /\ UNCHANGED <<hold, remote, travelling>>
      BY <1>3 DEF Begin, Save
    <3>2. SameStage(BeginSubmission(task))
      BY CoreOfMutations DEF Core, SameStage, Typed, TypeOK
    <3> QED BY <2>1, <3>1, <3>2, QuietStep
  <2>2. CASE ~HandsOff
    <3>1. /\ MayBeginSubmission(task, worker[w].token) /\ task' = BeginSubmission(task)
          /\ Goto(w, "submit") /\ UNCHANGED <<hold, remote, travelling>>
      <4>1. ~Stop(w) /\ ~Goto(w, "release")
        BY <2>2, WorkerLetsGo DEF Hand
      <4> QED BY <1>3, <4>1 DEF Begin, Save
    <3>2. NotStarted /\ NothingOutside /\ \A v \in Workers : worker[v].step \notin Hand
      BY <3>1 DEF MayBeginSubmission, NotStarted, Active, OneRequest
    <3>3. task'.status = task.status /\ task'.submissionState = "in_flight"
      BY <3>1, CoreOfMutations DEF Core, Typed, TypeOK
    <3>4. \A v \in Workers : worker'[v].step \in Hand => v = w
      BY <3>1, <3>2 DEF Goto, Typed, TypeOK
    <3>5. ~NotStarted' /\ NothingOutside' /\ AtMostOneRemoteTask'
      BY <3>1, <3>2, <3>3 DEF NotStarted, NothingOutside, AtMostOneRemoteTask
    <3> QED BY <3>1, <3>3, <3>4, <3>5 DEF OneRequest, StatusStep
  <2> QED BY <2>1, <2>2
<1>4. ASSUME MarkUnknown(w) PROVE StatusStep /\ OneRequest'
  <2>1. task' \in {task, MarkSubmissionUnknown(task)} /\ UNCHANGED <<hold, remote, travelling>>
    BY <1>4 DEF MarkUnknown, Save
  <2>2. HandsOff
    BY <1>4, WorkerLetsGo DEF MarkUnknown, Save, Hand
  <2> QED BY <2>1, <2>2, SameStageRows, QuietStep
<1>5. ASSUME Reconcile(w) PROVE StatusStep /\ OneRequest'
  <2>1. /\ worker[w].step \in Hand
        /\ task' \in {task, ReconcileNotAccepted(task)} /\ UNCHANGED <<hold, remote, travelling>>
        /\ Stop(w) \/ Goto(w, "schedule")
    BY <1>5 DEF Reconcile, Save, Hand
  <2>2. NothingOutside /\ \A v \in Workers : worker[v].step \in Hand => v = w
    BY <2>1 DEF OneRequest
  <2>3. \A v \in Workers : worker'[v].step \notin Hand
    BY <2>1, <2>2 DEF Stop, Goto, Idle, Hand, Typed, TypeOK, WorkerState
  <2>4. task'.status = task.status
    <3>1. Core(ReconcileNotAccepted(task)) = <<task.status, "not_started", task.externalTaskID>>
      BY CoreOfMutations DEF Typed, TypeOK
    <3> QED BY <2>1, <3>1 DEF Core
  <2>5. NothingOutside' /\ AtMostOneRemoteTask'
    BY <2>1, <2>2 DEF NothingOutside, AtMostOneRemoteTask
  <2> QED BY <2>1, <2>3, <2>4, <2>5 DEF StatusStep, OneRequest
<1>6. ASSUME Schedule(w) PROVE StatusStep /\ OneRequest'
  <2>1. task' \in {task, ScheduleRetry(task)} /\ UNCHANGED <<hold, remote, travelling>>
    BY <1>6 DEF Schedule, Save
  <2>2. HandsOff
    BY <1>6, WorkerLetsGo DEF Schedule, Save, Hand
  <2> QED BY <2>1, <2>2, SameStageRows, QuietStep
<1>7. ASSUME Record(w) PROVE StatusStep /\ OneRequest'
  <2> DEFINE id == worker[w].id
  <2>1. task' \in {task, RecordExternalTaskID(task, id)} /\ UNCHANGED <<hold, remote, travelling>>
    BY <1>7 DEF Record, Save
  <2>2. id \in Nat
    BY DEF Typed, TypeOK, WorkerState
  <2>3. HandsOff
    BY <1>7, WorkerLetsGo DEF Record, Save, Hand
  <2> QED BY <2>1, <2>2, <2>3, SameStageRows, QuietStep
<1>8. ASSUME SubmitRefused(w) PROVE StatusStep /\ OneRequest'
  <2>1. HandsOff /\ UNCHANGED <<task, hold, remote, travelling>>
    BY <1>8, WorkerLetsGo DEF SubmitRefused, Hand
  <2> QED BY <2>1, SameStageRows, QuietStep
<1>9. ASSUME SubmitAccepted(w) \/ SubmitLost(w) PROVE StatusStep /\ OneRequest'
  <2>1. worker[w].step \in Hand /\ UNCHANGED <<task, hold>>
    BY <1>9 DEF SubmitAccepted, SubmitLost, Hand
  <2>2. \A v \in Workers : worker'[v].step = IF v = w THEN worker'[w].step ELSE worker[v].step
    BY <1>9 DEF SubmitAccepted, SubmitLost, Goto, Typed, TypeOK
  <2>3. worker'[w].step \notin Hand
    BY <1>9 DEF SubmitAccepted, SubmitLost, Goto, Hand, Typed, TypeOK, WorkerState
  <2>4. RequestFate
    BY <1>9 DEF SubmitAccepted, SubmitLost, RequestFate
  <2> QED BY <2>1, <2>2, <2>3, <2>4, RequestResolved
<1> QED BY <1>1, <1>2, <1>3, <1>4, <1>5, <1>6, <1>7, <1>8, <1>9 DEF Submission

LEMMA ObservationStep ==
  ASSUME Typed, OneRequest, NEW w \in Workers, Observation(w)
  PROVE  StatusStep /\ OneRequest'
<1>1. ASSUME ClaimObservation(w) PROVE StatusStep /\ OneRequest'
  BY <1>1, ClaimStep DEF ClaimObservation, Steps, ObservationSteps, Hand
<1>2. ASSUME Query(w) PROVE StatusStep /\ OneRequest'
  <2>1. HandsOff
    <3>1. Goto(w, "cancelRemote") => HandsOff
      BY WorkerLetsGo DEF Hand
    <3>2. ASSUME NEW state, React(w, state) PROVE HandsOff
      BY <3>2 DEF React, HandsOff, Hand, Typed, TypeOK, WorkerState
    <3> QED BY <1>2, <3>1, <3>2 DEF Query
  <2>2. UNCHANGED <<task, hold, remote, travelling>>
    BY <1>2 DEF Query
  <2> QED BY <2>1, <2>2, SameStageRows, QuietStep
<1>3. ASSUME CancelRemote(w) PROVE StatusStep /\ OneRequest'
  <2>1. HandsOff /\ UNCHANGED <<task, hold, travelling>>
    BY <1>3, WorkerLetsGo DEF CancelRemote, Hand
  <2>2. Len(remote') = Len(remote) /\ (remote = <<>> => remote' = <<>>)
    <3>1. task.externalTaskID \in DOMAIN remote
      BY <1>3, ObservedState DEF CancelRemote, Typed, References
    <3> QED BY <1>3, <3>1 DEF CancelRemote, Typed, TypeOK
  <2> QED BY <2>1, <2>2, RemoteMoved
<1>4. ASSUME Apply(w) PROVE StatusStep /\ OneRequest'
  <2>1. HandsOff /\ UNCHANGED <<hold, remote, travelling>>
    BY <1>4, WorkerLetsGo DEF Apply, Save, Hand
  <2>2. ASSUME NEW next \in {"running", "validating"}, task' = ApplyProviderState(task, next),
               MayApplyProviderState(task, worker[w].token, task.externalTaskID, next)
        PROVE  SameStage(task')
    <3>1. Core(task') = <<next, task.submissionState, task.externalTaskID>>
      BY <2>2, CoreOfMutations DEF Typed, TypeOK, Statuses, Active
    <3>2. task.status = next \/ task.status \in Active
      BY <2>2 DEF MayApplyProviderState, CanTransitionTo, Active
    <3> QED BY <2>2, <3>1, <3>2 DEF Core, SameStage, Active
  <2>3. SameStage(task')
    BY <1>4, <2>2, SameStageRows DEF Apply, Save
  <2> QED BY <2>1, <2>3, QuietStep
<1>5. ASSUME SettleRemote(w) PROVE StatusStep /\ OneRequest'
  BY <1>5, FinalizeStep DEF SettleRemote, Typed, References
<1> QED BY <1>1, <1>2, <1>3, <1>4, <1>5 DEF Observation

LEMMA ResultStep ==
  ASSUME Typed, OneRequest, NEW w \in Workers, Result(w) \/ Release(w) \/ ReleaseRetry(w)
  PROVE  StatusStep /\ OneRequest'
<1>1. ASSUME ClaimResult(w) PROVE StatusStep /\ OneRequest'
  BY <1>1, ClaimStep DEF ClaimResult, Steps, ResultSteps, Hand
<1>2. ASSUME Fetch(w) PROVE StatusStep /\ OneRequest'
  <2>1. HandsOff /\ UNCHANGED <<task, hold, remote, travelling>>
    BY <1>2, WorkerLetsGo DEF Fetch, Hand
  <2> QED BY <2>1, SameStageRows, QuietStep
<1>3. ASSUME Publish(w) PROVE StatusStep /\ OneRequest'
  <2>1. HandsOff /\ UNCHANGED <<remote, travelling>>
    BY <1>3, WorkerLetsGo DEF Publish, Hand
  <2>2. CASE task' = task /\ hold' = hold
    BY <2>1, <2>2, SameStageRows, QuietStep
  <2>3. CASE MayPublishOutput(task, worker[w].token, hold) /\ task' = Settle(task, "succeeded")
             /\ hold' = "consumed"
    <3>1. task'.status = "succeeded"
      BY <2>3, SettledRow DEF Typed, TypeOK, Statuses, Terminal
    <3> QED BY <2>1, <2>3, <3>1, SettlingStep DEF MayPublishOutput, Active
  <2> QED BY <1>3, <2>2, <2>3 DEF Publish
<1>4. ASSUME Release(w) \/ ReleaseRetry(w) PROVE StatusStep /\ OneRequest'
  <2>1. /\ task' \in {task, ReleaseLease(task)} \/ task' \in {task, ReleaseForRetry(task)}
        /\ UNCHANGED <<hold, remote, travelling>>
    BY <1>4 DEF Release, ReleaseRetry, SaveAndStop
  <2>2. HandsOff
    BY <1>4, WorkerLetsGo DEF Release, ReleaseRetry, SaveAndStop
  <2> QED BY <2>1, <2>2, SameStageRows, QuietStep
<1> QED BY <1>1, <1>2, <1>3, <1>4 DEF Result

\* Owner, timeout worker and administrator move no worker and nothing outside.
LEMMA OthersStep ==
  ASSUME Typed, OneRequest, Cancel \/ Delete \/ Expire \/ Inspect \/ ReconcileAccepted \/ ReconcileRefused
  PROVE  StatusStep /\ OneRequest'
<1>0. HandsOff /\ UNCHANGED <<remote, travelling>>
  BY DEF Cancel, Delete, Expire, Inspect, ReconcileAccepted, ReconcileRefused, HandsOff
<1>row. task \in TaskRow
  BY DEF Typed, TypeOK
<1>settle. ASSUME hold = "reserved", task.status \in Active, hold' = "released",
                  task'.status \in WithoutOutput
           PROVE  StatusStep /\ OneRequest'
  BY <1>0, <1>settle, SettlingStep
<1>core. ASSUME NEW row \in TaskRow
         PROVE  /\ RequestCancel(row) \in TaskRow /\ Core(RequestCancel(row)) = Core(row)
                /\ RevokeAccess(row) \in TaskRow /\ Core(RevokeAccess(row)) = Core(row)
                /\ Revoke(row) \in TaskRow /\ Core(Revoke(row)) = Core(row)
  <2>1. /\ RequestCancel(row) \in TaskRow /\ Core(RequestCancel(row)) = Core(row)
        /\ RevokeAccess(row) \in TaskRow /\ Core(RevokeAccess(row)) = Core(row)
    BY <1>core, RowMutations, CoreOfMutations
  <2>2. Core(RequestCancel(RevokeAccess(row))) = Core(row) /\ RequestCancel(RevokeAccess(row)) \in TaskRow
    BY <2>1, RowMutations, CoreOfMutations
  <2> QED BY <2>1, <2>2 DEF Revoke
<1>end. ASSUME NEW row \in TaskRow, NEW next \in WithoutOutput
        PROVE  Settle(row, next) \in TaskRow /\ Settle(row, next).status = next
  BY <1>end, SettledRow, RowMutations DEF Statuses, Terminal
<1>1. ASSUME Cancel PROVE StatusStep /\ OneRequest'
  <2> DEFINE kept == [RequestCancel(task) EXCEPT !.retryPending = task.retryPending]
  <2>1. CASE hold = "reserved" /\ task' = Settle(RequestCancel(task), "canceled") /\ hold' = "released"
    BY <1>1, <1>row, <1>core, <1>end, <1>settle, <2>1 DEF Cancel, MayRequestCancel, WithoutOutput
  <2>2. CASE task' = kept /\ hold' = hold
    <3>1. Core(kept) = Core(task)
      <4>1. RequestCancel(task) \in TaskRow /\ Core(RequestCancel(task)) = Core(task)
        BY <1>row, <1>core
      <4> QED BY <4>1 DEF Core, TaskRow
    <3>2. SameStage(kept)
      BY <3>1 DEF Core, SameStage
    <3> QED BY <1>0, <2>2, <3>2, QuietStep
  <2> QED BY <1>1, <2>1, <2>2 DEF Cancel
<1>2. ASSUME Delete PROVE StatusStep /\ OneRequest'
  <2>1. Revoke(task) \in TaskRow /\ Core(Revoke(task)) = Core(task)
    BY <1>row, <1>core
  <2>2. CASE Unsubmitted(Revoke(task)) /\ hold = "reserved" /\ hold' = "released"
             /\ task' = Settle(Revoke(task), "canceled")
    <3>1. task.status \in Active
      BY <2>1, <2>2 DEF Unsubmitted, Core, Active
    <3> QED BY <1>end, <1>settle, <2>1, <2>2, <3>1 DEF WithoutOutput
  <2>3. CASE task' = Revoke(task) /\ hold' = hold
    <3>1. SameStage(Revoke(task))
      BY <2>1 DEF Core, SameStage
    <3> QED BY <1>0, <2>3, <3>1, QuietStep
  <2> QED BY <1>2, <2>2, <2>3 DEF Delete
<1>3. ASSUME Expire PROVE StatusStep /\ OneRequest'
  <2>1. Settle(task, "expired") \in TaskRow /\ Settle(task, "expired").status = "expired"
    BY <1>row, <1>end DEF WithoutOutput
  <2>2. Core(Revoke(Settle(task, "expired"))) = Core(Settle(task, "expired"))
    BY <2>1, <1>core
  <2>3. task'.status = "expired" /\ hold' = "released"
    BY <1>3, <2>1, <2>2 DEF Expire, Core
  <2> QED BY <1>3, <1>settle, <2>3 DEF Expire, MayFinalize, WithoutOutput
<1>4. ASSUME Inspect PROVE StatusStep /\ OneRequest'
  BY <1>0, <1>4, SameStageRows, QuietStep DEF Inspect
<1>5. ASSUME ReconcileAccepted PROVE StatusStep /\ OneRequest'
  <2> DEFINE claimed == AcquireLease(task)
             named == RecordExternalTaskID(claimed, admin.evidence)
  <2>1. task.status \in Active /\ task.submissionState = "unknown" /\ task.externalTaskID = 0
    BY <1>5 DEF ReconcileAccepted, MayReconcile, MayAcquireLease
  <2>2. /\ claimed \in TaskRow
        /\ Core(claimed) = <<IF task.status = "queued" THEN "running" ELSE task.status,
                             task.submissionState, task.externalTaskID>>
    BY <1>row, RowMutations, CoreOfMutations
  <2> HIDE DEF claimed
  <2>3. claimed.status \in Active /\ claimed.externalTaskID = 0
    BY <2>1, <2>2 DEF Core, Active
  <2>4. named \in TaskRow /\ Core(named) = <<claimed.status, "accepted", admin.evidence>>
    <3>1. admin.evidence \in Nat
      BY DEF Typed, TypeOK
    <3> QED BY <2>2, <2>3, <3>1, RowMutations, CoreOfMutations
  <2>5. Core(ReleaseLease(named)) = <<claimed.status, "accepted", admin.evidence>>
    BY <2>4, CoreOfMutations
  <2>6. task' = ReleaseLease(named) /\ hold' = hold
    BY <1>5 DEF ReconcileAccepted, claimed
  <2>7. SameStage(task')
    BY <2>1, <2>3, <2>5, <2>6 DEF Core, SameStage
  <2> QED BY <1>0, <2>6, <2>7, QuietStep
<1>6. ASSUME ReconcileRefused PROVE StatusStep /\ OneRequest'
  <2> DEFINE refused == ReconcileNotAccepted(AcquireLease(task))
  <2>1. refused \in TaskRow
    BY <1>row, RowMutations
  <2>2. task' \in {Settle(refused, "canceled"), Settle(refused, "failed")} /\ hold' = "released"
        /\ hold = "reserved" /\ task.status \in Active
    BY <1>6 DEF ReconcileRefused, MayReconcile, MayFinalize, MayAcquireLease
  <2> HIDE DEF refused
  <2>3. task'.status \in WithoutOutput
    BY <1>end, <2>1, <2>2 DEF WithoutOutput
  <2> QED BY <1>settle, <2>2, <2>3
<1> QED BY <1>1, <1>2, <1>3, <1>4, <1>5, <1>6

LEMMA EnvironmentStep ==
  ASSUME Typed, OneRequest, Environment
  PROVE  StatusStep /\ OneRequest'
<1>1. ASSUME LeaseLapses \/ RetryDue \/ Deadline PROVE StatusStep /\ OneRequest'
  <2>1. HandsOff /\ UNCHANGED <<hold, remote, travelling>>
    BY <1>1 DEF LeaseLapses, RetryDue, Deadline, HandsOff
  <2>2. Core(task') = Core(task)
    BY <1>1 DEF LeaseLapses, RetryDue, Deadline, Core, Typed, TypeOK, TaskRow
  <2>3. SameStage(task')
    BY <2>2 DEF Core, SameStage
  <2> QED BY <2>1, <2>3, QuietStep
<1>2. ASSUME LateAcceptance PROVE StatusStep /\ OneRequest'
  <2>1. /\ travelling > 0 /\ travelling' = travelling - 1
        /\ remote' \in {remote, Append(remote, "running")} /\ UNCHANGED <<task, hold, worker>>
    BY <1>2 DEF LateAcceptance
  <2>2. Len(Append(remote, "running")) = Len(remote) + 1
    BY DEF Typed, TypeOK
  <2>3. AtMostOneRemoteTask'
    BY <2>1, <2>2 DEF OneRequest, AtMostOneRemoteTask, Typed, TypeOK
  <2>4. ~NotStarted /\ \A w \in Workers : worker[w].step \notin Hand
    BY <2>1 DEF OneRequest, NothingOutside
  <2>5. ~NotStarted' /\ StatusStep
    BY <2>1, <2>4 DEF NotStarted, StatusStep
  <2> QED BY <2>1, <2>3, <2>4, <2>5 DEF OneRequest
<1>3. ASSUME ProviderStep PROVE StatusStep /\ OneRequest'
  <2>1. HandsOff /\ UNCHANGED <<task, hold, travelling>>
    BY <1>3 DEF ProviderStep, HandsOff
  <2>2. Len(remote') = Len(remote) /\ (remote = <<>> => remote' = <<>>)
    BY <1>3 DEF ProviderStep, Typed, TypeOK
  <2> QED BY <2>1, <2>2, RemoteMoved
<1>4. ASSUME NEW w \in Workers, Crash(w) PROVE StatusStep /\ OneRequest'
  <2>1. Stop(w) /\ HandsOff /\ UNCHANGED <<task, hold>>
    BY <1>4, WorkerLetsGo DEF Crash
  <2>2. CASE worker[w].step = "submit"
    <3>1. worker'[w].step \notin Hand
          /\ \A v \in Workers : worker'[v].step = IF v = w THEN worker'[w].step ELSE worker[v].step
      BY <2>1 DEF Stop, Idle, Hand, Typed, TypeOK
    <3> QED BY <1>4, <2>1, <2>2, <3>1, RequestResolved DEF Crash, Hand
  <2>3. CASE UNCHANGED <<remote, travelling>>
    BY <2>1, <2>3, SameStageRows, QuietStep
  <2> QED BY <1>4, <2>2, <2>3 DEF Crash
<1>5. ASSUME NEW w \in Workers, CallFails(w) PROVE StatusStep /\ OneRequest'
  <2>1. HandsOff /\ UNCHANGED <<task, hold, remote, travelling>>
    BY <1>5, WorkerLetsGo DEF CallFails, Hand
  <2> QED BY <2>1, SameStageRows, QuietStep
<1> QED BY <1>1, <1>2, <1>3, <1>4, <1>5 DEF Environment

LEMMA EveryStep ==
  ASSUME Typed, OneRequest, Next
  PROVE  StatusStep /\ OneRequest'
BY SubmissionStep, ObservationStep, ResultStep, OthersStep, EnvironmentStep DEF Next, WorkerStep

-----------------------------------------------------------------------------
(* The theorems *)

Invariant == Typed /\ OneRequest /\ HoldFollowsStatus

THEOREM Inductive == Spec => []Invariant
<1>1. Init => Invariant
  <2>1. Init => OneRequest
    BY DEF Init, OneRequest, AtMostOneRemoteTask, NothingOutside, Idle, Hand
  <2>2. Init => HoldFollowsStatus
    BY DEF Init, NewTask, HoldFollowsStatus, Active
  <2> QED BY <2>1, <2>2, InitTyped DEF Invariant
<1>2. Invariant /\ [Next]_vars => Invariant'
  <2> SUFFICES ASSUME Invariant, [Next]_vars PROVE Invariant'
    OBVIOUS
  <2>1. Typed'
    BY StepTyped DEF Invariant
  <2>2. CASE UNCHANGED vars
    BY <2>1, <2>2 DEF vars, Invariant, OneRequest, AtMostOneRemoteTask, NothingOutside, NotStarted,
                      HoldFollowsStatus
  <2>3. CASE Next
    <3>1. StatusStep /\ OneRequest'
      BY <2>3, EveryStep DEF Invariant
    <3>2. HoldFollowsStatus'
      BY <3>1 DEF Invariant, StatusStep, HoldFollowsStatus, Active, WithoutOutput
    <3> QED BY <2>1, <3>1, <3>2 DEF Invariant
  <2> QED BY <2>2, <2>3
<1> QED BY <1>1, <1>2, PTL DEF Spec

\* The provider never has two tasks for one row, counting the requests that
\* may still create one: no retry, recovery or reconciliation is billed twice.
THEOREM NeverBilledTwice == Spec => []AtMostOneRemoteTask
<1>1. Invariant => AtMostOneRemoteTask
  BY DEF Invariant, OneRequest
<1> QED BY <1>1, Inductive, PTL

\* A row that may be submitted again has nothing outside.
THEOREM ResubmissionIsSafe == Spec => []NotStartedMeansNothingOutside
<1>1. Invariant => NotStartedMeansNothingOutside
  BY DEF Invariant, OneRequest, NotStarted, NothingOutside, NotStartedMeansNothingOutside, Hand
<1> QED BY <1>1, Inductive, PTL

\* Task and reservation are settled together on every path.
THEOREM QuotaIsSettledWithTask == Spec => []HoldFollowsStatus
<1>1. Invariant => HoldFollowsStatus
  BY DEF Invariant
<1> QED BY <1>1, Inductive, PTL

-----------------------------------------------------------------------------
(* The workers implement GenerationLifecycle, step by step.  What the owner *)
(* sees of a row is its status and whether it is withdrawn; what the        *)
(* provider sees is ProviderSide.  A validating row has a provider task, or *)
(* a result could be delivered that the abstract provider never billed.     *)

Withdrawn(t) == t.cancelRequested \/ t.accessRevoked

Validated == task.status = "validating" => task.externalTaskID # 0

\* How the row and the hold may move in one step.
RowMoves ==
  /\ task.externalTaskID # 0 => task'.externalTaskID # 0
  /\ \/ /\ hold' = hold /\ (Withdrawn(task') <=> Withdrawn(task))
        /\ \/ task'.status = task.status
           \/ /\ CanTransitionTo(task.status, task'.status) /\ task'.status \in Active
              /\ task'.status = "validating" => task.externalTaskID # 0
     \/ hold' = hold /\ task'.status = task.status /\ Withdrawn(task')
     \/ /\ task.status \in Active /\ task'.status \in WithoutOutput /\ hold' = "released"
        /\ Withdrawn(task) => Withdrawn(task')
     \/ /\ task.status = "validating" /\ task'.status = "succeeded" /\ hold' = "consumed"
        /\ ~Withdrawn(task) /\ ~Withdrawn(task')

RowKept ==
  /\ task.externalTaskID # 0 => task'.externalTaskID # 0
  /\ hold' = hold /\ task'.status = task.status /\ (Withdrawn(task') <=> Withdrawn(task))

\* The row moves while the provider does not, or the provider answers, or it
\* is asked.
FaceStep ==
  \/ RowMoves /\ ProviderSide' = ProviderSide
  \/ RowKept /\ ProviderSide = "asked"
  \/ /\ RowKept /\ ProviderSide = "idle" /\ ProviderSide' = "asked"
     /\ task.status \in {"queued", "running"} /\ ~Withdrawn(task)

LEMMA FaceImplements ==
  ASSUME Typed, Typed', Validated, FaceStep
  PROVE  [Lifecycle!LifecycleNext]_(Lifecycle!lifecycleVars)
<1> DEFINE w == task.cancelRequested \/ task.accessRevoked
<1>1. /\ w \in BOOLEAN /\ w' \in BOOLEAN /\ (w <=> Withdrawn(task)) /\ (w' <=> Withdrawn(task'))
  BY DEF Typed, TypeOK, TaskRow, Withdrawn
<1>2. /\ ProviderSide \in {"idle", "asked", "billed"} /\ ProviderSide' \in {"idle", "asked", "billed"}
      /\ task.status = "validating" => ProviderSide = "billed"
  <2>1. task.status = "validating" => remote # <<>>
    BY DEF Validated, Typed, TypeOK, References, TaskRow
  <2> QED BY <2>1 DEF ProviderSide
<1> HIDE DEF w
<1>3. CASE RowMoves /\ ProviderSide' = ProviderSide
  <2>1. CASE hold' = hold /\ (w' <=> w) /\ task'.status = task.status
    BY <1>1, <1>3, <2>1 DEF Lifecycle!lifecycleVars, w
  <2>2. CASE hold' = hold /\ (w' <=> w) /\ CanTransitionTo(task.status, task'.status)
             /\ task'.status \in Active
    <3>1. Lifecycle!Advance
      BY <1>1, <1>3, <2>2 DEF Lifecycle!Advance, Lifecycle!CanTransitionTo, CanTransitionTo,
                              Lifecycle!Active, Active, Lifecycle!WithoutOutput, WithoutOutput, w
    <3> QED BY <3>1 DEF Lifecycle!LifecycleNext
  <2>3. CASE hold' = hold /\ task'.status = task.status /\ w'
    <3>1. Lifecycle!Withdraw
      BY <1>1, <1>3, <2>3 DEF Lifecycle!Withdraw, w
    <3> QED BY <3>1 DEF Lifecycle!LifecycleNext
  <2>4. CASE task.status \in Active /\ task'.status \in WithoutOutput /\ hold' = "released" /\ (w => w')
    <3>1. Lifecycle!EndWithout
      BY <1>1, <1>3, <2>4 DEF Lifecycle!EndWithout, Lifecycle!Active, Active,
                              Lifecycle!WithoutOutput, WithoutOutput, w
    <3> QED BY <3>1 DEF Lifecycle!LifecycleNext
  <2>5. CASE task.status = "validating" /\ task'.status = "succeeded" /\ hold' = "consumed" /\ ~w /\ ~w'
    <3>1. Lifecycle!Deliver
      BY <1>1, <1>2, <1>3, <2>5 DEF Lifecycle!Deliver, w
    <3> QED BY <3>1 DEF Lifecycle!LifecycleNext
  <2> QED BY <1>1, <1>3, <2>1, <2>2, <2>3, <2>4, <2>5 DEF RowMoves
<1>4. CASE RowKept /\ ProviderSide = "asked"
  <2>1. CASE ProviderSide' = ProviderSide
    BY <1>1, <1>4, <2>1 DEF RowKept, Lifecycle!lifecycleVars, w
  <2>2. CASE ProviderSide' \in {"idle", "billed"}
    <3>1. Lifecycle!Answer
      BY <1>1, <1>4, <2>2 DEF RowKept, Lifecycle!Answer, w
    <3> QED BY <3>1 DEF Lifecycle!LifecycleNext
  <2> QED BY <1>2, <1>4, <2>1, <2>2
<1>5. CASE /\ RowKept /\ ProviderSide = "idle" /\ ProviderSide' = "asked"
           /\ task.status \in {"queued", "running"} /\ ~Withdrawn(task)
  <2>1. Lifecycle!Ask
    BY <1>1, <1>5 DEF RowKept, Lifecycle!Ask, w
  <2> QED BY <2>1 DEF Lifecycle!LifecycleNext
<1> QED BY <1>3, <1>4, <1>5 DEF FaceStep

Flags(t) == <<t.cancelRequested, t.accessRevoked>>

LEMMA FlagsOfMutations ==
  ASSUME NEW t \in TaskRow
  PROVE  /\ Flags(AcquireLease(t)) = Flags(t) /\ Flags(ReleaseLease(t)) = Flags(t)
         /\ Flags(ReleaseForRetry(t)) = Flags(t) /\ Flags(ScheduleRetry(t)) = Flags(t)
         /\ Flags(BeginSubmission(t)) = Flags(t) /\ Flags(MarkSubmissionUnknown(t)) = Flags(t)
         /\ Flags(ReconcileNotAccepted(t)) = Flags(t)
         /\ \A id \in Nat : Flags(RecordExternalTaskID(t, id)) = Flags(t)
         /\ \A next \in Statuses :
              Flags(ApplyProviderState(t, next)) = Flags(t) /\ Flags(Settle(t, next)) = Flags(t)
         /\ RequestCancel(t).cancelRequested /\ RevokeAccess(t).accessRevoked
         /\ RequestCancel(t).accessRevoked = t.accessRevoked
BY DEF Flags, TaskRow, AcquireLease, ReleaseLease, ReleaseForRetry, ScheduleRetry, RequestCancel,
       RevokeAccess, BeginSubmission, MarkSubmissionUnknown, ReconcileNotAccepted,
       RecordExternalTaskID, ApplyProviderState, Settle, Transition

\* A row the owner does not tell from the current one.
Alike(row) ==
  /\ row.status = task.status /\ Flags(row) = Flags(task)
  /\ task.externalTaskID # 0 => row.externalTaskID # 0

LEMMA AlikeRows ==
  ASSUME Typed
  PROVE  /\ Alike(task) /\ Alike(ReleaseLease(task)) /\ Alike(ReleaseForRetry(task))
         /\ Alike(BeginSubmission(task)) /\ Alike(MarkSubmissionUnknown(task))
         /\ Alike(ReconcileNotAccepted(task)) /\ Alike(ScheduleRetry(task))
         /\ \A id \in Nat : Alike(RecordExternalTaskID(task, id))
<1>1. task \in TaskRow
  BY DEF Typed, TypeOK
<1> QED BY <1>1, CoreOfMutations, FlagsOfMutations DEF Core, Alike

LEMMA AlikeIsKept ==
  ASSUME NEW row, Alike(row), task' \in {task, row}, hold' = hold
  PROVE  RowKept /\ RowMoves
BY DEF Alike, Flags, Withdrawn, RowKept, RowMoves

SameSenders == \A v \in Workers : worker'[v].step = "submit" <=> worker[v].step = "submit"

LEMMA SendersKept ==
  ASSUME Typed, NEW w \in Workers, worker[w].step # "submit"
  PROVE  /\ Stop(w) => SameSenders
         /\ \A step : Goto(w, step) /\ step # "submit" => SameSenders
<1>1. ASSUME Stop(w) PROVE SameSenders
  BY <1>1 DEF Stop, SameSenders, Idle, Typed, TypeOK
<1>2. ASSUME NEW step, Goto(w, step), step # "submit" PROVE SameSenders
  BY <1>2 DEF Goto, SameSenders, Typed, TypeOK, WorkerState
<1> QED BY <1>1, <1>2

LEMMA ProviderUntouched ==
  ASSUME SameSenders, UNCHANGED <<remote, travelling>>
  PROVE  ProviderSide' = ProviderSide
BY DEF SameSenders, ProviderSide

\* Whoever may still cause a provider task is all that the provider knows.
LEMMA ProviderAsked ==
  ASSUME Typed, OneRequest, travelling > 0 \/ \E w \in Workers : worker[w].step = "submit"
  PROVE  ProviderSide = "asked"
<1>1. remote = <<>>
  BY DEF OneRequest, NothingOutside, AtMostOneRemoteTask, Hand, Typed, TypeOK
<1> QED BY <1>1 DEF ProviderSide

\* A transaction of a worker that the owner does not notice.
LEMMA UnnoticedStep ==
  ASSUME Typed, SameSenders, NEW row, Alike(row), task' \in {task, row}, hold' = hold,
         UNCHANGED <<remote, travelling>>
  PROVE  FaceStep
BY AlikeIsKept, ProviderUntouched DEF FaceStep

LEMMA FinalizeFace ==
  ASSUME Typed, NEW w \in Workers, NEW next \in WithoutOutput, Finalize(w, next),
         worker[w].step # "submit"
  PROVE  FaceStep
<1>1. SameSenders /\ UNCHANGED <<remote, travelling>>
  BY SendersKept DEF Finalize
<1>2. CASE task' = task /\ hold' = hold
  BY <1>1, <1>2, AlikeRows, UnnoticedStep
<1>3. CASE MayFinalize(task, hold, next) /\ task' = Settle(task, next) /\ hold' = "released"
  <2>1. /\ task'.status = next /\ Flags(task') = Flags(task)
        /\ task'.externalTaskID = task.externalTaskID
    <3>1. next \in Statuses /\ task \in TaskRow
      BY DEF Statuses, Terminal, Typed, TypeOK
    <3> QED BY <1>3, <3>1, CoreOfMutations, FlagsOfMutations DEF Core
  <2>2. RowMoves
    BY <1>3, <2>1 DEF RowMoves, MayFinalize, Flags, Withdrawn
  <2> QED BY <1>1, <2>2, ProviderUntouched DEF FaceStep
<1> QED BY <1>2, <1>3 DEF Finalize

LEMMA ClaimFace ==
  ASSUME Typed, NEW w \in Workers, NEW step, step # "submit", Claim(w, step)
  PROVE  FaceStep
<1>1. /\ task' = AcquireLease(task) /\ task.status \in Active /\ worker[w].step = "idle"
      /\ UNCHANGED <<hold, remote, travelling>>
  BY DEF Claim, MayAcquireLease
<1>2. SameSenders
  BY DEF Claim, SameSenders, Typed, TypeOK, Idle
<1>3. /\ Core(task') = <<IF task.status = "queued" THEN "running" ELSE task.status,
                         task.submissionState, task.externalTaskID>>
      /\ Flags(task') = Flags(task)
  BY <1>1, CoreOfMutations, FlagsOfMutations DEF Typed, TypeOK
<1>4. RowMoves
  BY <1>1, <1>3 DEF RowMoves, Core, Flags, Withdrawn, CanTransitionTo, Active
<1> QED BY <1>1, <1>2, <1>4, ProviderUntouched DEF FaceStep

LEMMA SubmissionFace ==
  ASSUME Typed, OneRequest, NEW w \in Workers, Submission(w)
  PROVE  FaceStep
<1> USE AlikeRows
<1>1. ASSUME ClaimSubmission(w) PROVE FaceStep
  <2>1. \E step : step # "submit" /\ Claim(w, step)
    BY <1>1 DEF ClaimSubmission
  <2> QED BY <2>1, ClaimFace
<1>2. ASSUME FinalizeCanceled(w) \/ FinalizeExhausted(w) PROVE FaceStep
  BY <1>2, FinalizeFace DEF FinalizeCanceled, FinalizeExhausted, WithoutOutput
<1>3. ASSUME Begin(w) PROVE FaceStep
  <2>1. CASE Stop(w) \/ Goto(w, "release")
    <3>1. task' \in {task, BeginSubmission(task)} /\ UNCHANGED <<hold, remote, travelling>>
      BY <1>3 DEF Begin, Save
    <3>2. SameSenders
      BY <1>3, <2>1, SendersKept DEF Begin
    <3> QED BY <3>1, <3>2, UnnoticedStep
  <2>2. CASE /\ MayBeginSubmission(task, worker[w].token) /\ task' = BeginSubmission(task)
             /\ Goto(w, "submit") /\ UNCHANGED <<hold, remote, travelling>>
    <3>1. /\ task.status \in {"queued", "running"} /\ ~Withdrawn(task)
          /\ task.submissionState = "not_started"
      BY <2>2 DEF MayBeginSubmission, Withdrawn
    <3>2. NothingOutside /\ \A v \in Workers : worker[v].step \notin Hand
      BY <3>1 DEF OneRequest, NotStarted, Active
    <3>3. worker'[w].step = "submit"
      BY <2>2 DEF Goto, Typed, TypeOK
    <3>4. ProviderSide = "idle"
      BY <3>2 DEF ProviderSide, NothingOutside, Hand
    <3>5. ProviderSide' = "asked"
      BY <2>2, <3>2, <3>3 DEF ProviderSide, NothingOutside
    <3>6. RowKept
      BY <2>2, AlikeIsKept
    <3> QED BY <3>1, <3>4, <3>5, <3>6 DEF FaceStep
  <2> QED BY <1>3, <2>1, <2>2 DEF Begin, Save
<1>4. ASSUME MarkUnknown(w) \/ Reconcile(w) \/ Schedule(w) PROVE FaceStep
  <2>1. /\ UNCHANGED <<hold, remote, travelling>>
        /\ \E row : Alike(row) /\ task' \in {task, row}
    BY <1>4 DEF MarkUnknown, Reconcile, Schedule, Save
  <2>2. /\ worker[w].step # "submit"
        /\ \/ Stop(w)
           \/ \E step \in {"reconcile", "release", "schedule", "exhausted"} : Goto(w, step)
    BY <1>4 DEF MarkUnknown, Reconcile, Schedule, Save
  <2>3. SameSenders
    BY <2>2, SendersKept
  <2> QED BY <2>1, <2>3, UnnoticedStep
<1>5. ASSUME Record(w) PROVE FaceStep
  <2> DEFINE id == worker[w].id
  <2>1. task' \in {task, RecordExternalTaskID(task, id)} /\ UNCHANGED <<hold, remote, travelling>>
    BY <1>5 DEF Record, Save
  <2>2. id \in Nat
    BY DEF Typed, TypeOK, WorkerState
  <2>3. SameSenders
    BY <1>5, SendersKept DEF Record, Save
  <2> QED BY <2>1, <2>2, <2>3, UnnoticedStep
<1>6. ASSUME SubmitAccepted(w) \/ SubmitRefused(w) \/ SubmitLost(w) PROVE FaceStep
  <2>1. worker[w].step = "submit" /\ UNCHANGED <<task, hold>>
    BY <1>6 DEF SubmitAccepted, SubmitRefused, SubmitLost
  <2> QED BY <2>1, ProviderAsked, AlikeIsKept DEF FaceStep
<1> QED BY <1>1, <1>2, <1>3, <1>4, <1>5, <1>6 DEF Submission

LEMMA OtherQueuesFace ==
  ASSUME Typed, OneRequest, NEW w \in Workers,
         Observation(w) \/ Result(w) \/ Release(w) \/ ReleaseRetry(w)
  PROVE  FaceStep
<1> USE AlikeRows
<1>1. ASSUME ClaimObservation(w) \/ ClaimResult(w) PROVE FaceStep
  BY <1>1, ClaimFace DEF ClaimObservation, ClaimResult
<1>2. ASSUME Query(w) PROVE FaceStep
  <2>1. worker[w].step # "submit" /\ UNCHANGED <<task, hold, remote, travelling>>
    BY <1>2 DEF Query
  <2>2. ASSUME NEW state, React(w, state) PROVE SameSenders
    BY <2>1, <2>2 DEF React, SameSenders, Typed, TypeOK, WorkerState
  <2>3. SameSenders
    BY <1>2, <2>1, <2>2, SendersKept DEF Query
  <2> QED BY <2>1, <2>3, UnnoticedStep
<1>3. ASSUME CancelRemote(w) PROVE FaceStep
  <2>1. SameSenders /\ UNCHANGED <<task, hold, travelling>>
    BY <1>3, SendersKept DEF CancelRemote
  <2>2. remote # <<>> /\ remote' # <<>>
    <3>1. task.externalTaskID \in DOMAIN remote
      BY <1>3, ObservedState DEF CancelRemote, Typed, References
    <3> QED BY <1>3, <3>1 DEF CancelRemote, Typed, TypeOK
  <2>3. ProviderSide' = ProviderSide
    BY <2>2 DEF ProviderSide
  <2> QED BY <2>1, <2>3, AlikeIsKept DEF FaceStep
<1>4. ASSUME Apply(w) PROVE FaceStep
  <2>1. SameSenders /\ UNCHANGED <<hold, remote, travelling>>
    BY <1>4, SendersKept DEF Apply, Save
  <2>2. ASSUME NEW next \in {"running", "validating"}, task' = ApplyProviderState(task, next),
               MayApplyProviderState(task, worker[w].token, task.externalTaskID, next)
        PROVE  RowMoves
    <3>1. /\ Core(task') = <<next, task.submissionState, task.externalTaskID>>
          /\ Flags(task') = Flags(task)
      BY <2>2, CoreOfMutations, FlagsOfMutations DEF Typed, TypeOK, Statuses, Active
    <3> QED BY <2>1, <2>2, <3>1 DEF MayApplyProviderState, RowMoves, Core, Flags, Withdrawn, Active
  <2>3. RowMoves
    BY <1>4, <2>1, <2>2, AlikeIsKept DEF Apply, Save
  <2> QED BY <2>1, <2>3, ProviderUntouched DEF FaceStep
<1>5. ASSUME SettleRemote(w) PROVE FaceStep
  BY <1>5, FinalizeFace DEF SettleRemote, Typed, References
<1>6. ASSUME Fetch(w) PROVE FaceStep
  <2>1. SameSenders /\ UNCHANGED <<task, hold, remote, travelling>>
    BY <1>6, SendersKept DEF Fetch
  <2> QED BY <2>1, UnnoticedStep
<1>7. ASSUME Publish(w) PROVE FaceStep
  <2>1. SameSenders /\ UNCHANGED <<remote, travelling>>
    BY <1>7, SendersKept DEF Publish
  <2>2. CASE task' = task /\ hold' = hold
    BY <2>1, <2>2, UnnoticedStep
  <2>3. CASE MayPublishOutput(task, worker[w].token, hold) /\ task' = Settle(task, "succeeded")
             /\ hold' = "consumed"
    <3>1. /\ task'.status = "succeeded" /\ Flags(task') = Flags(task)
          /\ task'.externalTaskID = task.externalTaskID
      <4>1. "succeeded" \in Statuses /\ task \in TaskRow
        BY DEF Statuses, Terminal, Typed, TypeOK
      <4> QED BY <2>3, <4>1, CoreOfMutations, FlagsOfMutations DEF Core
    <3>2. RowMoves
      BY <2>3, <3>1 DEF MayPublishOutput, RowMoves, Flags, Withdrawn
    <3> QED BY <2>1, <3>2, ProviderUntouched DEF FaceStep
  <2> QED BY <1>7, <2>2, <2>3 DEF Publish
<1>8. ASSUME Release(w) \/ ReleaseRetry(w) PROVE FaceStep
  <2>1. /\ UNCHANGED <<hold, remote, travelling>>
        /\ \E row : Alike(row) /\ task' \in {task, row}
    BY <1>8 DEF Release, ReleaseRetry, SaveAndStop
  <2>2. SameSenders
    BY <1>8, SendersKept DEF Release, ReleaseRetry, SaveAndStop
  <2> QED BY <2>1, <2>2, UnnoticedStep
<1> QED BY <1>1, <1>2, <1>3, <1>4, <1>5, <1>6, <1>7, <1>8 DEF Observation, Result

\* Owner, timeout worker and administrator move no worker and nothing outside.
LEMMA OthersFace ==
  ASSUME Typed, Cancel \/ Delete \/ Expire \/ Inspect \/ ReconcileAccepted \/ ReconcileRefused
  PROVE  FaceStep
<1>1. ProviderSide' = ProviderSide
  BY ProviderUntouched DEF Cancel, Delete, Expire, Inspect, ReconcileAccepted, ReconcileRefused,
                           SameSenders
<1> SUFFICES RowMoves
  BY <1>1 DEF FaceStep
<1>row. task \in TaskRow
  BY DEF Typed, TypeOK
<1>revoked. ASSUME NEW row \in TaskRow
            PROVE  /\ Revoke(row) \in TaskRow /\ Core(Revoke(row)) = Core(row)
                   /\ Withdrawn(Revoke(row))
  <2>1. /\ RevokeAccess(row) \in TaskRow /\ Core(RevokeAccess(row)) = Core(row)
        /\ RevokeAccess(row).accessRevoked
    BY RowMutations, CoreOfMutations, FlagsOfMutations
  <2>2. /\ RequestCancel(RevokeAccess(row)) \in TaskRow
        /\ Core(RequestCancel(RevokeAccess(row))) = Core(row)
        /\ RequestCancel(RevokeAccess(row)).cancelRequested
    BY <2>1, RowMutations, CoreOfMutations, FlagsOfMutations
  <2> QED BY <2>1, <2>2 DEF Revoke, Withdrawn
<1>settled. ASSUME NEW row \in TaskRow, NEW next \in WithoutOutput
            PROVE  /\ Settle(row, next) \in TaskRow /\ Flags(Settle(row, next)) = Flags(row)
                   /\ Core(Settle(row, next)) = <<next, row.submissionState, row.externalTaskID>>
  <2>1. next \in Statuses
    BY DEF Statuses, Terminal
  <2> QED BY <2>1, RowMutations, CoreOfMutations, FlagsOfMutations
<1>1a. ASSUME Cancel PROVE RowMoves
  <2> DEFINE canceled == RequestCancel(task)
             kept == [canceled EXCEPT !.retryPending = task.retryPending]
  <2>1. canceled \in TaskRow /\ Core(canceled) = Core(task) /\ canceled.cancelRequested
    BY <1>row, RowMutations, CoreOfMutations, FlagsOfMutations
  <2> HIDE DEF canceled
  <2>2. CASE task' = Settle(canceled, "canceled") /\ hold' = "released" /\ task.status \in Active
    <3>1. /\ Core(task') = <<"canceled", canceled.submissionState, canceled.externalTaskID>>
          /\ Flags(task') = Flags(canceled)
      BY <1>settled, <2>1, <2>2 DEF WithoutOutput
    <3> QED BY <2>1, <2>2, <3>1 DEF RowMoves, Core, Flags, Withdrawn, WithoutOutput
  <2>3. CASE task' = kept /\ hold' = hold
    <3>1. Core(kept) = Core(task) /\ kept.cancelRequested
      BY <2>1 DEF Core, TaskRow
    <3> QED BY <2>3, <3>1 DEF RowMoves, Core, Withdrawn
  <2> QED BY <1>1a, <2>2, <2>3 DEF Cancel, MayRequestCancel, canceled
<1>2. ASSUME Delete PROVE RowMoves
  <2>1. CASE Unsubmitted(Revoke(task)) /\ hold' = "released" /\ task' = Settle(Revoke(task), "canceled")
    <3>1. task.status \in Active
      BY <1>row, <1>revoked, <2>1 DEF Unsubmitted, Core, Active
    <3>2. /\ Core(task') = <<"canceled", Revoke(task).submissionState, Revoke(task).externalTaskID>>
          /\ Flags(task') = Flags(Revoke(task))
      BY <1>row, <1>revoked, <1>settled, <2>1 DEF WithoutOutput
    <3> QED BY <1>row, <1>revoked, <2>1, <3>1, <3>2 DEF RowMoves, Core, Flags, Withdrawn, WithoutOutput
  <2>2. CASE task' = Revoke(task) /\ hold' = hold
    BY <1>row, <1>revoked, <2>2 DEF RowMoves, Core
  <2> QED BY <1>2, <2>1, <2>2 DEF Delete
<1>3. ASSUME Expire PROVE RowMoves
  <2>1. /\ Settle(task, "expired") \in TaskRow
        /\ Core(Settle(task, "expired")) = <<"expired", task.submissionState, task.externalTaskID>>
    BY <1>row, <1>settled DEF WithoutOutput
  <2>2. /\ Core(Revoke(Settle(task, "expired"))) = Core(Settle(task, "expired"))
        /\ Withdrawn(Revoke(Settle(task, "expired")))
    BY <2>1, <1>revoked
  <2> QED BY <1>3, <2>1, <2>2 DEF Expire, RowMoves, Core, WithoutOutput
<1>4. ASSUME Inspect PROVE RowMoves
  BY <1>4, AlikeRows, AlikeIsKept DEF Inspect
<1>5. ASSUME ReconcileAccepted PROVE RowMoves
  <2> DEFINE claimed == AcquireLease(task)
             named == RecordExternalTaskID(claimed, admin.evidence)
  <2>1. /\ claimed \in TaskRow /\ Flags(claimed) = Flags(task)
        /\ Core(claimed) = <<IF task.status = "queued" THEN "running" ELSE task.status,
                             task.submissionState, task.externalTaskID>>
    BY <1>row, RowMutations, CoreOfMutations, FlagsOfMutations
  <2>2. task.status \in Active /\ task.externalTaskID = 0 /\ admin.evidence \in Nat
    BY <1>5 DEF ReconcileAccepted, MayReconcile, MayAcquireLease, Typed, TypeOK
  <2> HIDE DEF claimed
  <2>3. /\ named \in TaskRow /\ Flags(named) = Flags(task)
        /\ Core(named) = <<claimed.status, "accepted", admin.evidence>>
    <3>1. claimed.externalTaskID = 0
      BY <2>1, <2>2 DEF Core
    <3> QED BY <2>1, <2>2, <3>1, RowMutations, CoreOfMutations, FlagsOfMutations
  <2>4. /\ Flags(ReleaseLease(named)) = Flags(task)
        /\ Core(ReleaseLease(named)) = <<claimed.status, "accepted", admin.evidence>>
    BY <2>3, CoreOfMutations, FlagsOfMutations
  <2>5. task' = ReleaseLease(named) /\ hold' = hold
    BY <1>5 DEF ReconcileAccepted, claimed
  <2> QED BY <2>1, <2>2, <2>4, <2>5 DEF RowMoves, Core, Flags, Withdrawn, CanTransitionTo, Active
<1>6. ASSUME ReconcileRefused PROVE RowMoves
  <2> DEFINE claimed == AcquireLease(task)
             refused == ReconcileNotAccepted(claimed)
  <2>1. /\ claimed \in TaskRow /\ Flags(claimed) = Flags(task)
        /\ claimed.externalTaskID = task.externalTaskID
    BY <1>row, RowMutations, CoreOfMutations, FlagsOfMutations DEF Core
  <2> HIDE DEF claimed
  <2>2. /\ refused \in TaskRow /\ Flags(refused) = Flags(task)
        /\ refused.externalTaskID = task.externalTaskID
    BY <2>1, RowMutations, CoreOfMutations, FlagsOfMutations DEF Core
  <2> HIDE DEF refused
  <2>3. /\ \E next \in WithoutOutput : task' = Settle(refused, next)
        /\ hold' = "released" /\ task.status \in Active
    BY <1>6 DEF ReconcileRefused, MayReconcile, MayAcquireLease, WithoutOutput, refused, claimed
  <2>4. PICK next \in WithoutOutput : task' = Settle(refused, next)
    BY <2>3
  <2>5. Flags(task') = Flags(task) /\ Core(task') = <<next, refused.submissionState, task.externalTaskID>>
    BY <1>settled, <2>2, <2>4
  <2> QED BY <2>3, <2>5 DEF RowMoves, Core, Flags, Withdrawn
<1> QED BY <1>1a, <1>2, <1>3, <1>4, <1>5, <1>6

LEMMA EnvironmentFace ==
  ASSUME Typed, OneRequest, Environment
  PROVE  FaceStep
<1>1. ASSUME LeaseLapses \/ RetryDue \/ Deadline PROVE FaceStep
  <2>1. SameSenders /\ UNCHANGED <<hold, remote, travelling>>
    BY <1>1 DEF LeaseLapses, RetryDue, Deadline, SameSenders
  <2>2. Alike(task')
    BY <1>1 DEF LeaseLapses, RetryDue, Deadline, Alike, Flags, Typed, TypeOK, TaskRow
  <2> QED BY <2>1, <2>2, UnnoticedStep
<1>2. ASSUME LateAcceptance PROVE FaceStep
  <2>1. ProviderSide = "asked" /\ UNCHANGED <<task, hold>>
    BY <1>2, ProviderAsked DEF LateAcceptance
  <2> QED BY <2>1, AlikeRows, AlikeIsKept DEF FaceStep
<1>3. ASSUME ProviderStep PROVE FaceStep
  <2>1. remote # <<>> /\ remote' # <<>> /\ UNCHANGED <<task, hold>>
    BY <1>3 DEF ProviderStep, Typed, TypeOK
  <2>2. ProviderSide' = ProviderSide
    BY <2>1 DEF ProviderSide
  <2> QED BY <2>1, <2>2, AlikeRows, AlikeIsKept DEF FaceStep
<1>4. ASSUME NEW w \in Workers, Crash(w) PROVE FaceStep
  <2>1. Stop(w) /\ UNCHANGED <<task, hold>>
    BY <1>4 DEF Crash
  <2>2. CASE worker[w].step = "submit"
    BY <2>1, <2>2, ProviderAsked, AlikeRows, AlikeIsKept DEF FaceStep
  <2>3. CASE worker[w].step # "submit"
    <3>1. SameSenders /\ UNCHANGED <<remote, travelling>>
      BY <1>4, <2>1, <2>3, SendersKept DEF Crash
    <3> QED BY <2>1, <3>1, AlikeRows, UnnoticedStep
  <2> QED BY <2>2, <2>3
<1>5. ASSUME NEW w \in Workers, CallFails(w) PROVE FaceStep
  <2>1. SameSenders /\ UNCHANGED <<task, hold, remote, travelling>>
    BY <1>5, SendersKept DEF CallFails
  <2> QED BY <2>1, AlikeRows, UnnoticedStep
<1> QED BY <1>1, <1>2, <1>3, <1>4, <1>5 DEF Environment

LEMMA EveryFace ==
  ASSUME Typed, OneRequest, Next
  PROVE  FaceStep
BY SubmissionFace, OtherQueuesFace, OthersFace, EnvironmentFace DEF Next, WorkerStep

LEMMA ValidatedStep ==
  ASSUME Validated, FaceStep
  PROVE  Validated'
BY DEF Validated, FaceStep, RowMoves, RowKept, WithoutOutput

\* Whatever workers, owner, timeout worker, administrator and environment do
\* is a step of GenerationLifecycle or none at all: statuses only move forward,
\* hold and task are settled in one step, the provider is asked once at a time,
\* for a live task only and never again once it billed, and what is delivered
\* comes from the task it billed.
THEOREM WorkersKeepTheLifecycle == Spec => Lifecycle!LifecycleSafety
<1>1. Init => Validated /\ Lifecycle!LifecycleInit
  BY DEF Init, NewTask, Idle, Validated, ProviderSide, Lifecycle!LifecycleInit
<1>2. Invariant /\ Invariant' /\ Validated /\ [Next]_vars
        => Validated' /\ [Lifecycle!LifecycleNext]_(Lifecycle!lifecycleVars)
  <2> SUFFICES ASSUME Invariant, Invariant', Validated, [Next]_vars
               PROVE  Validated' /\ [Lifecycle!LifecycleNext]_(Lifecycle!lifecycleVars)
    OBVIOUS
  <2>1. CASE UNCHANGED vars
    BY <2>1 DEF vars, Validated, ProviderSide, Lifecycle!lifecycleVars
  <2>2. CASE Next
    BY <2>2, EveryFace, ValidatedStep, FaceImplements DEF Invariant
  <2> QED BY <2>1, <2>2
<1> QED BY <1>1, <1>2, Inductive, PTL DEF Spec, Lifecycle!LifecycleSafety
-----------------------------------------------------------------------------
(* The attempt limit.  The row counts its submissions, and the worker that *)
(* learns a request was refused decides, two transactions later, whether   *)
(* another one is due.  A crash or a lapsed lease in between leaves a row  *)
(* the next claim submits without asking: the limit can be exceeded, but   *)
(* only by as many submissions as the environment has had detours.         *)

Limit == MaxAttempts + (FaultBudget - budget)

\* A row a worker that claims it would submit (MayBeginSubmission), its
\* lease and its retry window apart.
Open(t) ==
  /\ t.status \in {"queued", "running"}
  /\ t.submissionState = "not_started"
  /\ ~t.cancelRequested
  /\ ~t.accessRevoked
  /\ t.externalTaskID = 0

\* The holder of the newest claim is about to apply the attempt limit.
Decides(w) ==
  /\ worker[w].step \in {"schedule", "exhausted"}
  /\ worker[w].token = task.fencingToken

Decided == task.lease = "held" /\ \E w \in Workers : Decides(w)

Claims ==
  /\ \A w \in Workers : worker[w].step # "idle" => worker[w].token <= task.fencingToken
  /\ \A v, w \in Workers :
       /\ worker[v].step # "idle"
       /\ worker[w].step # "idle"
       /\ worker[v].token = worker[w].token
       => v = w

Attempts ==
  /\ budget <= FaultBudget
  /\ task.submissionAttempt <= Limit
  /\ Open(task) /\ task.submissionAttempt >= MaxAttempts
       => task.submissionAttempt < Limit \/ Decided

AttemptInv == Invariant /\ Claims /\ Attempts

Count(t) == <<t.submissionAttempt, t.lease, t.fencingToken>>

LEMMA CountOfMutations ==
  ASSUME NEW t \in TaskRow
  PROVE  /\ Count(AcquireLease(t)) = <<t.submissionAttempt, "held", t.fencingToken + 1>>
         /\ Count(ReleaseLease(t)) = <<t.submissionAttempt, "free", t.fencingToken>>
         /\ Count(ReleaseForRetry(t)) = <<t.submissionAttempt, "free", t.fencingToken>>
         /\ Count(ScheduleRetry(t)) = Count(t)
         /\ Count(RequestCancel(t)) = Count(t)
         /\ Count(RevokeAccess(t)) = Count(t)
         /\ Count(MarkSubmissionUnknown(t)) = Count(t)
         /\ Count(ReconcileNotAccepted(t)) = Count(t)
         /\ Count(BeginSubmission(t)) = <<t.submissionAttempt + 1, t.lease, t.fencingToken>>
         /\ \A id \in Nat : Count(RecordExternalTaskID(t, id)) =
              IF t.externalTaskID = 0 /\ t.submissionAttempt = 0
                THEN <<1, t.lease, t.fencingToken>> ELSE Count(t)
         /\ \A next \in Statuses :
              /\ Count(ApplyProviderState(t, next)) = Count(t)
              /\ Count(Settle(t, next)) = <<t.submissionAttempt, "free", t.fencingToken>>
BY DEF Count, TaskRow, AcquireLease, ReleaseLease, ReleaseForRetry, ScheduleRetry, RequestCancel,
       RevokeAccess, BeginSubmission, MarkSubmissionUnknown, ReconcileNotAccepted,
       RecordExternalTaskID, ApplyProviderState, Settle, Transition

\* How one step may move the claims: no worker gets one, or one worker gets
\* the next.
HeldOn ==
  \A v \in Workers : worker'[v].step # "idle" =>
    worker[v].step # "idle" /\ worker'[v].token = worker[v].token

NewClaim(w) ==
  /\ worker'[w].token = task.fencingToken + 1
  /\ task'.fencingToken = task.fencingToken + 1
  /\ \A v \in Workers : v # w => worker'[v] = worker[v]

ClaimsMove ==
  /\ task'.fencingToken >= task.fencingToken
  /\ HeldOn \/ \E w \in Workers : NewClaim(w)

\* How one step may move the attempts.  It submits an open row nobody decides
\* on, it ends on a row that is not open, or one that was open already and
\* whose decision is not lost for free, or it puts a decision in hand.
Submits ==
  /\ Open(task) /\ ~Open(task')
  /\ task'.submissionAttempt = task.submissionAttempt + 1
  /\ \A w \in Workers : ~Decides(w)

Closes ==
  /\ ~Open(task')
  /\ task'.submissionAttempt \in {task.submissionAttempt, 1}

Keeps ==
  /\ Open(task') => Open(task)
  /\ task'.submissionAttempt = task.submissionAttempt
  /\ \/ budget' < budget
     \/ Open(task) /\ task.submissionAttempt >= MaxAttempts /\ Decided => Decided'

Refused == Decided' /\ task'.submissionAttempt = task.submissionAttempt

AttemptStep ==
  /\ budget' <= budget
  /\ Submits \/ Closes \/ Keeps \/ Refused

LEMMA ClaimsKept ==
  ASSUME Typed, Typed', Claims, ClaimsMove
  PROVE  Claims'
<1>1. \A w \in Workers : worker[w].token \in Nat /\ worker'[w].token \in Nat
  BY DEF Typed, TypeOK, WorkerState
<1>2. task.fencingToken \in Nat /\ task'.fencingToken \in Nat
  BY DEF Typed, TypeOK, TaskRow
<1>3. CASE HeldOn
  BY <1>1, <1>2, <1>3 DEF ClaimsMove, HeldOn, Claims
<1>4. ASSUME NEW w \in Workers, NewClaim(w) PROVE Claims'
  BY <1>1, <1>2, <1>4 DEF NewClaim, Claims
<1> QED BY <1>3, <1>4 DEF ClaimsMove

LEMMA AttemptsKept ==
  ASSUME Typed, Typed', Attempts, AttemptStep
  PROVE  Attempts'
<1>1. /\ task.submissionAttempt \in Nat /\ task'.submissionAttempt \in Nat
      /\ budget \in Nat /\ budget' \in Nat /\ FaultBudget \in Nat
      /\ MaxAttempts \in Nat /\ MaxAttempts >= 1
  BY FaultBudgetAssumption, MaxAttemptsAssumption DEF Typed, TypeOK, TaskRow
<1>2. Limit' = MaxAttempts + (FaultBudget - budget')
  BY DEF Limit
<1>3. CASE Submits
  BY <1>1, <1>2, <1>3 DEF Submits, Attempts, AttemptStep, Limit, Decided
<1>4. CASE Closes
  BY <1>1, <1>2, <1>4 DEF Closes, Attempts, AttemptStep, Limit
<1>5. CASE Keeps
  BY <1>1, <1>2, <1>5 DEF Keeps, Attempts, AttemptStep, Limit
<1>6. CASE Refused
  BY <1>1, <1>2, <1>6 DEF Refused, Attempts, AttemptStep, Limit
<1> QED BY <1>3, <1>4, <1>5, <1>6 DEF AttemptStep

LEMMA ClaimsHeld ==
  ASSUME Typed, NEW w \in Workers, worker[w].step # "idle"
  PROVE  /\ Stop(w) => HeldOn
         /\ \A step : Goto(w, step) => HeldOn
<1>1. ASSUME Stop(w) PROVE HeldOn
  BY <1>1 DEF Stop, HeldOn, Idle, Typed, TypeOK
<1>2. ASSUME NEW step, Goto(w, step) PROVE HeldOn
  BY <1>2 DEF Goto, HeldOn, Typed, TypeOK, WorkerState
<1> QED BY <1>1, <1>2

\* A decision survives whatever leaves its worker, the lease and the token
\* alone.
LEMMA DecisionKept ==
  ASSUME task'.lease = task.lease, task'.fencingToken = task.fencingToken,
         \A v \in Workers : worker[v].step \in {"schedule", "exhausted"} => worker'[v] = worker[v]
  PROVE  Decided => Decided'
BY DEF Decided, Decides

\* A transaction of a worker that decides nothing: if somebody else does, it
\* is refused.
LEMMA TransactionKeeps ==
  ASSUME Typed, Claims, NEW w \in Workers, NEW row,
         worker[w].step \notin {"idle", "schedule", "exhausted"},
         task' \in {task, row}, task' # task => worker[w].token = task.fencingToken,
         row.submissionAttempt = task.submissionAttempt, Open(row) => Open(task),
         \A v \in Workers : v # w => worker'[v] = worker[v]
  PROVE  Keeps
<1>1. ASSUME Decided PROVE Decided'
  <2>1. PICK v \in Workers : Decides(v)
    BY <1>1 DEF Decided
  <2>2. v # w /\ worker[v].step # "idle"
    BY <2>1 DEF Decides
  <2>3. task' = task
    BY <2>1, <2>2 DEF Claims, Decides
  <2> QED BY <1>1, <2>1, <2>2, <2>3 DEF Decided, Decides
<1> QED BY <1>1 DEF Keeps
\* The fields an open row is open by.
LEMMA OpenByFields ==
  ASSUME NEW t, NEW row, Core(row) = Core(t), Flags(row) = Flags(t)
  PROVE  Open(row) <=> Open(t)
BY DEF Core, Flags, Open

LEMMA SettledIsClosed ==
  ASSUME NEW row \in TaskRow, NEW next \in Terminal
  PROVE  ~Open(Settle(row, next))
<1>1. Settle(row, next).status = next
  BY SettledRow DEF Statuses
<1> QED BY <1>1 DEF Open, Terminal, WithoutOutput

\* What a worker saves without submitting or deciding.
Plainly(row) ==
  /\ row.submissionAttempt = task.submissionAttempt
  /\ row.fencingToken = task.fencingToken
  /\ Open(row) => Open(task)

LEMMA PlainRows ==
  ASSUME Typed
  PROVE  /\ Plainly(task) /\ Plainly(ReleaseLease(task)) /\ Plainly(ReleaseForRetry(task))
         /\ Plainly(MarkSubmissionUnknown(task)) /\ Plainly(ScheduleRetry(task))
         /\ \A next \in {"running", "validating"} :
              MayApplyProviderState(task, task.fencingToken, task.externalTaskID, next)
                => Plainly(ApplyProviderState(task, next))
<1>1. task \in TaskRow
  BY DEF Typed, TypeOK
<1>2. ASSUME NEW row, Core(row) = Core(task), Flags(row) = Flags(task),
             Count(row)[1] = Count(task)[1], Count(row)[3] = Count(task)[3]
      PROVE  Plainly(row)
  BY <1>2, OpenByFields DEF Plainly, Count
<1>3. Plainly(MarkSubmissionUnknown(task))
  <2>1. /\ Core(MarkSubmissionUnknown(task))[2] = "unknown"
        /\ Count(MarkSubmissionUnknown(task)) = Count(task)
    BY <1>1, CoreOfMutations, CountOfMutations
  <2> QED BY <2>1 DEF Core, Count, Plainly, Open
<1>4. ASSUME NEW next \in {"running", "validating"},
             MayApplyProviderState(task, task.fencingToken, task.externalTaskID, next)
      PROVE  Plainly(ApplyProviderState(task, next))
  <2>1. /\ Core(ApplyProviderState(task, next)) = <<next, task.submissionState, task.externalTaskID>>
        /\ Count(ApplyProviderState(task, next)) = Count(task)
    BY <1>1, CoreOfMutations, CountOfMutations DEF Statuses, Active
  <2>2. task.externalTaskID # 0
    BY <1>4 DEF MayApplyProviderState
  <2> QED BY <2>1, <2>2 DEF Core, Count, Plainly, Open
<1>5. /\ Plainly(task) /\ Plainly(ReleaseLease(task)) /\ Plainly(ReleaseForRetry(task))
      /\ Plainly(ScheduleRetry(task))
  BY <1>1, <1>2, CoreOfMutations, CountOfMutations, FlagsOfMutations DEF Count
<1> QED BY <1>3, <1>4, <1>5

AttemptMove == ClaimsMove /\ AttemptStep

LEMMA TransactionMoves ==
  ASSUME Typed, Claims, NEW w \in Workers, NEW row, Plainly(row),
         worker[w].step \notin {"idle", "schedule", "exhausted"},
         task' \in {task, row}, task' # task => worker[w].token = task.fencingToken,
         \A v \in Workers : v # w => worker'[v] = worker[v],
         HeldOn, budget' <= budget
  PROVE  AttemptMove
<1>1. Keeps
  BY TransactionKeeps DEF Plainly
<1>2. task'.fencingToken >= task.fencingToken
  BY DEF Plainly, Typed, TypeOK, TaskRow
<1> QED BY <1>1, <1>2 DEF AttemptMove, ClaimsMove, AttemptStep

LEMMA SaveMoves ==
  ASSUME Typed, Claims, NEW w \in Workers, NEW allowed, NEW row, NEW next,
         Save(w, allowed, row, next) \/ SaveAndStop(w, allowed, row), Plainly(row),
         allowed => worker[w].token = task.fencingToken,
         worker[w].step \notin {"idle", "schedule", "exhausted"}
  PROVE  AttemptMove
<1>1. /\ task' \in {task, row} /\ (task' # task => worker[w].token = task.fencingToken)
      /\ budget' <= budget
  BY DEF Save, SaveAndStop, Typed, TypeOK
<1>2. (\A v \in Workers : v # w => worker'[v] = worker[v]) /\ HeldOn
  BY Steered, ClaimsHeld DEF Save, SaveAndStop
<1> QED BY <1>1, <1>2, TransactionMoves

LEMMA CallMoves ==
  ASSUME Typed, Claims, NEW w \in Workers, task' = task, budget' <= budget,
         worker[w].step \notin {"idle", "schedule", "exhausted"},
         Stop(w) \/ \E step : Goto(w, step)
  PROVE  AttemptMove
<1>1. (\A v \in Workers : v # w => worker'[v] = worker[v]) /\ HeldOn
  BY Steered, ClaimsHeld
<1> QED BY <1>1, PlainRows, TransactionMoves

\* A claim needs a row without a running lease, so nobody was deciding.
LEMMA ClaimMoves ==
  ASSUME Typed, NEW w \in Workers, NEW step, Claim(w, step)
  PROVE  AttemptMove
<1>1. /\ task' = AcquireLease(task) /\ task.status \in Active /\ task.lease # "held"
      /\ budget' = budget
      /\ worker' = [worker EXCEPT ![w] = Claimed(step)]
  BY DEF Claim, MayAcquireLease, Claimed
<1>2. /\ Core(task') = <<IF task.status = "queued" THEN "running" ELSE task.status,
                         task.submissionState, task.externalTaskID>>
      /\ Flags(task') = Flags(task)
      /\ Count(task') = <<task.submissionAttempt, "held", task.fencingToken + 1>>
  BY <1>1, CoreOfMutations, FlagsOfMutations, CountOfMutations DEF Typed, TypeOK
<1>3. Keeps
  BY <1>1, <1>2 DEF Keeps, Open, Core, Flags, Count, Decided
<1>4. Claimed(step).token = task.fencingToken + 1
  BY DEF Claimed, Idle
<1>5. NewClaim(w)
  BY <1>1, <1>2, <1>4 DEF NewClaim, Count, Typed, TypeOK
<1>6. task'.fencingToken >= task.fencingToken /\ budget' <= budget
  BY <1>1, <1>5 DEF NewClaim, Typed, TypeOK, TaskRow
<1> QED BY <1>3, <1>5, <1>6 DEF AttemptMove, ClaimsMove, AttemptStep

\* A settlement closes the row.  One that is refused came from an outlived
\* worker: the holder that found the attempts exhausted is not refused.
LEMMA FinalizeMoves ==
  ASSUME Invariant, Claims, NEW w \in Workers, NEW next \in WithoutOutput, Finalize(w, next),
         worker[w].step \notin {"idle", "schedule"}
  PROVE  AttemptMove
<1> DEFINE allowed == WorkerProof(task, worker[w].token) /\ MayFinalize(task, hold, next)
<1>1. Typed /\ task \in TaskRow /\ budget' <= budget /\ next \in Terminal /\ next \in Statuses
  BY DEF Invariant, Typed, TypeOK, Finalize, Terminal, Statuses
<1>2. (\A v \in Workers : v # w => worker'[v] = worker[v]) /\ HeldOn
  BY <1>1, Steered, ClaimsHeld DEF Finalize
<1>3. CASE allowed
  <2>1. task' = Settle(task, next)
    BY <1>3 DEF Finalize
  <2>2. Count(task') = <<task.submissionAttempt, "free", task.fencingToken>>
    BY <1>1, <2>1, CountOfMutations
  <2>3. Closes /\ task'.fencingToken >= task.fencingToken
    BY <1>1, <2>1, <2>2, SettledIsClosed DEF Closes, Count, TaskRow
  <2> QED BY <1>1, <1>2, <2>3 DEF AttemptMove, ClaimsMove, AttemptStep
<1>4. CASE ~allowed
  <2>1. task' = task
    BY <1>4 DEF Finalize
  <2>2. ASSUME Open(task), Decided PROVE Decided'
    <3>1. PICK v \in Workers : Decides(v)
      BY <2>2 DEF Decided
    <3>2. v # w
      <4>1. task.status \in Active /\ task.status \notin Terminal /\ hold = "reserved"
        BY <2>2 DEF Open, Active, Terminal, WithoutOutput, Invariant, HoldFollowsStatus
      <4>2. ASSUME v = w PROVE allowed
        BY <2>2, <3>1, <4>1, <4>2 DEF Decided, Decides, WorkerProof, ValidateLease, LeaseRuns, MayFinalize
      <4> QED BY <1>4, <4>2
    <3> QED BY <1>2, <2>1, <2>2, <3>1, <3>2 DEF Decided, Decides
  <2>3. Keeps /\ task'.fencingToken >= task.fencingToken
    BY <1>1, <2>1, <2>2 DEF Keeps, TaskRow
  <2> QED BY <1>1, <1>2, <2>3 DEF AttemptMove, ClaimsMove, AttemptStep
<1> QED BY <1>3, <1>4

\* Only a refusal opens a row again, and the worker that records it decides.
LEMMA ReconcileMoves ==
  ASSUME Typed, Claims, NEW w \in Workers, Reconcile(w)
  PROVE  AttemptMove
<1>0. task \in TaskRow /\ budget' <= budget /\ worker[w].step = "reconcile"
  BY DEF Typed, TypeOK, Reconcile, Save
<1>1. CASE MayReconcileNotAccepted(task, worker[w].token)
  <2>1. task' = ReconcileNotAccepted(task) /\ Goto(w, "schedule")
    BY <1>1 DEF Reconcile, Save
  <2>2. Count(task') = Count(task)
    BY <1>0, <2>1, CountOfMutations
  <2>3. worker'[w].step = "schedule" /\ worker'[w].token = worker[w].token
    BY <2>1 DEF Goto, Typed, TypeOK, WorkerState
  <2>4. worker[w].token = task.fencingToken /\ task.lease = "held"
    BY <1>1, Proofs DEF MayReconcileNotAccepted, LeaseRuns
  <2>5. Refused
    BY <2>2, <2>3, <2>4 DEF Refused, Decided, Decides, Count
  <2>6. HeldOn /\ task'.fencingToken >= task.fencingToken
    BY <1>0, <2>1, <2>2, ClaimsHeld DEF Count, TaskRow
  <2> QED BY <1>0, <2>5, <2>6 DEF AttemptMove, ClaimsMove, AttemptStep
<1>2. CASE ~MayReconcileNotAccepted(task, worker[w].token)
  <2>1. task' = task /\ Stop(w)
    BY <1>2 DEF Reconcile, Save
  <2> QED BY <1>0, <2>1, CallMoves
<1> QED BY <1>1, <1>2

\* Begin counts an attempt; the invariant says it may, because the worker that
\* begins holds the newest claim and so nobody else is deciding.
LEMMA BeginMoves ==
  ASSUME Typed, Claims, NEW w \in Workers, Begin(w)
  PROVE  AttemptMove
<1>0. task \in TaskRow /\ budget' <= budget /\ worker[w].step = "begin"
  BY DEF Typed, TypeOK, Begin, Save
<1>1. CASE MayBeginSubmission(task, worker[w].token) /\ task' = BeginSubmission(task) /\ Goto(w, "submit")
  <2>1. /\ Core(task') = <<task.status, "in_flight", task.externalTaskID>>
        /\ Count(task') = <<task.submissionAttempt + 1, task.lease, task.fencingToken>>
    BY <1>0, <1>1, CoreOfMutations, CountOfMutations
  <2>2. Open(task) /\ worker[w].token = task.fencingToken
    BY <1>1, Proofs DEF MayBeginSubmission, Open
  <2>3. ASSUME NEW v \in Workers, Decides(v) PROVE FALSE
    <3>1. worker[v].step # "idle" /\ worker[v].token = worker[w].token /\ v # w
      BY <1>0, <2>2, <2>3 DEF Decides
    <3> QED BY <1>0, <3>1 DEF Claims
  <2>4. Submits
    BY <2>1, <2>2, <2>3 DEF Submits, Core, Count, Open
  <2>5. HeldOn /\ task'.fencingToken >= task.fencingToken
    BY <1>0, <1>1, <2>1, ClaimsHeld DEF Count, TaskRow
  <2> QED BY <1>0, <2>4, <2>5 DEF AttemptMove, ClaimsMove, AttemptStep
<1>2. CASE task' = task /\ (Stop(w) \/ Goto(w, "release"))
  BY <1>0, <1>2, CallMoves
<1> QED BY <1>1, <1>2 DEF Begin, Save

\* The decision: a retry is scheduled while attempts are left; otherwise its
\* worker goes on to settle the task, still deciding.
LEMMA ScheduleMoves ==
  ASSUME Typed, Claims, NEW w \in Workers, Schedule(w)
  PROVE  AttemptMove
<1> DEFINE may == MayScheduleRetry(task, worker[w].token)
<1>0. task \in TaskRow /\ budget' = budget /\ budget' <= budget /\ worker[w].step = "schedule"
  BY DEF Typed, TypeOK, Schedule, Save
<1>1. /\ \A v \in Workers : v # w => worker'[v] = worker[v]
      /\ HeldOn
  BY <1>0, Steered, ClaimsHeld DEF Schedule, Save
<1>2. task' \in {task, ScheduleRetry(task)} /\ Plainly(task')
  BY PlainRows DEF Schedule, Save
<1>3. ASSUME Open(task), task.submissionAttempt >= MaxAttempts, Decided PROVE Decided'
  <2>1. PICK v \in Workers : Decides(v)
    BY <1>3 DEF Decided
  <2>2. ~AttemptsLeft(task, MaxAttempts) /\ task.submissionAttempt >= 1
    BY <1>0, <1>3, MaxAttemptsAssumption DEF AttemptsLeft, TaskRow
  <2>3. task' = task /\ (may => Goto(w, "exhausted"))
    BY <2>2 DEF Schedule, Save
  <2>4. CASE v # w
    BY <1>1, <1>3, <2>1, <2>3, <2>4 DEF Decided, Decides
  <2>5. CASE v = w
    <3>1. WorkerProof(task, worker[w].token)
      BY <1>3, <2>1, <2>5 DEF Open, Decided, Decides, WorkerProof, ValidateLease, LeaseRuns, Terminal, WithoutOutput
    <3>2. may
      BY <1>3, <2>2, <3>1 DEF MayScheduleRetry, Open, Decided, LeaseRuns
    <3>3. worker'[w].step = "exhausted" /\ worker'[w].token = worker[w].token
      BY <2>3, <3>2 DEF Goto, Typed, TypeOK, WorkerState
    <3> QED BY <1>3, <2>1, <2>3, <2>5, <3>3 DEF Decided, Decides
  <2> QED BY <2>4, <2>5
<1>4. Keeps /\ task'.fencingToken >= task.fencingToken
  BY <1>0, <1>2, <1>3 DEF Keeps, Plainly, TaskRow
<1> QED BY <1>0, <1>1, <1>4 DEF AttemptMove, ClaimsMove, AttemptStep

\* Recording a provider task closes the row.
LEMMA RecordMoves ==
  ASSUME Typed, Claims, NEW w \in Workers, Record(w)
  PROVE  AttemptMove
<1> DEFINE id == worker[w].id
<1>0. task \in TaskRow /\ id \in Nat /\ budget' <= budget /\ worker[w].step = "record"
  BY DEF Typed, TypeOK, WorkerState, Record, Save
<1>1. CASE task' = RecordExternalTaskID(task, id) /\ Goto(w, "release")
  <2>1. /\ Core(task') = IF task.externalTaskID = 0 THEN <<task.status, "accepted", id>> ELSE Core(task)
        /\ Count(task') = IF task.externalTaskID = 0 /\ task.submissionAttempt = 0
                            THEN <<1, task.lease, task.fencingToken>> ELSE Count(task)
    BY <1>0, <1>1, CoreOfMutations, CountOfMutations
  <2>2. Closes
    BY <2>1 DEF Closes, Core, Count, Open
  <2>3. HeldOn /\ task'.fencingToken >= task.fencingToken
    BY <1>0, <1>1, <2>1, ClaimsHeld DEF Count, TaskRow
  <2> QED BY <1>0, <2>2, <2>3 DEF AttemptMove, ClaimsMove, AttemptStep
<1>2. CASE task' = task /\ Stop(w)
  BY <1>0, <1>2, CallMoves
<1> QED BY <1>1, <1>2 DEF Record, Save

LEMMA SubmissionMoves ==
  ASSUME Invariant, Claims, NEW w \in Workers, Submission(w)
  PROVE  AttemptMove
<1>0. Typed /\ task \in TaskRow
  BY DEF Invariant, Typed, TypeOK
<1>1. CASE ClaimSubmission(w)
  BY <1>0, <1>1, ClaimMoves DEF ClaimSubmission
<1>2. CASE FinalizeCanceled(w) \/ FinalizeExhausted(w)
  BY <1>2, FinalizeMoves DEF FinalizeCanceled, FinalizeExhausted, WithoutOutput
<1>3. CASE SubmitAccepted(w)
  <2>1. /\ task' = task /\ budget' <= budget /\ worker[w].step = "submit"
        /\ worker' = [worker EXCEPT ![w].step = "record", ![w].id = Len(remote) + 1]
    BY <1>0, <1>3 DEF SubmitAccepted, Typed, TypeOK
  <2>2. HeldOn /\ \A v \in Workers : v # w => worker'[v] = worker[v]
    BY <1>0, <2>1 DEF HeldOn, Typed, TypeOK, WorkerState
  <2> QED BY <1>0, <2>1, <2>2, PlainRows, TransactionMoves
<1>4. CASE SubmitRefused(w) \/ SubmitLost(w)
  <2>1. /\ task' = task /\ budget' <= budget /\ worker[w].step = "submit"
        /\ \E step : Goto(w, step)
    BY <1>0, <1>4 DEF SubmitRefused, SubmitLost, Typed, TypeOK
  <2> QED BY <1>0, <2>1, CallMoves
<1>5. CASE MarkUnknown(w)
  <2>1. PICK next \in {"reconcile", "release"} :
          Save(w, MayMarkSubmissionUnknown(task, worker[w].token), MarkSubmissionUnknown(task), next)
    BY <1>5 DEF MarkUnknown
  <2>2. worker[w].step \notin {"idle", "schedule", "exhausted"}
    BY <1>5 DEF MarkUnknown
  <2> QED BY <1>0, <2>1, <2>2, PlainRows, Proofs, SaveMoves DEF MayMarkSubmissionUnknown
<1> QED BY <1>0, <1>1, <1>2, <1>3, <1>4, <1>5, BeginMoves, ReconcileMoves, ScheduleMoves, RecordMoves
        DEF Submission

LEMMA OtherQueuesMove ==
  ASSUME Invariant, Claims, NEW w \in Workers,
         Observation(w) \/ Result(w) \/ Release(w) \/ ReleaseRetry(w)
  PROVE  AttemptMove
<1> DEFINE token == worker[w].token
<1>0. Typed /\ task \in TaskRow /\ budget \in Nat
  BY DEF Invariant, Typed, TypeOK
<1>1. CASE ClaimObservation(w) \/ ClaimResult(w)
  BY <1>0, <1>1, ClaimMoves DEF ClaimObservation, ClaimResult
<1>2. CASE Query(w)
  <2>1. /\ task' = task /\ budget' <= budget /\ worker[w].step \in {"query", "requery"}
        /\ \/ Goto(w, "cancelRemote")
           \/ React(w, remote[task.externalTaskID])
    BY <1>0, <1>2 DEF Query, Detour
  <2>2. ASSUME NEW state, React(w, state)
        PROVE  HeldOn /\ \A v \in Workers : v # w => worker'[v] = worker[v]
    BY <1>0, <2>1, <2>2 DEF React, HeldOn, Typed, TypeOK, WorkerState
  <2> QED BY <1>0, <2>1, <2>2, CallMoves, PlainRows, TransactionMoves
<1>3. CASE CancelRemote(w) \/ Fetch(w)
  <2>1. /\ task' = task /\ budget' <= budget /\ worker[w].step \in {"cancelRemote", "fetch"}
        /\ \E step : Goto(w, step)
    BY <1>0, <1>3 DEF CancelRemote, Fetch
  <2> QED BY <1>0, <2>1, CallMoves
<1>4. CASE Apply(w)
  <2>1. PICK state \in {"running", "validating"}, next \in {"release", "releaseRetry"} :
          Save(w, MayApplyProviderState(task, token, task.externalTaskID, state),
               ApplyProviderState(task, state), next)
    BY <1>4 DEF Apply
  <2>2. worker[w].step \notin {"idle", "schedule", "exhausted"}
    BY <1>4 DEF Apply
  <2>3. CASE MayApplyProviderState(task, token, task.externalTaskID, state)
    <3>1. token = task.fencingToken
      BY <2>3, Proofs DEF MayApplyProviderState
    <3>2. Plainly(ApplyProviderState(task, state))
      BY <1>0, <2>3, <3>1, PlainRows
    <3> QED BY <1>0, <2>1, <2>2, <3>1, <3>2, SaveMoves
  <2>4. CASE ~MayApplyProviderState(task, token, task.externalTaskID, state)
    <3>1. task' = task /\ Stop(w) /\ budget' <= budget
      BY <1>0, <2>1, <2>4 DEF Save
    <3> QED BY <1>0, <2>2, <3>1, CallMoves
  <2> QED BY <2>3, <2>4
<1>5. CASE SettleRemote(w)
  BY <1>0, <1>5, FinalizeMoves DEF SettleRemote, Typed, References
<1>6. CASE Publish(w)
  <2>0. worker[w].step = "publish" /\ budget' <= budget
    BY <1>0, <1>6 DEF Publish
  <2>1. CASE task' = Settle(task, "succeeded") /\ Stop(w)
    <3>1. "succeeded" \in Terminal /\ "succeeded" \in Statuses
      BY DEF Terminal, Statuses
    <3>2. Count(task') = <<task.submissionAttempt, "free", task.fencingToken>>
      BY <1>0, <2>1, <3>1, CountOfMutations
    <3>3. Closes /\ task'.fencingToken >= task.fencingToken
      BY <1>0, <2>1, <3>1, <3>2, SettledIsClosed DEF Closes, Count, TaskRow
    <3> QED BY <1>0, <2>0, <2>1, <3>3, ClaimsHeld DEF AttemptMove, ClaimsMove, AttemptStep
  <2>2. CASE task' = task /\ Goto(w, "releaseRetry")
    BY <1>0, <2>0, <2>2, CallMoves
  <2> QED BY <1>6, <2>1, <2>2 DEF Publish
<1>7. CASE Release(w) \/ ReleaseRetry(w)
  <2>1. worker[w].step \notin {"idle", "schedule", "exhausted"}
    BY <1>7 DEF Release, ReleaseRetry
  <2> QED BY <1>0, <1>7, <2>1, PlainRows, Proofs, SaveMoves DEF Release, ReleaseRetry, MayReleaseForRetry
<1> QED BY <1>1, <1>2, <1>3, <1>4, <1>5, <1>6, <1>7 DEF Observation, Result

\* Whoever is not a worker closes the row or leaves it alone.
LEMMA OthersClose ==
  ASSUME Typed, worker' = worker, budget' = budget, NEW row \in TaskRow, task' = row,
         row.submissionAttempt = task.submissionAttempt, row.fencingToken >= task.fencingToken, ~Open(row)
  PROVE  AttemptMove
BY DEF AttemptMove, ClaimsMove, HeldOn, AttemptStep, Closes, Typed, TypeOK

LEMMA CountOfRevoke ==
  ASSUME NEW t \in TaskRow
  PROVE  /\ Revoke(t) \in TaskRow
         /\ Count(Revoke(t)) = Count(t)
         /\ Core(Revoke(t)) = Core(t)
         /\ ~Open(Revoke(t))
<1>1. /\ RevokeAccess(t) \in TaskRow /\ Count(RevokeAccess(t)) = Count(t)
      /\ Core(RevokeAccess(t)) = Core(t) /\ RevokeAccess(t).accessRevoked
  BY RowMutations, CountOfMutations, CoreOfMutations, FlagsOfMutations
<1> HIDE DEF Count, Core
<1>2. CASE MayRequestCancel(RevokeAccess(t))
  <2>1. /\ RequestCancel(RevokeAccess(t)) \in TaskRow
        /\ Count(RequestCancel(RevokeAccess(t))) = Count(t)
        /\ Core(RequestCancel(RevokeAccess(t))) = Core(t)
        /\ RequestCancel(RevokeAccess(t)).accessRevoked
    BY <1>1, RowMutations, CountOfMutations, CoreOfMutations, FlagsOfMutations
  <2> QED BY <1>2, <2>1 DEF Revoke, Open
<1>3. CASE ~MayRequestCancel(RevokeAccess(t))
  BY <1>1, <1>3 DEF Revoke, Open
<1> QED BY <1>2, <1>3

LEMMA OthersMove ==
  ASSUME Typed, Cancel \/ Delete \/ Expire \/ Inspect \/ ReconcileAccepted \/ ReconcileRefused
  PROVE  AttemptMove
<1>0. /\ task \in TaskRow /\ worker' = worker /\ budget' = budget
      /\ {"canceled", "failed", "expired"} \subseteq Terminal
      /\ Terminal \subseteq Statuses
  BY DEF Typed, TypeOK, Cancel, Delete, Expire, Inspect, ReconcileAccepted, ReconcileRefused,
         Statuses, Terminal, WithoutOutput
<1>1. ASSUME NEW row \in TaskRow, NEW next \in Terminal, task' = Settle(row, next),
             row.submissionAttempt = task.submissionAttempt, row.fencingToken >= task.fencingToken
      PROVE  AttemptMove
  <2>1. Count(task') = <<row.submissionAttempt, "free", row.fencingToken>>
    BY <1>0, <1>1, CountOfMutations
  <2>2. task' \in TaskRow /\ ~Open(task')
    BY <1>0, <1>1, RowMutations, SettledIsClosed
  <2> QED BY <1>0, <1>1, <2>1, <2>2, OthersClose DEF Count
<1>2. CASE Cancel
  <2> DEFINE canceled == RequestCancel(task)
  <2>1. canceled \in TaskRow /\ Count(canceled) = Count(task) /\ canceled.cancelRequested
    BY <1>0, RowMutations, CountOfMutations, FlagsOfMutations
  <2> HIDE DEF canceled
  <2>2. canceled.submissionAttempt = task.submissionAttempt /\ canceled.fencingToken >= task.fencingToken
    BY <1>0, <2>1 DEF Count, TaskRow
  <2>3. CASE task' = Settle(canceled, "canceled")
    BY <1>0, <1>1, <2>1, <2>2, <2>3
  <2>4. CASE task' = [canceled EXCEPT !.retryPending = task.retryPending]
    <3>1. /\ task' \in TaskRow /\ task'.submissionAttempt = canceled.submissionAttempt
          /\ task'.fencingToken = canceled.fencingToken /\ task'.cancelRequested
      BY <1>0, <2>1, <2>4 DEF TaskRow
    <3> QED BY <1>0, <2>2, <3>1, OthersClose DEF Open
  <2> QED BY <1>2, <2>3, <2>4 DEF Cancel, canceled
<1>3. CASE Delete
  <2>1. /\ Revoke(task) \in TaskRow /\ ~Open(Revoke(task))
        /\ Revoke(task).submissionAttempt = task.submissionAttempt
        /\ Revoke(task).fencingToken >= task.fencingToken
    BY <1>0, CountOfRevoke DEF Count, TaskRow
  <2> QED BY <1>0, <1>1, <1>3, <2>1, OthersClose DEF Delete
<1>4. CASE Expire
  <2>1. /\ Settle(task, "expired") \in TaskRow
        /\ Count(Settle(task, "expired")) = <<task.submissionAttempt, "free", task.fencingToken>>
    BY <1>0, RowMutations, CountOfMutations
  <2>2. task' \in TaskRow /\ Count(task') = Count(Settle(task, "expired")) /\ ~Open(task')
    BY <1>4, <2>1, CountOfRevoke DEF Expire
  <2>3. task'.submissionAttempt = task.submissionAttempt /\ task'.fencingToken >= task.fencingToken
    BY <1>0, <2>1, <2>2 DEF Count, TaskRow
  <2> QED BY <1>0, <2>2, <2>3, OthersClose
<1>5. CASE Inspect
  <2>1. task' = task
    BY <1>5 DEF Inspect
  <2>2. Keeps /\ task'.fencingToken >= task.fencingToken
    BY <1>0, <2>1 DEF Keeps, Decided, Decides, TaskRow
  <2> QED BY <1>0, <2>2 DEF AttemptMove, ClaimsMove, HeldOn, AttemptStep, Typed, TypeOK
<1>6. /\ AcquireLease(task) \in TaskRow
      /\ AcquireLease(task).submissionAttempt = task.submissionAttempt
      /\ AcquireLease(task).fencingToken >= task.fencingToken
      /\ AcquireLease(task).externalTaskID = task.externalTaskID
  <2>1. /\ AcquireLease(task) \in TaskRow
        /\ Count(AcquireLease(task)) = <<task.submissionAttempt, "held", task.fencingToken + 1>>
    BY <1>0, RowMutations, CountOfMutations
  <2>2. Core(AcquireLease(task))[3] = task.externalTaskID
    BY <1>0, CoreOfMutations
  <2> QED BY <1>0, <2>1, <2>2 DEF Count, Core, TaskRow
<1>7. CASE ReconcileAccepted
  <2> DEFINE claimed  == AcquireLease(task)
             recorded == RecordExternalTaskID(claimed, admin.evidence)
  <2>1. admin.evidence \in Nat /\ claimed.externalTaskID = 0 /\ task' = ReleaseLease(recorded)
    BY <1>6, <1>7 DEF ReconcileAccepted, MayReconcile, Typed, TypeOK
  <2> HIDE DEF claimed
  <2>2. /\ recorded \in TaskRow
        /\ Core(recorded)[2] = "accepted"
        /\ Count(recorded)[1] \in {task.submissionAttempt, 1}
        /\ Count(recorded)[3] >= task.fencingToken
    <3>1. /\ Core(recorded) = <<claimed.status, "accepted", admin.evidence>>
          /\ Count(recorded) = IF claimed.submissionAttempt = 0
                                 THEN <<1, claimed.lease, claimed.fencingToken>> ELSE Count(claimed)
      BY <1>6, <2>1, CoreOfMutations, CountOfMutations DEF claimed
    <3>2. recorded \in TaskRow
      BY <1>6, <2>1, RowMutations DEF claimed
    <3> QED BY <1>6, <3>1, <3>2 DEF Count, Core, claimed
  <2> HIDE DEF recorded
  <2>3. /\ Core(task') = Core(recorded)
        /\ Count(task') = <<recorded.submissionAttempt, "free", recorded.fencingToken>>
    BY <2>1, <2>2, CoreOfMutations, CountOfMutations
  <2>4. Closes /\ task'.fencingToken >= task.fencingToken
    BY <2>2, <2>3 DEF Closes, Core, Count, Open
  <2> QED BY <1>0, <2>4 DEF AttemptMove, ClaimsMove, HeldOn, AttemptStep, Typed, TypeOK
<1>8. CASE ReconcileRefused
  <2> DEFINE refused == ReconcileNotAccepted(AcquireLease(task))
  <2>1. PICK next \in Terminal : task' = Settle(refused, next)
    BY <1>0, <1>8 DEF ReconcileRefused
  <2>2. refused \in TaskRow /\ Count(refused) = Count(AcquireLease(task))
    BY <1>6, RowMutations, CountOfMutations
  <2> HIDE DEF refused
  <2> QED BY <1>1, <1>6, <2>1, <2>2 DEF Count
<1> QED BY <1>2, <1>3, <1>4, <1>5, <1>7, <1>8

\* A crash, or a lease its holder outlives, costs a detour; a lease nobody
\* works under lapses for free, but then nobody was deciding.
LEMMA EnvironmentMoves ==
  ASSUME Typed, Claims, Environment
  PROVE  AttemptMove
<1>0. task \in TaskRow /\ budget \in Nat
  BY DEF Typed, TypeOK
<1>1. CASE LeaseLapses
  <2>1. /\ worker' = worker /\ budget' <= budget
        /\ task'.submissionAttempt = task.submissionAttempt
        /\ task'.fencingToken = task.fencingToken
        /\ Open(task') => Open(task)
    BY <1>0, <1>1 DEF LeaseLapses, Detour, TaskRow, Open
  <2>2. CASE \E w \in Workers : HasLease(w)
    BY <1>0, <1>1, <2>1, <2>2 DEF LeaseLapses, Detour, AttemptMove, ClaimsMove, HeldOn, AttemptStep, Keeps, TaskRow
  <2>3. CASE ~\E w \in Workers : HasLease(w)
    <3>1. ~Decided
      BY <2>3 DEF Decided, Decides, HasLease
    <3> QED BY <1>0, <2>1, <3>1 DEF AttemptMove, ClaimsMove, HeldOn, AttemptStep, Keeps, TaskRow
  <2> QED BY <2>2, <2>3
<1>2. CASE RetryDue \/ Deadline \/ LateAcceptance \/ ProviderStep
  <2>1. /\ worker' = worker /\ budget' = budget
        /\ task'.submissionAttempt = task.submissionAttempt
        /\ task'.fencingToken = task.fencingToken /\ task'.lease = task.lease
        /\ Open(task') => Open(task)
    BY <1>0, <1>2 DEF RetryDue, Deadline, LateAcceptance, ProviderStep, TaskRow, Open
  <2>2. Keeps
    BY <2>1 DEF Keeps, Decided, Decides
  <2> QED BY <1>0, <2>1, <2>2 DEF AttemptMove, ClaimsMove, HeldOn, AttemptStep, TaskRow
<1>3. ASSUME NEW w \in Workers, Crash(w) \/ CallFails(w) PROVE AttemptMove
  <2>1. /\ task' = task /\ budget' < budget /\ worker[w].step # "idle"
        /\ Stop(w) \/ Goto(w, "releaseRetry")
    BY <1>0, <1>3 DEF Crash, CallFails, Detour
  <2>2. HeldOn
    BY <2>1, ClaimsHeld
  <2>3. budget' <= budget /\ task'.fencingToken >= task.fencingToken
    BY <1>0, <1>3, <2>1 DEF Crash, CallFails, Detour, TaskRow
  <2> QED BY <2>1, <2>2, <2>3 DEF AttemptMove, ClaimsMove, AttemptStep, Keeps
<1> QED BY <1>1, <1>2, <1>3 DEF Environment

LEMMA EveryMove ==
  ASSUME Invariant, Claims, Next
  PROVE  AttemptMove
BY SubmissionMoves, OtherQueuesMove, OthersMove, EnvironmentMoves DEF Next, WorkerStep, Invariant

\* In every state: the invariant the bound on the attempts rests on.
THEOREM AttemptsInductive == Spec => []AttemptInv
<1>1. Init => Claims /\ Attempts
  BY FaultBudgetAssumption, MaxAttemptsAssumption
     DEF Init, NewTask, Idle, Claims, Attempts, Limit, Open
<1>2. AttemptInv /\ Invariant' /\ [Next]_vars => Claims' /\ Attempts'
  <2> SUFFICES ASSUME AttemptInv, Invariant', [Next]_vars PROVE Claims' /\ Attempts'
    OBVIOUS
  <2>1. CASE UNCHANGED vars
    BY <2>1 DEF vars, AttemptInv, Claims, Attempts, Limit, Decided, Decides
  <2>2. CASE Next
    <3>1. ClaimsMove /\ AttemptStep
      BY <2>2, EveryMove DEF AttemptInv, AttemptMove
    <3> QED BY <3>1, ClaimsKept, AttemptsKept DEF AttemptInv, Invariant
  <2> QED BY <2>1, <2>2
<1> QED BY <1>1, <1>2, Inductive, PTL DEF Spec, AttemptInv

\* The attempt limit of the retry policy is exceeded only by as many
\* submissions as there were detours: without a crash and with every worker
\* faster than its lease, a task is submitted MaxAttempts times at most.
THEOREM ExtraAttemptsCostDetours ==
  Spec => []SubmissionsAreBounded
<1>1. AttemptInv => SubmissionsAreBounded
  BY DEF AttemptInv, Attempts, Limit, SubmissionsAreBounded
<1> QED BY <1>1, AttemptsInductive, PTL

=============================================================================
