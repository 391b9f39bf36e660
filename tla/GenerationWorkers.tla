-------------------------- MODULE GenerationWorkers --------------------------
(***************************************************************************)
(* One generation task driven by the submission, observation and result    *)
(* queues (application/generation/*_worker.go), by the timeout worker, the *)
(* owner (cancel, delete) and an administrator who reconciles an unknown   *)
(* submission.  A worker runs one short transaction per step and calls the *)
(* provider between two of them, so every other actor may act in between;  *)
(* a worker may also crash, lose a reply, or sleep past its lease.         *)
(*                                                                         *)
(* The provider is the environment: it may accept a request whose reply is *)
(* lost, and accept it late.  What the result worker stores and inventories*)
(* is abstracted to the outcome of the attempt.                            *)
(***************************************************************************)
EXTENDS GenerationTask, Sequences

CONSTANTS Workers,       \* worker goroutines, of any process and any stage
          MaxAttempts,   \* RetryPolicy.MaxAttempts
          FaultBudget    \* bound on the environment's detours, see Detour

ASSUME MaxAttemptsAssumption == MaxAttempts \in Nat \ {0}
ASSUME FaultBudgetAssumption == FaultBudget \in Nat

VARIABLES task,      \* the generation_jobs row
          hold,      \* state of its quota reservation
          overdue,   \* the processing deadline of the task is reached
          remote,    \* states of the tasks the provider created for this one
          travelling,\* submit requests still under way that nobody waits for
          worker,    \* what each worker is doing, and the lease it holds
          admin,     \* what the administrator last read
          budget     \* detours the environment has left

vars == <<task, hold, overdue, remote, travelling, worker, admin, budget>>

RemoteOpen   == {"running", "validating"}
RemoteStates == RemoteOpen \cup {"succeeded"} \cup WithoutOutput

SubmissionSteps  == {"cancel", "begin", "submit", "refused", "markUnknown",
                     "reconcile", "schedule", "exhausted", "record"}
ObservationSteps == {"query", "cancelRemote", "requery", "applyRunning",
                     "applyValidating", "settleRemote"}
ResultSteps      == {"fetch", "publish"}
Steps            == SubmissionSteps \cup ObservationSteps \cup ResultSteps
                      \cup {"idle", "release", "releaseRetry"}

\* token is the fencing token of the claimed lease, sawCancel the snapshot of
\* the claim, reply the provider state or identity the worker acts on.
WorkerState == [step : Steps, token : Nat, sawCancel : BOOLEAN,
                reply : RemoteStates \cup {"none"}, id : Nat]

Idle == [step |-> "idle", token |-> 0, sawCancel |-> FALSE,
         reply |-> "none", id |-> 0]

\* The listed revision and attempt, and the provider identity the
\* administrator found for them, 0 for none.
NoFile == [revision |-> 0, attempt |-> 0, evidence |-> 0]

TypeOK ==
  /\ task \in TaskRow
  /\ hold \in HoldStates
  /\ overdue \in BOOLEAN
  /\ remote \in Seq(RemoteStates)
  /\ travelling \in Nat
  /\ worker \in [Workers -> WorkerState]
  /\ admin \in [revision : Nat, attempt : Nat, evidence : Nat]
  /\ budget \in Nat

Init ==
  /\ task = NewTask
  /\ hold = "reserved"
  /\ overdue = FALSE
  /\ remote = <<>>
  /\ travelling = 0
  /\ worker = [w \in Workers |-> Idle]
  /\ admin = NoFile
  /\ budget = FaultBudget

-----------------------------------------------------------------------------
(* Worker steps: every one is a transaction of the repository or a call. *)

Goto(w, step) == worker' = [worker EXCEPT ![w].step = step]
Stop(w)       == worker' = [worker EXCEPT ![w] = Idle]

\* A detour (crash, lost reply, lapsed lease, one more poll) costs budget.
Detour == budget > 0 /\ budget' = budget - 1

\* One fenced transaction: it saves row and the worker goes on, or it is
\* refused and the worker returns its error, leaving any lease to run out.
Save(w, allowed, row, next) ==
  /\ \/ allowed  /\ task' = row /\ Goto(w, next)
     \/ ~allowed /\ UNCHANGED task /\ Stop(w)
  /\ UNCHANGED <<hold, overdue, remote, travelling, admin, budget>>

SaveAndStop(w, allowed, row) ==
  /\ task' = IF allowed THEN row ELSE task
  /\ Stop(w)
  /\ UNCHANGED <<hold, overdue, remote, travelling, admin, budget>>

\* FinalizeWithoutOutput: task and reservation are settled together.
Finalize(w, next) ==
  LET allowed == /\ WorkerProof(task, worker[w].token)
                 /\ MayFinalize(task, hold, next)
  IN /\ task' = IF allowed THEN Settle(task, next) ELSE task
     /\ hold' = IF allowed THEN "released" ELSE hold
     /\ Stop(w)
     /\ UNCHANGED <<overdue, remote, travelling, admin, budget>>

Claim(w, step) ==
  /\ worker[w].step = "idle"
  /\ MayAcquireLease(task)
  /\ ~task.accessRevoked
  /\ ~overdue
  /\ task' = AcquireLease(task)
  /\ worker' = [worker EXCEPT ![w] =
                  [Idle EXCEPT !.step      = step,
                               !.token     = task.fencingToken + 1,
                               !.sawCancel = task.cancelRequested]]
  /\ UNCHANGED <<hold, overdue, remote, travelling, admin, budget>>

\* Mutant: a submission another worker left in flight is begun again.
ClaimSubmissionReplays(w) ==
  /\ task.status \in {"queued", "running"}
  /\ task.externalTaskID = 0
  /\ \/ task.submissionState = "not_started" /\ Claim(w, "begin")
     \/ task.submissionState = "in_flight" /\ Claim(w, "refused")

\* ClaimNextSubmissionLease, and the branch runClaimed takes on its snapshot.
ClaimSubmission(w) ==
  /\ task.status \in {"queued", "running"}
  /\ task.externalTaskID = 0
  /\ \/ /\ task.submissionState = "not_started"
        /\ Claim(w, IF task.cancelRequested THEN "cancel" ELSE "begin")
     \/ /\ task.submissionState = "in_flight"
        /\ task.lease # "free"
        /\ Claim(w, "markUnknown")

FinalizeCanceled(w) == worker[w].step = "cancel" /\ Finalize(w, "canceled")

Begin(w) ==
  /\ worker[w].step = "begin"
  /\ \/ /\ ~overdue
        /\ Save(w, MayBeginSubmission(task, worker[w].token), BeginSubmission(task), "submit")
     \/ /\ overdue
        /\ Save(w, WorkerProof(task, worker[w].token), task, "release")

\* The provider call, outside any transaction.  An error that does not say
\* "not accepted", and an unusable receipt, leave the outcome unknown: the
\* request may be accepted, still be travelling, or be gone.
SubmitAccepted(w) ==
  /\ worker[w].step = "submit"
  /\ remote' = Append(remote, "running")
  /\ worker' = [worker EXCEPT ![w].step = "record", ![w].id = Len(remote) + 1]
  /\ UNCHANGED <<task, hold, overdue, travelling, admin, budget>>

SubmitRefused(w) ==
  /\ worker[w].step = "submit"
  /\ Goto(w, "refused")
  /\ UNCHANGED <<task, hold, overdue, remote, travelling, admin, budget>>

RequestFate ==
  \/ remote' = Append(remote, "running") /\ UNCHANGED travelling
  \/ travelling' = travelling + 1 /\ UNCHANGED remote
  \/ UNCHANGED <<remote, travelling>>

\* Mutant: a timeout is taken for a refusal.
SubmitLostTakenForRefused(w) ==
  /\ worker[w].step = "submit"
  /\ RequestFate
  /\ Goto(w, "refused")
  /\ UNCHANGED <<task, hold, overdue, admin, budget>>

SubmitLost(w) ==
  /\ worker[w].step = "submit"
  /\ RequestFate
  /\ Goto(w, "markUnknown")
  /\ UNCHANGED <<task, hold, overdue, admin, budget>>

MarkUnknown(w) ==
  /\ worker[w].step \in {"markUnknown", "refused"}
  /\ Save(w, MayMarkSubmissionUnknown(task, worker[w].token), MarkSubmissionUnknown(task),
          IF worker[w].step = "refused" THEN "reconcile" ELSE "release")

Reconcile(w) ==
  /\ worker[w].step = "reconcile"
  /\ Save(w, MayReconcileNotAccepted(task, worker[w].token), ReconcileNotAccepted(task), "schedule")

Schedule(w) ==
  /\ worker[w].step = "schedule"
  /\ \/ /\ AttemptsLeft(task, MaxAttempts)
        /\ Save(w, MayScheduleRetry(task, worker[w].token), ScheduleRetry(task), "release")
     \/ /\ ~AttemptsLeft(task, MaxAttempts)
        /\ Save(w, MayScheduleRetry(task, worker[w].token), task, "exhausted")

FinalizeExhausted(w) == worker[w].step = "exhausted" /\ Finalize(w, "failed")

Record(w) ==
  /\ worker[w].step = "record"
  /\ Save(w, MayRecordExternalTaskID(task, worker[w].token, worker[w].id),
          RecordExternalTaskID(task, worker[w].id), "release")

Release(w) ==
  /\ worker[w].step = "release"
  /\ SaveAndStop(w, ValidateLease(task, worker[w].token), ReleaseLease(task))

ReleaseRetry(w) ==
  /\ worker[w].step = "releaseRetry"
  /\ SaveAndStop(w, MayReleaseForRetry(task, worker[w].token), ReleaseForRetry(task))

-----------------------------------------------------------------------------
(* Observation and result queues *)

ClaimObservation(w) ==
  /\ task.status = "running"
  /\ task.submissionState = "accepted"
  /\ Claim(w, "query")

\* Mutant: the reply a settlement needs is not remembered.
ReactForgetful(w, state) ==
  Goto(w, IF state \in WithoutOutput THEN "settleRemote"
          ELSE IF state = "running" THEN "applyRunning" ELSE "applyValidating")

\* What the worker does with a provider state it has just read.
React(w, state) ==
  worker' = [worker EXCEPT
    ![w].reply = state,
    ![w].step  = IF state \in WithoutOutput THEN "settleRemote"
                 ELSE IF state = "running" THEN "applyRunning"
                 ELSE "applyValidating"]

\* A first query of a canceled task that is still open leads to a provider
\* cancellation and a second query; a poll that finds it running costs budget
\* unless the deadline already stops the polling.
Query(w) ==
  LET state == remote[task.externalTaskID] IN
  /\ worker[w].step \in {"query", "requery"}
  /\ task.externalTaskID # 0
  /\ IF state = "running" /\ ~overdue THEN Detour ELSE UNCHANGED budget
  /\ IF worker[w].step = "query" /\ worker[w].sawCancel /\ state \in RemoteOpen
       THEN Goto(w, "cancelRemote")
       ELSE React(w, state)
  /\ UNCHANGED <<task, hold, overdue, remote, travelling, admin>>

\* provider.Cancel is a request: the task may stop now, later or never.
CancelRemote(w) ==
  /\ worker[w].step = "cancelRemote"
  /\ \E state \in {"canceled", remote[task.externalTaskID]} :
       remote' = IF remote[task.externalTaskID] \in RemoteOpen
                   THEN [remote EXCEPT ![task.externalTaskID] = state]
                   ELSE remote
  /\ Goto(w, "requery")
  /\ UNCHANGED <<task, hold, overdue, travelling, admin, budget>>

CallFails(w) ==
  /\ worker[w].step \in {"query", "cancelRemote", "requery", "fetch"}
  /\ Detour
  /\ Goto(w, "releaseRetry")
  /\ UNCHANGED <<task, hold, overdue, remote, travelling, admin>>

Apply(w) ==
  \/ /\ worker[w].step = "applyRunning"
     /\ Save(w, MayApplyProviderState(task, worker[w].token, task.externalTaskID, "running"),
             ApplyProviderState(task, "running"), "releaseRetry")
  \/ /\ worker[w].step = "applyValidating"
     /\ Save(w, MayApplyProviderState(task, worker[w].token, task.externalTaskID, "validating"),
             ApplyProviderState(task, "validating"), "release")

SettleRemote(w) == worker[w].step = "settleRemote" /\ Finalize(w, worker[w].reply)

ClaimResult(w) ==
  /\ task.status = "validating"
  /\ task.submissionState = "accepted"
  /\ Claim(w, "fetch")

Fetch(w) ==
  /\ worker[w].step = "fetch"
  /\ Goto(w, IF worker[w].sawCancel THEN "cancel" ELSE "publish")
  /\ UNCHANGED <<task, hold, overdue, remote, travelling, admin, budget>>

\* PublishOutput settles task, output and reservation together; a refusal
\* leaves the version to cleanup and retries later.
Publish(w) ==
  /\ worker[w].step = "publish"
  /\ IF MayPublishOutput(task, worker[w].token, hold) /\ ~overdue
       THEN /\ task' = Settle(task, "succeeded")
            /\ hold' = "consumed"
            /\ Stop(w)
       ELSE /\ Goto(w, "releaseRetry")
            /\ UNCHANGED <<task, hold>>
  /\ UNCHANGED <<overdue, remote, travelling, admin, budget>>

-----------------------------------------------------------------------------
(* Owner, administrator and timeout worker *)

\* The repository saves the cancellation but not the cleared retry window,
\* unless the cancellation settles a task nobody has claimed.
Cancel ==
  LET canceled == RequestCancel(task) IN
  /\ MayRequestCancel(task)
  /\ \/ /\ Unsubmitted(canceled) /\ hold = "reserved"
        /\ task' = Settle(canceled, "canceled")
        /\ hold' = "released"
     \/ /\ ~Unsubmitted(canceled)
        /\ task' = [canceled EXCEPT !.retryPending = task.retryPending]
        /\ UNCHANGED hold
  /\ UNCHANGED <<overdue, remote, travelling, worker, admin, budget>>

\* ensureGenerationCleanupInTx: revoke, ask an active task to cancel, and
\* settle it when nobody has claimed it.
Revoke(t) ==
  LET revoked == RevokeAccess(t)
  IN IF MayRequestCancel(revoked) THEN RequestCancel(revoked) ELSE revoked

Delete ==
  /\ ~task.accessRevoked
  /\ \/ /\ Unsubmitted(Revoke(task)) /\ hold = "reserved"
        /\ task' = Settle(Revoke(task), "canceled")
        /\ hold' = "released"
     \/ /\ ~Unsubmitted(Revoke(task))
        /\ task' = Revoke(task)
        /\ UNCHANGED hold
  /\ UNCHANGED <<overdue, remote, travelling, worker, admin, budget>>

\* Mutant: expiry settles the task and forgets the reservation.
ExpireKeepingHold ==
  /\ overdue
  /\ ~LeaseRuns(task)
  /\ MayFinalize(task, hold, "expired")
  /\ task' = Revoke(Settle(task, "expired"))
  /\ UNCHANGED <<hold, overdue, remote, travelling, worker, admin, budget>>

\* ExpireTaskIfDue rechecks the deadline and the lease under the row lock.
Expire ==
  /\ overdue
  /\ task.status \in Active
  /\ ~LeaseRuns(task)
  /\ MayFinalize(task, hold, "expired")
  /\ task' = Revoke(Settle(task, "expired"))
  /\ hold' = "released"
  /\ UNCHANGED <<overdue, remote, travelling, worker, admin, budget>>

\* ListUnknown, and the evidence found for the revision that was listed.  The
\* provider knows every request that reached it: nothing found means nothing
\* arrived so far.
Inspect ==
  /\ task.submissionState = "unknown"
  /\ admin.revision # task.statusRevision
  /\ admin' = [revision |-> task.statusRevision,
               attempt  |-> task.submissionAttempt,
               evidence |-> Len(remote)]
  /\ UNCHANGED <<task, hold, overdue, remote, travelling, worker, budget>>

\* Mutant: the revision the administrator read is not compared.
MayReconcileStale ==
  /\ admin # NoFile
  /\ task.submissionState = "unknown"
  /\ task.externalTaskID = 0
  /\ MayAcquireLease(task)

MayReconcile ==
  /\ admin.revision = task.statusRevision
  /\ task.submissionState = "unknown"
  /\ task.externalTaskID = 0
  /\ task.status \notin Terminal
  /\ MayAcquireLease(task)

ReconcileAccepted ==
  /\ MayReconcile
  /\ admin.evidence # 0
  /\ task' = ReleaseLease(RecordExternalTaskID(AcquireLease(task), admin.evidence))
  /\ admin' = NoFile
  /\ UNCHANGED <<hold, overdue, remote, travelling, worker, budget>>

ReconcileRefused ==
  /\ MayReconcile
  /\ admin.evidence = 0
  /\ MayFinalize(AcquireLease(task), hold, "failed")
  /\ task' = Settle(ReconcileNotAccepted(AcquireLease(task)),
                    IF task.cancelRequested \/ task.accessRevoked THEN "canceled" ELSE "failed")
  /\ hold' = "released"
  /\ admin' = NoFile
  /\ UNCHANGED <<overdue, remote, travelling, worker, budget>>

-----------------------------------------------------------------------------
(* Environment: clocks, provider, crashes *)

HasLease(w) == worker[w].step # "idle" /\ worker[w].token = task.fencingToken

\* A lease nobody works under runs out by itself; one whose holder is slower
\* than its time-to-live is a detour.
LeaseLapses ==
  /\ task.lease = "held"
  /\ IF \E w \in Workers : HasLease(w) THEN Detour ELSE UNCHANGED budget
  /\ task' = [task EXCEPT !.lease = "lapsed"]
  /\ UNCHANGED <<hold, overdue, remote, travelling, worker, admin>>

RetryDue ==
  /\ task.retryPending
  /\ task' = [task EXCEPT !.retryPending = FALSE]
  /\ UNCHANGED <<hold, overdue, remote, travelling, worker, admin, budget>>

Deadline ==
  /\ ~overdue
  /\ overdue' = TRUE
  /\ UNCHANGED <<task, hold, remote, travelling, worker, admin, budget>>

LateAcceptance ==
  /\ travelling > 0
  /\ travelling' = travelling - 1
  /\ remote' \in {remote, Append(remote, "running")}
  /\ UNCHANGED <<task, hold, overdue, worker, admin, budget>>

ProviderStep ==
  /\ \E i \in DOMAIN remote, next \in RemoteStates :
       /\ remote[i] \in RemoteOpen
       /\ next \notin {"running", remote[i]}
       /\ remote' = [remote EXCEPT ![i] = next]
  /\ UNCHANGED <<task, hold, overdue, travelling, worker, admin, budget>>

\* A process dies between two steps; a request it was sending has any fate.
Crash(w) ==
  /\ worker[w].step # "idle"
  /\ Detour
  /\ IF worker[w].step = "submit" THEN RequestFate ELSE UNCHANGED <<remote, travelling>>
  /\ Stop(w)
  /\ UNCHANGED <<task, hold, overdue, admin>>

-----------------------------------------------------------------------------

Submission(w) ==
  \/ ClaimSubmission(w) \/ FinalizeCanceled(w) \/ Begin(w) \/ SubmitAccepted(w)
  \/ SubmitRefused(w) \/ SubmitLost(w) \/ MarkUnknown(w) \/ Reconcile(w)
  \/ Schedule(w) \/ FinalizeExhausted(w) \/ Record(w)

Observation(w) ==
  \/ ClaimObservation(w) \/ Query(w) \/ CancelRemote(w) \/ Apply(w) \/ SettleRemote(w)

Result(w) == ClaimResult(w) \/ Fetch(w) \/ Publish(w)

WorkerStep(w) ==
  Submission(w) \/ Observation(w) \/ Result(w) \/ Release(w) \/ ReleaseRetry(w)

Environment ==
  \/ LeaseLapses \/ RetryDue \/ Deadline \/ LateAcceptance \/ ProviderStep
  \/ \E w \in Workers : Crash(w) \/ CallFails(w)

Next ==
  \/ \E w \in Workers : WorkerStep(w)
  \/ Cancel \/ Delete \/ Expire \/ Inspect \/ ReconcileAccepted \/ ReconcileRefused
  \/ Environment

Spec == Init /\ [][Next]_vars

\* A worker that holds a claim goes on until it returns (every provider call
\* is bounded by a timeout), the timeout worker polls, and time passes.
Fairness ==
  /\ \A w \in Workers : WF_vars(worker[w].step # "idle" /\ WorkerStep(w))
  /\ WF_vars(Expire)
  /\ WF_vars(LeaseLapses)
  /\ WF_vars(Deadline)

FairSpec == Spec /\ Fairness

-----------------------------------------------------------------------------
(* Correctness *)

\* Never a second billable provider task (submission_worker.go: "submitting
\* again here would create a second billable remote task"): the tasks the
\* provider created for this row and the requests that may still create one
\* are at most one, whatever is retried, recovered, lost or reconciled.
AtMostOneRemoteTask == Len(remote) + travelling <= 1

\* A row that may be submitted again has nothing outside: while an active
\* task is not_started, no provider task exists for it, no request travels
\* and no worker is about to send one (model.go, MarkSubmissionUnknown:
\* "blocking blind resubmission until an explicit reconciliation").
NotStartedMeansNothingOutside ==
  task.status \in Active /\ task.submissionState = "not_started" =>
    /\ remote = <<>>
    /\ travelling = 0
    /\ \A w \in Workers : worker[w].step # "submit"

\* The reservation is settled exactly when the task is, and consumed exactly
\* by a published output: no path leaks quota or releases it twice
\* (settleGenerationTask, ExpireTaskIfDue, RequestCancel, ReconcileUnknown).
HoldFollowsStatus ==
  /\ hold = "reserved" <=> task.status \in Active
  /\ hold = "consumed" <=> task.status = "succeeded"

\* A cancellation or deletion that finds the task not submitted is final for
\* the provider: from then on no worker begins a submission
\* (submission_worker.go: "must never create a provider task").
CanceledIsNeverSubmitted ==
  [][ /\ task.cancelRequested \/ task.accessRevoked
      /\ task.submissionState = "not_started"
      => /\ task'.submissionState # "in_flight"
         /\ \A w \in Workers : worker'[w].step = "submit" => worker[w].step = "submit" ]_vars

\* Only the holder of the newest claim changes the row: a worker whose lease
\* was taken over loses every write (lease.go: "an expired worker cannot
\* mutate a task after another worker has recovered it").
StaleWorkerChangesNothing ==
  [][ \A w \in Workers :
        worker[w].step # "idle" /\ worker'[w] # worker[w] /\ task' # task
          => worker[w].token = task.fencingToken ]_vars

\* An administrator's decision is applied only to the submission attempt its
\* evidence is about: the retry of a refused attempt may become unknown too
\* while the administrator still looks at the earlier one.
ReconciledOnCurrentEvidence ==
  [][ admin # NoFile /\ admin' = NoFile =>
        /\ admin.attempt = task.submissionAttempt
        /\ task'.externalTaskID = admin.evidence ]_vars

\* The workers implement the promise of GenerationLifecycle: the provider is
\* "asked" while a worker is about to send a request or one travels.  With
\* fairness this includes that every task ends, by its deadline at the
\* latest, and with it the hold on the owner's quota.
ProviderSide ==
  IF remote # <<>> THEN "billed"
  ELSE IF travelling > 0 \/ \E w \in Workers : worker[w].step = "submit" THEN "asked"
  ELSE "idle"

Lifecycle == INSTANCE GenerationLifecycle
               WITH status    <- task.status,
                    quota     <- hold,
                    withdrawn <- task.cancelRequested \/ task.accessRevoked,
                    provider  <- ProviderSide

ImplementsLifecycle == Lifecycle!LifecycleSpec

\* A task is submitted beyond the limit of the retry policy only once for every
\* crash, lost reply, lapsed lease or provider error: whoever resumes a refused
\* submission, and however the lease went from worker to worker, the refusals
\* themselves come to an end (AttemptsLeft, checked in ScheduleSubmissionRetry).
SubmissionsAreBounded == task.submissionAttempt <= MaxAttempts + (FaultBudget - budget)

\* retry_test.go states that the submission retry stops at the configured
\* attempt limit (TestSubmissionRetryStopsAtConfiguredAttemptLimit).
AttemptsWithinLimit == task.submissionAttempt <= MaxAttempts

\* reconciliation.go states that ListUnknown returns actionable submissions:
\* every listed one can still be decided.
ListedUnknownIsActionable ==
  task.submissionState = "unknown" => task.status \notin Terminal
=============================================================================
