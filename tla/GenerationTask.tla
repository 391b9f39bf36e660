--------------------------- MODULE GenerationTask ---------------------------
(***************************************************************************)
(* The generation task row of backend/internal/application/generation, and *)
(* the mutations its domain methods perform on it.  Every repository       *)
(* operation loads the row under FOR UPDATE, applies one of these methods  *)
(* and saves the result in the same transaction, so a method is a guard    *)
(* (May...) and a function from the old row to the new one.                *)
(*                                                                         *)
(* Time is abstracted to the three questions the code asks of it: does a   *)
(* lease still run (lease "held") or has it run out ("lapsed"), is the     *)
(* retry window still in the future (retryPending), and is the processing  *)
(* deadline reached (a variable of the modules that use this one).         *)
(***************************************************************************)
EXTENDS Naturals

Active        == {"queued", "running", "validating"}
WithoutOutput == {"failed", "canceled", "expired"}
Terminal      == WithoutOutput \cup {"succeeded"}
Statuses      == Active \cup Terminal

SubmissionStates == {"not_started", "in_flight", "unknown", "accepted"}
LeaseStates      == {"free", "held", "lapsed"}
HoldStates       == {"reserved", "released", "consumed"}

\* externalTaskID is 0 while the provider identity is unknown.  leaseAttempt
\* moves with fencingToken in every method, so one counter stands for both.
TaskRow == [status            : Statuses,
            submissionState   : SubmissionStates,
            submissionAttempt : Nat,
            externalTaskID    : Nat,
            cancelRequested   : BOOLEAN,
            accessRevoked     : BOOLEAN,
            retryPending      : BOOLEAN,
            lease             : LeaseStates,
            fencingToken      : Nat,
            statusRevision    : Nat]

NewTask == [status            |-> "queued",
            submissionState   |-> "not_started",
            submissionAttempt |-> 0,
            externalTaskID    |-> 0,
            cancelRequested   |-> FALSE,
            accessRevoked     |-> FALSE,
            retryPending      |-> FALSE,
            lease             |-> "free",
            fencingToken      |-> 0,
            statusRevision    |-> 1]

CanTransitionTo(status, next) ==
  \/ status = "queued"     /\ next \in {"running"} \cup WithoutOutput
  \/ status = "running"    /\ next \in {"validating"} \cup WithoutOutput
  \/ status = "validating" /\ next \in {"succeeded"} \cup WithoutOutput

Transition(t, next) ==
  [t EXCEPT !.status         = next,
            !.retryPending   = FALSE,
            !.statusRevision = @ + 1]

-----------------------------------------------------------------------------
(* Leases *)

MayAcquireLease(t) ==
  /\ t.status \in Active
  /\ t.lease # "held"
  /\ ~t.retryPending

AcquireLease(t) ==
  [t EXCEPT !.status         = IF @ = "queued" THEN "running" ELSE @,
            !.retryPending   = FALSE,
            !.lease          = "held",
            !.fencingToken   = @ + 1,
            !.statusRevision = @ + 1]

\* validateActiveLeaseAt: some lease runs.  ValidateLease: it is the caller's.
LeaseRuns(t) == t.lease = "held"

\* Mutant: the lease is checked by its owner name, and worker names are fixed.
ValidateLeaseByOwner(t, token) == LeaseRuns(t)

ValidateLease(t, token) ==
  /\ LeaseRuns(t)
  /\ token = t.fencingToken

\* A terminal row keeps no lease: the fencing token of its last claim is the
\* proof a late write still has to show.
WorkerProof(t, token) ==
  IF t.status \in Terminal THEN token = t.fencingToken
                           ELSE ValidateLease(t, token)

ReleaseLease(t) ==
  [t EXCEPT !.lease          = "free",
            !.statusRevision = @ + 1]

MayReleaseForRetry(t, token) ==
  /\ WorkerProof(t, token)
  /\ t.submissionState = "accepted"
  /\ t.status \in {"running", "validating"}
  /\ ~t.accessRevoked
  /\ ValidateLease(t, token)

ReleaseForRetry(t) == [ReleaseLease(t) EXCEPT !.retryPending = TRUE]

-----------------------------------------------------------------------------
(* The submission boundary *)

\* Mutant: a cancellation between claim and submission is not looked at.
MayBeginSubmissionUncanceled(t, token) ==
  /\ WorkerProof(t, token)
  /\ t.externalTaskID = 0
  /\ t.submissionState = "not_started"

MayBeginSubmission(t, token) ==
  /\ WorkerProof(t, token)
  /\ t.status \in {"queued", "running"}
  /\ ~t.cancelRequested
  /\ ~t.accessRevoked
  /\ t.externalTaskID = 0
  /\ t.submissionState = "not_started"
  /\ ~t.retryPending

BeginSubmission(t) ==
  [t EXCEPT !.submissionState   = "in_flight",
            !.submissionAttempt = @ + 1,
            !.retryPending      = FALSE,
            !.statusRevision    = @ + 1]

MayMarkSubmissionUnknown(t, token) ==
  /\ WorkerProof(t, token)
  /\ t.submissionState = "in_flight"
  /\ LeaseRuns(t)

MarkSubmissionUnknown(t) ==
  [t EXCEPT !.submissionState = "unknown",
            !.statusRevision  = @ + 1]

MayReconcileNotAccepted(t, token) ==
  /\ WorkerProof(t, token)
  /\ t.submissionState = "unknown"
  /\ LeaseRuns(t)

ReconcileNotAccepted(t) ==
  [t EXCEPT !.submissionState = "not_started",
            !.statusRevision  = @ + 1]

\* The state a retry may be scheduled in; whether an attempt is left is the
\* retry policy's answer (RetryPolicy.DelayFor).
MayScheduleRetry(t, token) ==
  /\ WorkerProof(t, token)
  /\ t.status \in {"queued", "running"}
  /\ ~t.cancelRequested
  /\ ~t.accessRevoked
  /\ t.externalTaskID = 0
  /\ t.submissionState = "not_started"
  /\ t.submissionAttempt >= 1
  /\ LeaseRuns(t)

\* Mutant: the limit counts the retries, not the submissions.
AttemptsLeftForRetries(t, maxAttempts) == t.submissionAttempt <= maxAttempts

AttemptsLeft(t, maxAttempts) == t.submissionAttempt < maxAttempts

ScheduleRetry(t) ==
  [t EXCEPT !.retryPending   = TRUE,
            !.statusRevision = @ + 1]

\* A late identity is still recorded on a terminal task, so that cleanup can
\* find the provider task; a second identity never replaces the first.
MayRecordExternalTaskID(t, token, id) ==
  /\ WorkerProof(t, token)
  /\ t.externalTaskID \in {0, id}
  /\ t.externalTaskID = 0 /\ t.status \in Active => LeaseRuns(t)

RecordExternalTaskID(t, id) ==
  IF t.externalTaskID # 0 THEN t
  ELSE [t EXCEPT !.externalTaskID    = id,
                 !.submissionState   = "accepted",
                 !.submissionAttempt = IF @ = 0 THEN 1 ELSE @,
                 !.retryPending      = FALSE,
                 !.statusRevision    = @ + 1]

MayApplyProviderState(t, token, id, next) ==
  /\ WorkerProof(t, token)
  /\ t.externalTaskID # 0
  /\ t.externalTaskID = id
  /\ t.status \in Active => LeaseRuns(t)
  /\ next = t.status \/ CanTransitionTo(t.status, next)

ApplyProviderState(t, next) == IF next = t.status THEN t ELSE Transition(t, next)

-----------------------------------------------------------------------------
(* Cancellation, revocation and settlement *)

MayRequestCancel(t) == t.status \in Active /\ ~t.cancelRequested

\* The domain method also clears the retry window; what is saved depends on
\* the repository operation that calls it.
RequestCancel(t) ==
  [t EXCEPT !.cancelRequested = TRUE,
            !.retryPending    = FALSE,
            !.statusRevision  = @ + 1]

RevokeAccess(t) ==
  IF t.accessRevoked THEN t
  ELSE [t EXCEPT !.accessRevoked  = TRUE,
                 !.retryPending   = FALSE,
                 !.statusRevision = @ + 1]

\* A task nobody has claimed and nobody submitted can be settled at once.
Unsubmitted(t) ==
  /\ t.status = "queued"
  /\ t.submissionState = "not_started"
  /\ t.externalTaskID = 0
  /\ t.cancelRequested
  /\ t.lease = "free"

\* Mutant: publishing does not ask again whether the owner withdrew.
MayPublishOutputWithdrawn(t, token, hold) ==
  /\ WorkerProof(t, token)
  /\ t.status = "validating"
  /\ LeaseRuns(t)
  /\ hold = "reserved"

MayPublishOutput(t, token, hold) ==
  /\ WorkerProof(t, token)
  /\ t.status = "validating"
  /\ ~t.cancelRequested
  /\ ~t.accessRevoked
  /\ LeaseRuns(t)
  /\ hold = "reserved"

Settle(t, next) == [Transition(t, next) EXCEPT !.lease = "free"]

\* FinalizeWithoutOutput accepts a released task as well as a running lease;
\* only expiry may settle over a lease that has run out.
MayFinalize(t, hold, next) ==
  /\ t.status \in Active
  /\ t.lease = "lapsed" => next = "expired"
  /\ hold = "reserved"
=============================================================================
