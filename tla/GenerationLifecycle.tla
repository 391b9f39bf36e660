------------------------- MODULE GenerationLifecycle -------------------------
(***************************************************************************)
(* What the generation subsystem promises the owner of one task, without   *)
(* workers, leases or retries: the status moves forward only, the quota    *)
(* hold is settled in the same step as the task, the provider is asked     *)
(* only while the task is active and not canceled, by one request at a     *)
(* time and never again once it created a task, and a result is published  *)
(* only from that provider task.  Every task ends.                         *)
(***************************************************************************)
EXTENDS GenerationTask

VARIABLES status,    \* user-visible status
          quota,     \* state of the quota hold
          withdrawn, \* the owner canceled or deleted, or the deadline revoked it
          provider   \* "idle", "asked" (an answer is outstanding) or "billed"

lifecycleVars == <<status, quota, withdrawn, provider>>

LifecycleInit ==
  /\ status = "queued"
  /\ quota = "reserved"
  /\ withdrawn = FALSE
  /\ provider = "idle"

Advance ==
  /\ \E next \in Active : CanTransitionTo(status, next) /\ status' = next
  /\ UNCHANGED <<quota, withdrawn, provider>>

Ask ==
  /\ status \in {"queued", "running"}
  /\ ~withdrawn
  /\ provider = "idle"
  /\ provider' = "asked"
  /\ UNCHANGED <<status, quota, withdrawn>>

Answer ==
  /\ provider = "asked"
  /\ provider' \in {"idle", "billed"}
  /\ UNCHANGED <<status, quota, withdrawn>>

Withdraw ==
  /\ withdrawn' = TRUE
  /\ UNCHANGED <<status, quota, provider>>

EndWithout ==
  /\ status \in Active
  /\ status' \in WithoutOutput
  /\ quota' = "released"
  /\ withdrawn' \in {withdrawn, TRUE}
  /\ UNCHANGED provider

Deliver ==
  /\ status = "validating"
  /\ provider = "billed"
  /\ ~withdrawn
  /\ status' = "succeeded"
  /\ quota' = "consumed"
  /\ UNCHANGED <<withdrawn, provider>>

LifecycleNext == Advance \/ Ask \/ Answer \/ Withdraw \/ EndWithout \/ Deliver

LifecycleSafety == LifecycleInit /\ [][LifecycleNext]_lifecycleVars

LifecycleSpec == LifecycleSafety /\ WF_lifecycleVars(EndWithout \/ Deliver)
=============================================================================
