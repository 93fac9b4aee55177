--------------------------- MODULE PhaseLifecycle ---------------------------
(***************************************************************************)
(* The lifecycle of one compilation phase: its states, the edges between   *)
(* them, how the runtime records a transition, and when a failed phase may *)
(* be retried.  Constant-level definitions only; Runtime.tla holds the     *)
(* state.                                                                  *)
(***************************************************************************)
EXTENDS Naturals

PhaseState ==
  {"pending", "ready", "preparing", "running", "produced", "validating",
   "commit_ready", "committed", "failed", "cancelled", "fenced",
   "recovery_required", "retired"}

\* Leaving an in-flight state other than by the forward edge.
Withdrawn == {"failed", "cancelled", "fenced", "recovery_required"}

\* is_legal_phase_transition.
IsLegal(from, to) ==
  \/ from = "pending"      /\ to \in {"ready", "cancelled", "retired"}
  \/ from = "ready"        /\ to \in {"preparing", "cancelled", "retired",
                                      "recovery_required", "failed"}
  \/ from = "preparing"    /\ to \in {"running"} \cup Withdrawn
  \/ from = "running"      /\ to \in {"produced"} \cup Withdrawn
  \/ from = "produced"     /\ to \in {"validating"} \cup Withdrawn
  \/ from = "validating"   /\ to \in {"commit_ready"} \cup Withdrawn
  \/ from = "commit_ready" /\ to \in {"committed"} \cup Withdrawn
  \/ from = "committed"    /\ to \in {"fenced", "retired"}
  \/ from = "failed"       /\ to \in {"ready", "cancelled", "retired",
                                      "recovery_required", "fenced"}
  \/ from = "recovery_required" /\ to \in {"ready", "failed", "cancelled", "retired"}
  \/ from \in {"cancelled", "fenced"} /\ to = "retired"

\* Faulty variant: every edge is taken.
RecordTransitionUnchecked(from, to) == to

\* record_transition: the state after asking for `to'.  A request with no
\* direct edge is routed through one intermediate state; one with no route
\* leaves the phase where it is.
RecordTransition(from, to) ==
  IF \/ IsLegal(from, to)
     \/ \E mid \in {"ready", "failed", "fenced"} : IsLegal(from, mid) /\ IsLegal(mid, to)
  THEN to
  ELSE from

InFlight == {"preparing", "running", "produced", "validating", "commit_ready"}

RetainsCommitAuthority == {"pending", "ready"} \cup InFlight

-----------------------------------------------------------------------------
(* Failure classes, merged by what evaluate_retry tells apart.              *)

FailureClass == {"none", "retryable", "refused", "invalidated", "unknown"}

\* Faulty variant: one retry too many.
RetryLegalOffByOne(state, failure, attempts, used, perPhase, perSession) ==
  /\ state \in {"failed", "recovery_required", "ready", "pending"}
  /\ failure = "invalidated" \/ (failure = "retryable" /\ attempts <= perPhase /\ used <= perSession)

\* evaluate_retry: may this phase be retried?  `attempts' counts the attempts
\* already made, `used' the retries the session has spent.
RetryLegal(state, failure, attempts, used, perPhase, perSession) ==
  /\ state \in {"failed", "recovery_required", "ready", "pending"}
  /\ \/ failure = "invalidated"
     \/ /\ failure = "retryable"
        /\ attempts <= perPhase
        /\ used < perSession
=============================================================================
