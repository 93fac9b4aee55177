-------------------------- MODULE RuntimeProperties --------------------------
(***************************************************************************)
(* What Runtime is checked against.                                        *)
(***************************************************************************)
EXTENDS Runtime

\* commit_phase's promise (runtime.hpp): the generations that committed.
LedgerOf(ph) == [p \in Phases |-> IF ph[p].commit THEN ph[p].gen ELSE 0]

Ledger == INSTANCE CommitLedger WITH ledger <- LedgerOf(phase)

\* The runtime implements the commit ledger: whatever callers, journal errors,
\* restarts and recoveries do, a phase commits at most once, after its
\* dependencies, and a commit is never lost or replaced by another generation
\* (commit_reserved, reserve, Runtime::create).
ImplementsLedger == Ledger!Spec

\* "A caller that observes a successful durable commit can restart the runtime
\* and recover that phase as committed": a commit that is visible in memory is
\* in the journal, at the same generation (commit_reserved persists before it
\* assigns *session).
CommitIsDurable ==
  \A p \in Phases : phase[p].commit =>
    /\ durable.phase[p].commit
    /\ durable.phase[p].gen = phase[p].gen
    /\ durable.phase[p].state \in {"committed", "retired"}

\* The auditor's rules for artifacts: an authoritative artifact is valid, is an
\* output of the current generation of the phase that produced it, and that
\* phase has committed (audit_session, outputs).
AuthorityNeedsCommit ==
  \A a \in DOMAIN artifact : artifact[a].authority = "authoritative" =>
    /\ Consumable(artifact[a])
    /\ artifact[a].gen = phase[artifact[a].phase].gen
    /\ a \in phase[artifact[a].phase].outputs
    /\ phase[artifact[a].phase].commit

\* No artifact becomes authoritative on the strength of a validation that was
\* made for another generation of its phase, however late that validation is
\* applied (validate_phase_outputs applies evidence without a generation check;
\* commit_reserved makes one).
AuthorityIsVouched ==
  \A a \in DOMAIN artifact : artifact[a].authority = "authoritative" => artifact[a].vouched

\* The auditor's rule for inputs: what a phase in flight or committed consumes
\* was produced by a phase it depends on, in a generation that committed and is
\* still the producer's (resolve_inputs, audit_session).
InputsFromCommitted ==
  \A p \in Phases : phase[p].state \in InFlight \cup {"committed"} =>
    \A a \in phase[p].inputs :
      /\ artifact[a].phase \in Deps[p]
      /\ artifact[a].gen = phase[artifact[a].phase].gen
      /\ phase[artifact[a].phase].commit

\* The auditor's rule for sessions: a COMMITTED session has every mandatory
\* phase committed and a final candidate (commit_reserved, audit_session).
SessionCommitSound ==
  session.state = "committed" => AllMandatoryCommitted(phase) /\ session.candidate

\* A phase in flight has exactly one live lease of its own, so the lease test of
\* the commit can tell its reservation from any other (reserve, LeaseTable).
InFlightHoldsLease ==
  \A p, q \in Phases : phase[p].state \in InFlight =>
    /\ phase[p].lease \in held
    /\ q # p /\ phase[q].state \in InFlight => phase[q].lease # phase[p].lease

\* A phase in flight always has a caller that will conclude it: none is left in
\* a state that reserve() and evaluate_retry() both refuse for ever.
InFlightIsOwned ==
  \A p \in Phases : phase[p].state \in InFlight =>
    \E t \in Threads :
      /\ thread[t].pc \in {"launch", "execute", "abort", "check", "repro", "validate", "commit"}
      /\ thread[t].phase = p
      /\ Current(t)

\* Authority that was revoked is never restored while the process lives: a late
\* completion of a cancelled, failed or fenced attempt cannot bring its outputs
\* back (revoke_phase_outputs, set_authority).
NoResurrection ==
  [][epoch' = epoch =>
       \A a \in DOMAIN artifact :
         artifact[a].authority = "revoked" => artifact'[a].authority = "revoked"]_vars

\* Concurrent retries cannot push a session past its retry ceiling
\* (retry_phase counts the retry in the region that decides it).
SessionRetryCeiling == session.retries <= MaxRetriesPerSession

\* "Both ceilings are enforced (per phase and per session)": no phase is
\* attempted more often than the policy's retries plus the first attempt.
PhaseRetryCeiling == \A p \in Phases : phase[p].attempts <= MaxRetriesPerPhase + 1

\* What is fenced has no authority: not even the outputs whose authority was
\* granted before a journal error or a crash survive the fence (commit_reserved
\* grants before it persists; fence_all_in_flight and Runtime::create revoke).
FencedLosesAuthority ==
  \A a \in DOMAIN artifact :
    LET r == phase[artifact[a].phase]
    IN  r.state = "fenced" /\ r.gen = artifact[a].gen => artifact[a].authority # "authoritative"

\* Every call returns: no combination of concurrent drivers, retries and
\* cancellations makes a caller loop or wait for ever (run_session_impl,
\* run_phase_impl, cancel_session).
CallsReturn == \A t \in Threads : thread[t].pc # "idle" ~> thread[t].pc = "idle"

\* An attempt that was started is concluded one way or another, so that the
\* phase can be retried or the session finished.
AttemptsConclude == \A p \in Phases : phase[p].state \in InFlight ~> phase[p].state \notin InFlight

-----------------------------------------------------------------------------
(* Statements of the documentation, the comments and the auditor that the   *)
(* code does not keep.                                                      *)

\* README: the commit is the only operation that makes an output current and a
\* divergent completion is refused; the outputs of a committed phase never
\* change while it is committed.
CommittedResultFinal ==
  [][\A p \in Phases : phase[p].state = "committed" /\ phase'[p].state = "committed" =>
       phase'[p].outputs = phase[p].outputs]_vars

\* The auditor: every artifact that a phase consumes is authoritative.
ConsumedInputsAuthoritative ==
  \A p \in Phases : phase[p].state \in InFlight \cup {"committed"} =>
    \A a \in phase[p].inputs : artifact[a].authority = "authoritative"
=============================================================================
