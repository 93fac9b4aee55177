------------------------------ MODULE Runtime -------------------------------
(***************************************************************************)
(* The runtime's handling of one compiler session: callers on their own    *)
(* threads reserve a phase, run its compiler process without the lock,     *)
(* record what it produced, validate it without the lock and commit it,    *)
(* while other callers retry, fail, cancel or retire, authority            *)
(* generations move, the journal refuses a write, and the process dies and *)
(* comes back.                                                             *)
(*                                                                         *)
(* Every region the code runs under Impl::mutex is one action.             *)
(***************************************************************************)
EXTENDS PhaseLifecycle, ArtifactRegistry, FiniteSets

CONSTANTS
  Threads,            \* callers of the public operations
  Order,              \* the plan's topological order, a sequence of all Phases
  Deps,               \* depends_on: [Phases -> SUBSET Phases]
  Mandatory,          \* the mandatory phases
  ImagePhases,        \* the phases whose commit registers a final candidate
  Domains,            \* authority domains with a generation; has "toolchain"
  Ops,                \* the public operations the callers use
  Failures,           \* the failure classes that executions end with
  Faults,             \* the journal, the workspace or the adapter may fail
  ReproRequired,      \* policy: reproducibility is REQUIRED
  MaxRetriesPerPhase, MaxRetriesPerSession, MaxAttempts,
  MaxRetryCalls,      \* bound: retries a session counts
  MaxReservations,    \* bound: identities one process hands out
  MaxArtifacts,       \* bound: artifacts in the registry
  MaxGeneration,      \* bound: generations of an authority domain
  MaxEpoch            \* bound: restarts

AllOps == {"run", "run_session", "retry", "commit", "report", "fail", "cancel",
           "cancel_session", "retire", "shutdown", "registry", "restart",
           "recover"}

ASSUME ConstantsAssumption ==
  /\ Order \in Seq(Phases) /\ Order # <<>>
  /\ \A p \in Phases : \E i \in DOMAIN Order : Order[i] = p
  /\ Deps \in [Phases -> SUBSET Phases]
  /\ Mandatory \subseteq Phases
  /\ ImagePhases \subseteq Phases
  /\ "toolchain" \in Domains
  /\ Domains \subseteq {"toolchain", "source", "target", "environment", "policy"}
  /\ Ops \subseteq AllOps
  /\ Failures \subseteq FailureClass \ {"none"}
  /\ Faults \in BOOLEAN
  /\ ReproRequired \in BOOLEAN
  /\ {MaxRetriesPerPhase, MaxRetriesPerSession, MaxAttempts, MaxRetryCalls, MaxReservations,
      MaxArtifacts, MaxGeneration, MaxEpoch} \subseteq Nat

VARIABLES
  session,      \* CompilerSession: state, session_retries_used, candidate_present
  phase,        \* PhaseRecord of each phase
  artifact,     \* the artifact registry
  registry,     \* current generation of each authority domain
  held,         \* the leases that are held
  nextId,       \* the next invocation (and lease) identity
  shuttingDown,
  epoch,
  durable,      \* the last session bundle in the journal
  thread        \* what each caller is doing

vars == <<session, phase, artifact, registry, held, nextId, shuttingDown,
          epoch, durable, thread>>

-----------------------------------------------------------------------------

SessionState == {"active", "recovering", "committed", "failed", "cancelled", "retired"}

Session == [state : SessionState, retries : Nat, candidate : BOOLEAN]

\* `inv' is active_invocation and `lease' the lease identity, 0 when absent.
PhaseRecord == [state    : PhaseState,
                gen      : Nat,
                inv      : Nat,
                lease    : Nat,
                failure  : FailureClass,
                attempts : Nat,
                inputs   : SUBSET Nat,
                outputs  : SUBSET Nat,
                commit   : BOOLEAN]

Bundle == [session   |-> session,
           phase     |-> phase,
           artifact  |-> artifact,
           registry  |-> registry]

BundleType == [session   : Session,
               phase     : [Phases -> PhaseRecord],
               artifact  : Seq(Artifact),
               registry  : [Domains -> Nat]]

PC == {"idle", "reserve", "launch", "execute", "abort", "check", "repro",
       "validate", "commit", "drive", "report", "halt", "cancelling", "stopping",
       "recover"}

\* A call in progress.  phase, gen and inv are its Reservation; `driver' says
\* that run_session made the call; `step' counts cancel_session's phases;
\* suspects and manual are the RecoveryPlan.
Call == [pc       : PC,
         phase    : Phases,
         gen      : Nat,
         inv      : Nat,
         retry    : BOOLEAN,
         driver   : BOOLEAN,
         step     : Nat,
         suspects : SUBSET Nat,
         manual   : BOOLEAN]

Idle == [pc |-> "idle", phase |-> Order[1], gen |-> 0, inv |-> 0,
         retry |-> FALSE, driver |-> FALSE, step |-> 0, suspects |-> {},
         manual |-> FALSE]

\* The generation every domain had when the session was bound to it.
BoundGeneration == 1

\* create_session_impl: the session, its phases and the first bundle.
Init ==
  /\ session = [state |-> "active", retries |-> 0, candidate |-> FALSE]
  /\ phase = [p \in Phases |->
                [state |-> "pending", gen |-> 1, inv |-> 0, lease |-> 0,
                 failure |-> "none", attempts |-> 0, inputs |-> {},
                 outputs |-> {}, commit |-> FALSE]]
  /\ artifact = <<>>
  /\ registry = [d \in Domains |-> BoundGeneration]
  /\ held = {}
  /\ nextId = 1
  /\ shuttingDown = FALSE
  /\ epoch = 1
  /\ durable = Bundle
  /\ thread = [t \in Threads |-> Idle]

-----------------------------------------------------------------------------
(* Shared steps.                                                            *)

\* persist: append the bundle of the new state.  An append that reports an
\* error may or may not have left the whole record on disk.
Persist(ok) ==
  \/ ok /\ durable' = Bundle'
  \/ ~ok /\ Faults /\ durable' \in {durable, Bundle'}

\* How run_phase_impl ends.  An error status ends a run_session call too; a
\* report continues it at `pc'.
Fail(t) == thread' = [thread EXCEPT ![t] = Idle]

Return(t, pc) ==
  thread' = [thread EXCEPT ![t] =
    IF thread[t].driver
    THEN [Idle EXCEPT !.pc = pc, !.driver = TRUE,
                      !.phase = IF pc = "report" THEN thread[t].phase ELSE Idle.phase]
    ELSE Idle]

Goto(t, pc) == thread' = [thread EXCEPT ![t].pc = pc]

\* The reservation a call holds is still the phase's current one.
Current(t) ==
  /\ phase[thread[t].phase].gen = thread[t].gen
  /\ phase[thread[t].phase].inv = thread[t].inv

\* compare_authority over the domains that can move, for registry contents r.
DomainsCurrent(r) == \A d \in Domains : r[d] = BoundGeneration

AllMandatoryCommitted(ph) == \A p \in Mandatory : ph[p].state = "committed"

\* Faulty variant: a dependency that has ended is enough.
ReadyWhenEnded(p) ==
  \A q \in Deps[p] : phase[q].state \in {"committed", "failed", "cancelled", "fenced", "retired"}

Ready(p) == \A q \in Deps[p] : phase[q].state = "committed"

\* resolve_inputs.
InputsOf(p) == UNION {phase[q].outputs : q \in Deps[p]}

InputsAuthoritative(p) ==
  \A a \in InputsOf(p) : artifact[a].authority = "authoritative" /\ Consumable(artifact[a])

-----------------------------------------------------------------------------
(* Reserving a phase: run_phase, retry_phase and the driver's calls.        *)

\* Every refusal of reserve() before it changes anything.
CanReserve(p, isRetry) ==
  /\ ~shuttingDown
  /\ session.state = "active"
  /\ phase[p].state \in IF isRetry THEN {"failed", "recovery_required"}
                                    ELSE {"pending", "ready", "recovery_required"}
  /\ Ready(p)
  /\ DomainsCurrent(registry)
  /\ InputsAuthoritative(p)
  /\ phase[p].attempts < MaxAttempts
  /\ nextId <= MaxReservations

\* reserve(): a new generation, attempt, invocation and lease.  When the
\* journal refuses, the caller is told so but the phase stays reserved.
Reserve(t, p, isRetry, driver) ==
  /\ CanReserve(p, isRetry)
  /\ phase' = [phase EXCEPT ![p] =
       [state    |-> "preparing",
        gen      |-> phase[p].gen + 1,
        inv      |-> nextId,
        lease    |-> nextId,
        failure  |-> "none",
        attempts |-> phase[p].attempts + 1,
        inputs   |-> InputsOf(p),
        outputs  |-> {},
        commit   |-> FALSE]]
  /\ held' = held \cup {nextId}
  /\ nextId' = nextId + 1
  /\ UNCHANGED <<session, artifact, registry, shuttingDown, epoch>>
  /\ \E ok \in BOOLEAN :
       /\ Persist(ok)
       /\ thread' = [thread EXCEPT ![t] =
            IF ok THEN [Idle EXCEPT !.pc = "launch", !.phase = p, !.gen = phase[p].gen + 1,
                                    !.inv = nextId, !.driver = driver]
            ELSE IF driver THEN [Idle EXCEPT !.pc = "report", !.phase = p, !.driver = TRUE]
            ELSE Idle]

RunPhase(t, p) ==
  /\ "run" \in Ops
  /\ thread[t].pc = "idle"
  /\ Reserve(t, p, FALSE, FALSE)

\* retry_phase, first region: the retry is decided and counted here, and the
\* phase reserved in a later region.
RetryPhase(t, p) ==
  /\ "retry" \in Ops
  /\ thread[t].pc = "idle"
  /\ RetryLegal(phase[p].state, phase[p].failure, phase[p].attempts,
                session.retries, MaxRetriesPerPhase, MaxRetriesPerSession)
  /\ session.retries < MaxRetryCalls
  /\ session' = [session EXCEPT !.retries = @ + 1]
  /\ thread' = [thread EXCEPT ![t] = [Idle EXCEPT !.pc = "reserve", !.phase = p, !.retry = TRUE]]
  /\ UNCHANGED <<phase, artifact, registry, held, nextId, shuttingDown, epoch, durable>>

ReserveDecided(t) ==
  /\ thread[t].pc = "reserve"
  /\ Reserve(t, thread[t].phase, thread[t].retry, thread[t].driver)

ReserveRefused(t) ==
  /\ thread[t].pc = "reserve"
  /\ ~CanReserve(thread[t].phase, thread[t].retry) \/ Faults
  /\ Return(t, "report")
  /\ UNCHANGED <<session, phase, artifact, registry, held, nextId, shuttingDown, epoch, durable>>

-----------------------------------------------------------------------------
(* run_session with one phase at a time.                                    *)

RunSession(t) ==
  /\ "run_session" \in Ops
  /\ thread[t].pc = "idle"
  /\ thread' = [thread EXCEPT ![t] = [Idle EXCEPT !.pc = "drive", !.driver = TRUE]]
  /\ UNCHANGED <<session, phase, artifact, registry, held, nextId, shuttingDown, epoch, durable>>

Schedulable ==
  {i \in DOMAIN Order :
     /\ phase[Order[i]].state \notin {"committed", "failed", "fenced", "cancelled", "retired"}
     /\ Ready(Order[i])}

\* One scheduling round.  The session is made active whatever it was.
Drive(t) ==
  /\ thread[t].pc = "drive"
  /\ UNCHANGED <<phase, artifact, registry, held, nextId, shuttingDown, epoch>>
  /\ \/ \E i \in Schedulable :
          /\ \A j \in Schedulable : i <= j
          /\ session' = [session EXCEPT !.state = "active"]
          /\ thread' = [thread EXCEPT ![t] = [Idle EXCEPT !.pc = "reserve", !.phase = Order[i],
                                                         !.driver = TRUE]]
          /\ UNCHANGED durable
     \/ /\ Schedulable = {}
        /\ AllMandatoryCommitted(phase)
        /\ session' = [session EXCEPT !.state = "active"]
        /\ thread' = [thread EXCEPT ![t] = Idle]
        /\ UNCHANGED durable
     \/ /\ Schedulable = {}
        /\ ~AllMandatoryCommitted(phase)
        /\ session' = [session EXCEPT !.state = "failed"]
        /\ thread' = [thread EXCEPT ![t] = Idle]
        /\ \E ok \in BOOLEAN : Persist(ok)

\* Faulty variant: a refusal is taken for progress.
ReportProgress(t) ==
  /\ thread[t].pc = "report"
  /\ Return(t, "drive")
  /\ UNCHANGED <<session, phase, artifact, registry, held, nextId, shuttingDown, epoch, durable>>

\* phase_status_report, for a driver: it goes on if the phase is committed now,
\* whoever committed it.
Report(t) ==
  /\ thread[t].pc = "report"
  /\ Return(t, IF phase[thread[t].phase].state = "committed" THEN "drive" ELSE "halt")
  /\ UNCHANGED <<session, phase, artifact, registry, held, nextId, shuttingDown, epoch, durable>>

\* A phase that did not commit stops the driver and fails an active session.
Halt(t) ==
  /\ thread[t].pc = "halt"
  /\ thread' = [thread EXCEPT ![t] = Idle]
  /\ UNCHANGED <<phase, artifact, registry, held, nextId, shuttingDown, epoch>>
  /\ IF session.state = "active"
     THEN /\ session' = [session EXCEPT !.state = "failed"]
          /\ \E ok \in BOOLEAN : Persist(ok)
     ELSE UNCHANGED <<session, durable>>

-----------------------------------------------------------------------------
(* Executing a reserved phase and recording the outcome.                    *)

\* execute_reserved, the region before the process runs.  It checks that the
\* reservation is current but not the state of the phase; building the
\* invocation may fail, and so may the journal.
Launch(t) ==
  LET p == thread[t].phase IN
  /\ thread[t].pc = "launch"
  /\ UNCHANGED <<session, artifact, registry, held, nextId, shuttingDown, epoch>>
  /\ \/ /\ Current(t)
        /\ phase' = [phase EXCEPT ![p].state = RecordTransition(@, "running")]
        /\ \E ok \in BOOLEAN : Persist(ok) /\ Goto(t, IF ok THEN "execute" ELSE "abort")
     \/ /\ ~Current(t) \/ Failures # {}
        /\ Goto(t, "abort")
        /\ UNCHANGED <<phase, durable>>

\* record_execution on the current reservation of p; `outcome' is "ok" or the
\* failure class of the execution.
RecordExecution(p, outcome) ==
  /\ IF outcome = "ok"
     THEN /\ Len(artifact) < MaxArtifacts
          /\ artifact' = Register(artifact, p, phase[p].gen)
          /\ phase' = [phase EXCEPT
               ![p].state   = RecordTransition(RecordTransition(@, "produced"), "validating"),
               ![p].outputs = @ \cup {Len(artifact) + 1}]
     ELSE /\ artifact' = artifact
          /\ phase' = [phase EXCEPT ![p].state   = RecordTransition(@, "failed"),
                                   ![p].failure = outcome]
  /\ UNCHANGED <<session, registry, held, nextId, shuttingDown, epoch>>

\* A full store makes record_execution stop, before or after `produced'.
RecordStopped(p) ==
  /\ Faults
  /\ phase' \in {phase, [phase EXCEPT ![p].state = RecordTransition(@, "produced")]}
  /\ UNCHANGED <<session, artifact, registry, held, nextId, shuttingDown, epoch, durable>>

\* The process has ended, or was never launched, and its thread records it.
Record(t) ==
  /\ thread[t].pc \in {"execute", "abort"}
  /\ \/ /\ Current(t)
        /\ \E outcome \in Failures \cup {"ok"} :
             /\ outcome = "ok" => thread[t].pc = "execute"
             /\ RecordExecution(thread[t].phase, outcome)
        /\ \E ok \in BOOLEAN :
             Persist(ok) /\ IF ok THEN Goto(t, "check") ELSE Fail(t)
     \/ /\ ~Current(t)
        /\ Fail(t)
        /\ UNCHANGED <<session, phase, artifact, registry, held, nextId, shuttingDown, epoch, durable>>
     \/ /\ Current(t)
        /\ RecordStopped(thread[t].phase)
        /\ Fail(t)

\* run_phase_impl between recording and validating.
Check(t) ==
  /\ thread[t].pc = "check"
  /\ IF phase[thread[t].phase].state = "failed" THEN Return(t, "halt")
     ELSE Goto(t, IF ReproRequired THEN "repro" ELSE "validate")
  /\ UNCHANGED <<session, phase, artifact, registry, held, nextId, shuttingDown, epoch, durable>>

\* reproducibility_verify and what run_phase_impl does with a divergence.  The
\* phase is failed and its outputs revoked as it stands after the second run.
Reproduce(t) ==
  LET p == thread[t].phase IN
  /\ thread[t].pc = "repro"
  /\ UNCHANGED <<session, registry, held, nextId, shuttingDown, epoch>>
  /\ \/ /\ Goto(t, "validate")
        /\ UNCHANGED <<phase, artifact, durable>>
     \/ /\ phase' = [phase EXCEPT ![p].state   = RecordTransition(@, "failed"),
                                 ![p].failure = "refused"]
        /\ artifact' = RevokePhaseOutputs(artifact, {<<p, phase[p].gen>>})
        /\ \E ok \in BOOLEAN : Persist(ok) /\ IF ok THEN Return(t, "report") ELSE Fail(t)

\* validate_phase_outputs: the adapter has judged, without the lock, and its
\* evidence is applied to whatever the phase holds now.
Validate(t) ==
  LET p == thread[t].phase IN
  /\ thread[t].pc = "validate"
  /\ UNCHANGED <<session, registry, held, nextId, shuttingDown, epoch>>
  /\ \/ /\ artifact' = SetStates(artifact, phase[p].outputs, "valid", p, thread[t].gen)
        /\ phase' = [phase EXCEPT ![p].state = RecordTransition(@, "commit_ready")]
        /\ \E ok \in BOOLEAN :
             Persist(ok) /\ IF ok THEN Goto(t, "commit") ELSE Fail(t)
     \/ \E f \in Failures :
        /\ artifact' = SetStates(artifact, phase[p].outputs, "corrupt", p, thread[t].gen)
        /\ phase' = [phase EXCEPT ![p].state   = RecordTransition(@, "failed"),
                                 ![p].failure = f]
        /\ \E ok \in BOOLEAN : Persist(ok) /\ IF ok THEN Return(t, "report") ELSE Fail(t)
     \/ /\ Faults
        /\ Fail(t)
        /\ UNCHANGED <<phase, artifact, durable>>

-----------------------------------------------------------------------------
(* commit_reserved: one region, six outcomes.                               *)

\* Faulty variant: the reservation is not compared with the phase.
CommittableByState(t) == phase[thread[t].phase].state = "commit_ready"

Committable(t) ==
  /\ Current(t)
  /\ phase[thread[t].phase].state = "commit_ready"

CommitRefused(t) ==
  /\ thread[t].pc = "commit"
  /\ ~Committable(t)
  /\ Fail(t)
  /\ UNCHANGED <<session, phase, artifact, registry, held, nextId, shuttingDown, epoch, durable>>

\* The toolchain cannot be probed again: the phase is fenced, its lease kept.
CommitUnprobed(t) ==
  LET p == thread[t].phase IN
  /\ thread[t].pc = "commit"
  /\ Committable(t)
  /\ "registry" \in Ops
  /\ phase' = [phase EXCEPT ![p].state = RecordTransition(@, "fenced"), ![p].failure = "refused"]
  /\ artifact' = RevokePhaseOutputs(artifact, {<<p, phase[p].gen>>})
  /\ UNCHANGED <<session, registry, held, nextId, shuttingDown, epoch>>
  /\ \E ok \in BOOLEAN : Persist(ok)
  /\ Fail(t)

\* The re-probe found the toolchain as recorded, or moved its generation.
Probed ==
  \/ registry' = registry
  \/ /\ "registry" \in Ops
     /\ registry["toolchain"] < MaxGeneration
     /\ registry' = [registry EXCEPT !["toolchain"] = @ + 1]

AuthorityCurrent(p) ==
  /\ session.state \in {"active", "recovering"}
  /\ DomainsCurrent(registry')
  /\ phase[p].lease \in held

CommitFenced(t) ==
  LET p == thread[t].phase IN
  /\ thread[t].pc = "commit"
  /\ Committable(t)
  /\ Probed
  /\ ~AuthorityCurrent(p)
  /\ phase' = [phase EXCEPT ![p].state   = RecordTransition(@, "fenced"),
                           ![p].failure = "invalidated"]
  /\ artifact' = RevokePhaseOutputs(artifact, {<<p, phase[p].gen>>})
  /\ held' = held \ {phase[p].lease}
  /\ UNCHANGED <<session, nextId, shuttingDown, epoch>>
  /\ \E ok \in BOOLEAN : Persist(ok) /\ IF ok THEN Return(t, "halt") ELSE Fail(t)

\* Authority holds: the outputs are granted authority in the live registry.
CommitGranted(t) ==
  /\ thread[t].pc = "commit"
  /\ Committable(t)
  /\ Probed
  /\ AuthorityCurrent(thread[t].phase)
  /\ artifact' = GrantAuthority(artifact, phase[thread[t].phase].outputs)
  /\ UNCHANGED <<nextId, shuttingDown, epoch>>

\* One output was not consumable.
CommitUngranted(t) ==
  LET p == thread[t].phase IN
  /\ CommitGranted(t)
  /\ Grantable(artifact, phase[p].outputs) # phase[p].outputs
  /\ Fail(t)
  /\ UNCHANGED <<session, phase, held, durable>>

\* Faulty variant: a candidate is enough.
CommittedSessionEarly(p) ==
  [session EXCEPT !.candidate = TRUE, !.state = "committed"]

\* The committed projection of the session and of its phases.
CommittedPhases(p) ==
  [phase EXCEPT ![p].state = RecordTransition(@, "committed"), ![p].commit = TRUE]

CommittedSession(p) ==
  LET candidate == session.candidate \/ p \in ImagePhases
  IN  [session EXCEPT
         !.candidate = candidate,
         !.state = IF candidate /\ AllMandatoryCommitted(CommittedPhases(p))
                   THEN "committed" ELSE @]

\* Faulty variant: the projection is published whether or not it was saved.
CommitPublishedFirst(t) ==
  LET p == thread[t].phase IN
  /\ CommitGranted(t)
  /\ Grantable(artifact, phase[p].outputs) = phase[p].outputs
  /\ session' = CommittedSession(p)
  /\ phase' = CommittedPhases(p)
  /\ held' = held \ {phase[p].lease}
  /\ durable' \in {durable, Bundle'}
  /\ Return(t, "drive")

CommitPublished(t) ==
  LET p == thread[t].phase IN
  /\ CommitGranted(t)
  /\ Grantable(artifact, phase[p].outputs) = phase[p].outputs
  /\ session' = CommittedSession(p)
  /\ phase' = CommittedPhases(p)
  /\ held' = held \ {phase[p].lease}
  /\ durable' = Bundle'
  /\ Return(t, "drive")

\* The journal refused the projection, which is discarded.
CommitUnpersisted(t) ==
  LET p == thread[t].phase IN
  /\ CommitGranted(t)
  /\ Grantable(artifact, phase[p].outputs) = phase[p].outputs
  /\ Faults
  /\ durable' \in {durable, [session  |-> CommittedSession(p), phase    |-> CommittedPhases(p),
                            artifact |-> artifact',          registry |-> registry']}
  /\ Fail(t)
  /\ UNCHANGED <<session, phase, held>>

\* commit_phase, first region: the caller names the current generation and
\* invocation, and validates and commits them itself.
CommitPhase(t, p) ==
  /\ "commit" \in Ops
  /\ thread[t].pc = "idle"
  /\ phase[p].state \in {"validating", "commit_ready"}
  /\ thread' = [thread EXCEPT ![t] = [Idle EXCEPT !.pc = "validate", !.phase = p,
                                                 !.gen = phase[p].gen, !.inv = phase[p].inv]]
  /\ UNCHANGED <<session, phase, artifact, registry, held, nextId, shuttingDown, epoch, durable>>

-----------------------------------------------------------------------------
(* Reports, failures, cancellation, retirement.                             *)

\* report_output for the current generation and invocation.
ReportOutput(p) ==
  /\ "report" \in Ops
  /\ phase[p].inv # 0
  /\ UNCHANGED thread
  /\ \/ /\ \E outcome \in Failures \cup {"ok"} : RecordExecution(p, outcome)
        /\ \E ok \in BOOLEAN : Persist(ok)
     \/ RecordStopped(p)

\* fail_phase for the current generation.  The invocation stays active.
FailPhase(p, f) ==
  /\ "fail" \in Ops
  /\ phase[p].state # "committed"
  /\ phase' = [phase EXCEPT
       ![p].state = IF @ \in RetainsCommitAuthority THEN RecordTransition(@, "failed") ELSE @,
       ![p].failure = f]
  /\ artifact' = RevokePhaseOutputs(artifact, {<<p, phase[p].gen>>})
  /\ held' = held \ {phase[p].lease}
  /\ UNCHANGED <<session, registry, nextId, shuttingDown, epoch, thread>>
  /\ \E ok \in BOOLEAN : Persist(ok)

\* Faulty variants: every lease is revoked; the phase keeps its state.
CancelPhaseBodyAllLeases(p) ==
  /\ phase' = [phase EXCEPT ![p].state = RecordTransition(@, "cancelled"), ![p].inv = 0]
  /\ artifact' = RevokePhaseOutputs(artifact, {<<p, phase[p].gen>>})
  /\ held' = {}
  /\ UNCHANGED <<session, registry, nextId, shuttingDown, epoch, durable>>

CancelPhaseBodyKeepsState(p) ==
  /\ phase' = [phase EXCEPT ![p].inv = 0]
  /\ artifact' = RevokePhaseOutputs(artifact, {<<p, phase[p].gen>>})
  /\ held' = held \ {phase[p].lease}
  /\ UNCHANGED <<session, registry, nextId, shuttingDown, epoch, durable>>

\* cancel_phase.
CancelPhaseBody(p) ==
  /\ phase' = [phase EXCEPT ![p] =
       IF phase[p].state \in RetainsCommitAuthority
       THEN [phase[p] EXCEPT !.state = RecordTransition(phase[p].state, "cancelled"),
                             !.failure = "retryable", !.inv = 0]
       ELSE [phase[p] EXCEPT !.inv = 0]]
  /\ artifact' = RevokePhaseOutputs(artifact, {<<p, phase[p].gen>>})
  /\ held' = held \ {phase[p].lease}
  /\ UNCHANGED <<session, registry, nextId, shuttingDown, epoch>>
  /\ \E ok \in BOOLEAN : Persist(ok)

CancelPhase(p) ==
  /\ "cancel" \in Ops
  /\ phase[p].state # "committed"
  /\ CancelPhaseBody(p)
  /\ UNCHANGED thread

CancelSession(t) ==
  /\ "cancel_session" \in Ops
  /\ thread[t].pc = "idle"
  /\ thread' = [thread EXCEPT ![t] = [Idle EXCEPT !.pc = "cancelling", !.step = 1]]
  /\ UNCHANGED <<session, phase, artifact, registry, held, nextId, shuttingDown, epoch, durable>>

\* cancel_session cancels each phase in its own region; a refusal is ignored.
CancelNext(t) ==
  LET p == Order[thread[t].step] IN
  /\ thread[t].pc = "cancelling"
  /\ thread[t].step \in DOMAIN Order
  /\ thread' = [thread EXCEPT ![t].step = @ + 1]
  /\ IF phase[p].state = "committed"
     THEN UNCHANGED <<session, phase, artifact, registry, held, nextId, shuttingDown, epoch, durable>>
     ELSE CancelPhaseBody(p)

CancelDone(t) ==
  /\ thread[t].pc = "cancelling"
  /\ thread[t].step \notin DOMAIN Order
  /\ session' = [session EXCEPT !.state = "cancelled"]
  /\ thread' = [thread EXCEPT ![t] = Idle]
  /\ UNCHANGED <<phase, artifact, registry, held, nextId, shuttingDown, epoch>>
  /\ \E ok \in BOOLEAN : Persist(ok)

\* retire_session.  Artifacts keep whatever authority they have.
RetireSession ==
  /\ "retire" \in Ops
  /\ session' = [session EXCEPT !.state = "retired"]
  /\ phase' = [p \in Phases |-> [phase[p] EXCEPT !.state = RecordTransition(@, "retired")]]
  /\ held' = held \ {phase[p].lease : p \in Phases}
  /\ UNCHANGED <<artifact, registry, nextId, shuttingDown, epoch, thread>>
  /\ \E ok \in BOOLEAN : Persist(ok)

-----------------------------------------------------------------------------
(* Authority generations, shutdown, restart and recovery.                   *)

\* refresh, invalidate and apply_toolchain_observation, and revise of the
\* other registries: the domain's generation advances.
MoveGeneration(d) ==
  /\ "registry" \in Ops
  /\ registry[d] < MaxGeneration
  /\ registry' = [registry EXCEPT ![d] = @ + 1]
  /\ UNCHANGED <<session, phase, artifact, held, nextId, shuttingDown, epoch, durable, thread>>

\* fence_all_in_flight, on the phases and on the registry.
Fenced(ph) ==
  [p \in Phases |->
     IF ph[p].state \in InFlight
     THEN [ph[p] EXCEPT !.state = "fenced", !.failure = "invalidated", !.inv = 0]
     ELSE ph[p]]

\* Faulty variant: the outputs keep what authority they have.
FencedOutputsKept(arts, ph) == arts

FencedOutputs(arts, ph) ==
  RevokePhaseOutputs(arts, {<<p, ph[p].gen>> : p \in {q \in Phases : ph[q].state \in InFlight}})

Finished == session.state \in {"retired", "committed"}

\* shutdown, first region.
Shutdown(t) ==
  /\ "shutdown" \in Ops
  /\ thread[t].pc = "idle"
  /\ ~shuttingDown
  /\ shuttingDown' = TRUE
  /\ IF Finished
     THEN UNCHANGED <<phase, artifact, held>>
     ELSE /\ phase' = Fenced(phase)
          /\ artifact' = FencedOutputs(artifact, phase)
          /\ held' = held \ {phase[p].lease : p \in {q \in Phases : phase[q].state \in InFlight}}
  /\ thread' = [thread EXCEPT ![t] = [Idle EXCEPT !.pc = "stopping"]]
  /\ UNCHANGED <<session, registry, nextId, epoch, durable>>

\* shutdown, after the children were terminated: the session is saved, failed
\* if it was in progress.
ShutdownSave(t) ==
  /\ thread[t].pc = "stopping"
  /\ thread' = [thread EXCEPT ![t] = Idle]
  /\ UNCHANGED <<phase, artifact, registry, held, nextId, shuttingDown, epoch>>
  /\ IF Finished
     THEN UNCHANGED <<session, durable>>
     ELSE /\ session' = [session EXCEPT !.state = IF @ = "active" THEN "failed" ELSE @]
          /\ \E ok \in BOOLEAN : Persist(ok)

Reopen ==
  /\ "shutdown" \in Ops
  /\ shuttingDown
  /\ shuttingDown' = FALSE
  /\ UNCHANGED <<session, phase, artifact, registry, held, nextId, epoch, durable, thread>>

\* Runtime::create over an existing journal, after a stop or a crash at any
\* point.  The toolchain and the sources come back with their generation, the
\* other domains with the initial one; leases and identity allocators start
\* afresh.
DurableDomains == {"toolchain", "source"}

Restart ==
  /\ "restart" \in Ops
  /\ epoch < MaxEpoch
  /\ epoch' = epoch + 1
  /\ session' = [durable.session EXCEPT
                   !.state = IF @ \in {"committed", "retired"} THEN @ ELSE "recovering"]
  /\ phase' = Fenced(durable.phase)
  /\ artifact' = FencedOutputs(durable.artifact, durable.phase)
  /\ registry' = [d \in Domains |-> IF d \in DurableDomains THEN durable.registry[d]
                                                           ELSE BoundGeneration]
  /\ held' = {}
  /\ nextId' = 1
  /\ shuttingDown' = FALSE
  /\ thread' = [t \in Threads |-> Idle]
  /\ durable' = Bundle'

\* recovery_restart_phase.  A committed phase is a boundary only if its bound
\* authority is current, its lease included, and the observation that
\* plan_recovery makes carries no lease.
Boundary(p) ==
  /\ phase[p].state = "committed"
  /\ session.state \in {"active", "recovering"}
  /\ DomainsCurrent(registry)
  /\ phase[p].lease = 0

RestartCandidates == {i \in DOMAIN Order : Order[i] \in Mandatory /\ ~Boundary(Order[i])}

\* plan_recovery: the outputs to hash again, and whether a human must decide.
PlanRecovery(t) ==
  /\ "recover" \in Ops
  /\ thread[t].pc = "idle"
  /\ thread' = [thread EXCEPT ![t] = [Idle EXCEPT
       !.pc = "recover",
       !.suspects = {a \in UNION {phase[p].outputs : p \in {q \in Phases : phase[q].state = "committed"}} :
                       artifact[a].authority # "authoritative"},
       !.manual = \E i \in RestartCandidates :
                    /\ \A j \in RestartCandidates : i <= j
                    /\ phase[Order[i]].state = "failed"
                    /\ phase[Order[i]].failure = "unknown"]]
  /\ UNCHANGED <<session, phase, artifact, registry, held, nextId, shuttingDown, epoch, durable>>

\* apply_recovery, second region, with the plan made in the first.
Recovered(r) ==
  IF r.state \in {"committed", "failed", "cancelled", "retired"} THEN r
  ELSE [r EXCEPT !.state = IF @ \in RetainsCommitAuthority THEN RecordTransition(@, "ready")
                           ELSE IF @ = "fenced" THEN "retired" ELSE @,
                 !.failure = "none"]

ApplyRecovery(t) ==
  /\ thread[t].pc = "recover"
  /\ \E bad \in SUBSET thread[t].suspects : artifact' = Revalidate(artifact, bad)
  /\ IF thread[t].manual
     THEN session' = [session EXCEPT !.state = "recovering"] /\ UNCHANGED phase
     ELSE IF session.state = "recovering"
     THEN /\ session' = [session EXCEPT !.state = "active"]
          /\ phase' = [p \in Phases |-> Recovered(phase[p])]
     ELSE UNCHANGED <<session, phase>>
  /\ thread' = [thread EXCEPT ![t] = Idle]
  /\ UNCHANGED <<registry, held, nextId, shuttingDown, epoch>>
  /\ \E ok \in BOOLEAN : Persist(ok)

-----------------------------------------------------------------------------

\* The steps a call takes once it has been made.
Step(t) ==
  \/ ReserveDecided(t) \/ ReserveRefused(t) \/ Launch(t) \/ Record(t)
  \/ Check(t) \/ Reproduce(t) \/ Validate(t)
  \/ CommitRefused(t) \/ CommitUnprobed(t) \/ CommitFenced(t)
  \/ CommitUngranted(t) \/ CommitPublished(t) \/ CommitUnpersisted(t)
  \/ Drive(t) \/ Report(t) \/ Halt(t) \/ CancelNext(t) \/ CancelDone(t)
  \/ ShutdownSave(t) \/ ApplyRecovery(t)

Next ==
  \/ \E t \in Threads :
       \/ Step(t)
       \/ \E p \in Phases : RunPhase(t, p) \/ RetryPhase(t, p) \/ CommitPhase(t, p)
       \/ RunSession(t) \/ CancelSession(t) \/ Shutdown(t) \/ PlanRecovery(t)
  \/ \E p \in Phases : ReportOutput(p) \/ CancelPhase(p) \/ \E f \in Failures : FailPhase(p, f)
  \/ RetireSession \/ Reopen
  \/ \E d \in Domains : MoveGeneration(d)
  \/ Restart

Spec == Init /\ [][Next]_vars

\* Every call that has been made goes on: its thread is scheduled, and the
\* supervisor bounds the run time of a child process.
FairSpec == Spec /\ \A t \in Threads : WF_vars(Step(t))

-----------------------------------------------------------------------------

TypeOK ==
  /\ session \in Session
  /\ phase \in [Phases -> PhaseRecord]
  /\ artifact \in Seq(Artifact)
  /\ registry \in [Domains -> Nat]
  /\ held \in SUBSET Nat
  /\ nextId \in Nat
  /\ shuttingDown \in BOOLEAN
  /\ epoch \in Nat
  /\ durable \in BundleType
  /\ thread \in [Threads -> Call]

=============================================================================
