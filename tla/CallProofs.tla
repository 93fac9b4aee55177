----------------------------- MODULE CallProofs -----------------------------
(***************************************************************************)
(* The calls and the phases they work on.  Which region a call with the    *)
(* current reservation has reached says which state its phase is in; from  *)
(* this follows what an artifact went through before it became             *)
(* authoritative.                                                          *)
(***************************************************************************)
EXTENDS RuntimeProofs

\* Most leaves are first-order and go to Zenon; one that needs arithmetic or
\* typed records cites SMT.
USE Zenon

\* The regions of a call that holds a reservation: up to the record of the
\* execution, and after it.
Executing == {"launch", "execute", "abort"}

Judging == {"check", "repro", "validate"}

Working == Executing \cup Judging \cup {"commit"}

\* Every output of p was accepted by a validation for its own generation.
Passed(p) == \A a \in phase[p].outputs : Consumable(artifact[a]) /\ artifact[a].vouched

\* A call with the current reservation of a phase in flight has brought it to
\* the state its region expects.
OnStage(t) ==
  LET st == phase[thread[t].phase].state IN
  thread[t].pc \in Working /\ Current(t) /\ st \in InFlight =>
    /\ thread[t].pc = "launch" => st = "preparing"
    /\ thread[t].pc = "execute" => st = "running"
    /\ thread[t].pc = "abort" => st \in {"preparing", "running"}
    /\ thread[t].pc \in Judging => st \in {"validating", "commit_ready"}
    /\ thread[t].pc = "commit" => st = "commit_ready" /\ Passed(thread[t].phase)

\* A reservation is real, no newer than its phase, and is executed by one call.
OwnReservation(t) ==
  /\ thread[t].pc \in Working => thread[t].inv # 0 /\ thread[t].gen <= phase[thread[t].phase].gen
  /\ thread[t].pc \in Executing =>
       \A u \in Threads : /\ thread[u].pc \in Executing
                          /\ thread[u].phase = thread[t].phase
                          /\ thread[u].gen = thread[t].gen
                          => u = t

Vouched(arts) == \A a \in DOMAIN arts : arts[a].authority = "authoritative" => arts[a].vouched

CallInv ==
  /\ nextId # 0
  /\ \A p \in Phases : phase[p].state \in InFlight => phase[p].inv # 0
  /\ \A t \in Threads : OwnReservation(t) /\ OnStage(t)
  /\ Vouched(artifact) /\ Vouched(durable.artifact)

-----------------------------------------------------------------------------
(* How a step moves the calls.                                              *)

\* u goes on with the same reservation, leaving alone the state of its phase,
\* unless it has just recorded a failure;
GoesOn(u) ==
  /\ thread'[u].phase = thread[u].phase
  /\ thread'[u].gen = thread[u].gen
  /\ thread'[u].inv = thread[u].inv
  /\ \/ thread'[u].pc = thread[u].pc
     \/ thread[u].pc = "launch" /\ thread'[u].pc = "abort"
     \/ thread[u].pc \in Judging /\ thread'[u].pc \in Judging
     \/ /\ thread[u].pc \in Executing /\ thread'[u].pc \in Judging
        /\ phase'[thread[u].phase].state \notin InFlight

\* or takes up the reservation of a phase that has been recorded.
Joins(u) ==
  /\ thread'[u].pc = "validate"
  /\ thread'[u].phase \in Phases
  /\ thread'[u].gen = phase[thread'[u].phase].gen
  /\ thread'[u].inv = phase[thread'[u].phase].inv
  /\ phase[thread'[u].phase].state \in {"validating", "commit_ready"}
  /\ phase' = phase

CallsGoOn == \A u \in Threads : thread'[u].pc \in Working => GoesOn(u) \/ Joins(u)

\* The other calls go on.
LEMMA OthersGoOn ==
  ASSUME NEW t \in Threads, Elsewhere(t), thread'[t].pc \in Working => GoesOn(t) \/ Joins(t)
  PROVE  CallsGoOn
  BY DEF Elsewhere, CallsGoOn, GoesOn

\* A call that leaves its regions.
LEMMA LeavesGoOn ==
  ASSUME TypeOK, NEW t \in Threads,
         \/ Fail(t)
         \/ \E pc \in {"halt", "report", "drive"} : Return(t, pc)
         \/ \E c : thread' = [thread EXCEPT ![t] = c] /\ c.pc \notin Working
  PROVE  CallsGoOn
<1>1. Elsewhere(t) /\ thread'[t].pc \notin Working
  <2>1. CASE Fail(t)
    BY <2>1, FailFacts DEF Working, Executing, Judging
  <2>2. CASE \E pc \in {"halt", "report", "drive"} : Return(t, pc)
    BY <2>2, ReturnFacts DEF Working, Executing, Judging
  <2>3. CASE \E c : thread' = [thread EXCEPT ![t] = c] /\ c.pc \notin Working
    BY <2>3, StartFacts
  <2> QED
    BY <2>1, <2>2, <2>3
<1> QED
  BY <1>1, OthersGoOn

\* Running a phase, other than by taking it to its next state.
LEMMA RunGoesOn ==
  ASSUME TypeOK, NEW t \in Threads, ~Advances(t),
         Launch(t) \/ Record(t) \/ Check(t) \/ Reproduce(t) \/ Validate(t)
  PROVE  CallsGoOn
<1> DEFINE p == thread[t].phase
<1>1. phase \in [Phases -> PhaseRecord] /\ p \in Phases
  BY CallType DEF TypeOK
<1>2. CASE Launch(t)
  <2>1. thread[t].pc = "launch" /\ UNCHANGED <<artifact, nextId>>
    BY <1>2 DEF Launch
  <2>2. Goto(t, "abort")
    BY <1>2, <2>1 DEF Launch, Advances, Launches
  <2> QED
    BY <2>1, <2>2, GotoFacts, OthersGoOn DEF GoesOn
<1>3. CASE Record(t)
  <2>1. CASE Fail(t)
    BY <2>1, LeavesGoOn
  <2>2. ASSUME NEW outcome \in Failures \cup {"ok"}, RecordExecution(p, outcome),
               outcome = "ok" => thread[t].pc = "execute", Current(t), Goto(t, "check")
        PROVE  CallsGoOn
    <3>1. outcome # "ok"
      BY <2>2 DEF Advances, Records
    <3>2. phase' = [phase EXCEPT ![p].state = RecordTransition(@, "failed"), ![p].failure = outcome]
      BY <2>2, <3>1 DEF RecordExecution
    <3>3. phase[p].state \in PhaseState
      BY <1>1 DEF PhaseRecord
    <3> DEFINE s == RecordTransition(phase[p].state, "failed")
    <3>4. s \notin InFlight
      BY <3>3, FailedEnds
    <3>5. phase' = [phase EXCEPT ![p].state = s, ![p].failure = outcome]
      BY <3>2
    <3> HIDE DEF s, p
    <3>6. phase'[p].state \notin InFlight
      BY <1>1, <3>4, <3>5, UpdateFailure DEF Updated
    <3>7. thread[t].pc \in Executing /\ "check" \in Judging
      BY <1>3 DEF Record, Executing, Judging
    <3>8. Elsewhere(t) /\ GoesOn(t)
      BY <2>2, <3>6, <3>7, GotoFacts DEF GoesOn, p
    <3> QED
      BY <3>8, OthersGoOn
  <2> QED
    BY <1>3, <2>1, <2>2 DEF Record
<1>4. CASE Check(t)
  <2>1. CASE Return(t, "halt")
    BY <2>1, LeavesGoOn
  <2>2. ASSUME NEW pc \in {"repro", "validate"}, Goto(t, pc)
        PROVE  CallsGoOn
    BY <1>4, <2>2, GotoFacts, OthersGoOn DEF Check, GoesOn, Judging
  <2> QED
    BY <1>4, <2>1, <2>2 DEF Check
<1>5. CASE Reproduce(t)
  <2>1. CASE Return(t, "report") \/ Fail(t)
    BY <2>1, LeavesGoOn
  <2>2. CASE Goto(t, "validate")
    BY <1>5, <2>2, GotoFacts, OthersGoOn DEF Reproduce, GoesOn, Judging
  <2> QED
    BY <1>5, <2>1, <2>2 DEF Reproduce
<1>6. CASE Validate(t)
  <2>1. nextId' = nextId
    BY <1>6 DEF Validate
  <2>2. Return(t, "report") \/ Fail(t)
    BY <1>6, <2>1 DEF Validate, Advances, Accepts
  <2> QED
    BY <2>2, LeavesGoOn
<1> QED
  BY <1>2, <1>3, <1>4, <1>5, <1>6

\* The other regions of a call.
LEMMA StepGoesOn ==
  ASSUME TypeOK, NEW t \in Threads,
         \/ ReserveRefused(t) \/ CommitRefused(t) \/ CommitUnprobed(t) \/ CommitFenced(t)
         \/ CommitUngranted(t) \/ CommitPublished(t) \/ CommitUnpersisted(t)
         \/ Drive(t) \/ Report(t) \/ Halt(t) \/ CancelNext(t) \/ CancelDone(t)
         \/ ShutdownSave(t) \/ ApplyRecovery(t)
  PROVE  CallsGoOn
<1>1. CASE \/ ReserveRefused(t) \/ Report(t) \/ CommitRefused(t) \/ CommitUnprobed(t)
           \/ CommitUngranted(t) \/ CommitUnpersisted(t)
  <2>1. Fail(t) \/ \E pc \in {"halt", "report", "drive"} : Return(t, pc)
    BY <1>1 DEF ReserveRefused, Report, CommitRefused, CommitUnprobed, CommitUngranted, CommitUnpersisted
  <2> QED
    BY <2>1, LeavesGoOn
<1>2. CASE CommitFenced(t) \/ CommitPublished(t)
  <2>1. Fail(t) \/ \E pc \in {"halt", "report", "drive"} : Return(t, pc)
    BY <1>2 DEF CommitFenced, CommitPublished
  <2> QED
    BY <2>1, LeavesGoOn
<1>3. CASE Drive(t) \/ Halt(t) \/ CancelDone(t) \/ ShutdownSave(t) \/ ApplyRecovery(t)
  <2>1. \A q : [Idle EXCEPT !.pc = "reserve", !.phase = q, !.driver = TRUE].pc \notin Working
    BY DEF Idle, Working, Executing, Judging
  <2>2. Idle.pc \notin Working
    BY DEF Idle, Working, Executing, Judging
  <2>3. \/ thread' = [thread EXCEPT ![t] = Idle]
        \/ \E q : thread' = [thread EXCEPT ![t] =
                               [Idle EXCEPT !.pc = "reserve", !.phase = q, !.driver = TRUE]]
    BY ZenonT(60), <1>3 DEF Drive, Halt, CancelDone, ShutdownSave, ApplyRecovery
  <2>4. \E c : thread' = [thread EXCEPT ![t] = c] /\ c.pc \notin Working
    BY ZenonT(60), <2>1, <2>2, <2>3
  <2> QED
    BY <2>4, LeavesGoOn
<1>4. CASE CancelNext(t)
  <2>1. thread' = [thread EXCEPT ![t].step = @ + 1] /\ thread[t].pc = "cancelling" /\ thread[t] \in Call
    BY <1>4 DEF CancelNext, TypeOK
  <2> DEFINE c == [thread[t] EXCEPT !.step = @ + 1]
  <2>2. thread' = [thread EXCEPT ![t] = c]
    BY <2>1
  <2>3. c.pc \notin Working
    BY <2>1 DEF Call, Working, Executing, Judging
  <2> HIDE DEF c
  <2> QED
    BY <2>2, <2>3, LeavesGoOn
<1> QED
  BY <1>1, <1>2, <1>3, <1>4

\* The calls that are made, and the operations of a single region.
LEMMA OperationGoesOn ==
  ASSUME TypeOK,
         \/ \E t \in Threads :
              \/ \E p \in Phases : RetryPhase(t, p) \/ CommitPhase(t, p)
              \/ RunSession(t) \/ CancelSession(t) \/ Shutdown(t) \/ PlanRecovery(t)
         \/ \E p \in Phases : CancelPhase(p) \/ \E f \in Failures : FailPhase(p, f)
         \/ RetireSession \/ Reopen
         \/ \E d \in Domains : MoveGeneration(d)
         \/ UNCHANGED vars
  PROVE  CallsGoOn
<1>1. ASSUME NEW t \in Threads,
             \/ \E p \in Phases : RetryPhase(t, p)
             \/ RunSession(t) \/ CancelSession(t) \/ Shutdown(t) \/ PlanRecovery(t)
      PROVE  CallsGoOn
  <2>1. /\ [Idle EXCEPT !.pc = "drive", !.driver = TRUE].pc = "drive"
        /\ [Idle EXCEPT !.pc = "cancelling", !.step = 1].pc = "cancelling"
        /\ [Idle EXCEPT !.pc = "stopping"].pc = "stopping"
    BY DEF Idle
  <2>2. {"reserve", "drive", "cancelling", "stopping", "recover"} \cap Working = {}
    BY DEF Working, Executing, Judging
  <2> DEFINE Starts(c) == thread' = [thread EXCEPT ![t] = c]
  <2>3. \A c : Starts(c) /\ c.pc \in {"reserve", "drive", "cancelling", "stopping", "recover"} => CallsGoOn
    BY <2>2, LeavesGoOn
  <2>4. ASSUME NEW p \in Phases, RetryPhase(t, p)
        PROVE  CallsGoOn
    <3> DEFINE c == [Idle EXCEPT !.pc = "reserve", !.phase = p, !.retry = TRUE]
    <3>1. Starts(c)
      BY Zenon, <2>4 DEF RetryPhase
    <3>2. c.pc = "reserve"
      BY DEF Idle
    <3> HIDE DEF c
    <3> QED
      BY <2>3, <3>1, <3>2
  <2>5. CASE RunSession(t)
    <3>1. Starts([Idle EXCEPT !.pc = "drive", !.driver = TRUE])
      BY Zenon, <2>5 DEF RunSession
    <3> QED
      BY <2>1, <2>3, <3>1
  <2>6. CASE CancelSession(t)
    <3>1. Starts([Idle EXCEPT !.pc = "cancelling", !.step = 1])
      BY Zenon, <2>6 DEF CancelSession
    <3> QED
      BY <2>1, <2>3, <3>1
  <2>7. CASE Shutdown(t)
    <3>1. Starts([Idle EXCEPT !.pc = "stopping"])
      BY Zenon, <2>7 DEF Shutdown
    <3> QED
      BY <2>1, <2>3, <3>1
  <2>8. CASE PlanRecovery(t)
    <3>1. PICK s, m : Starts([Idle EXCEPT !.pc = "recover", !.suspects = s, !.manual = m])
      BY Zenon, <2>8 DEF PlanRecovery
    <3> DEFINE c == [Idle EXCEPT !.pc = "recover", !.suspects = s, !.manual = m]
    <3>2. Starts(c) /\ c.pc = "recover"
      BY <3>1 DEF Idle
    <3> HIDE DEF c
    <3> QED
      BY <2>3, <3>2
  <2> QED
    BY <1>1, <2>4, <2>5, <2>6, <2>7, <2>8
<1>2. ASSUME NEW t \in Threads, NEW p \in Phases, CommitPhase(t, p)
      PROVE  CallsGoOn
  <2> DEFINE c == [Idle EXCEPT !.pc = "validate", !.phase = p, !.gen = phase[p].gen, !.inv = phase[p].inv]
  <2>1. thread' = [thread EXCEPT ![t] = c] /\ phase[p].state \in {"validating", "commit_ready"} /\ phase' = phase
    BY Zenon, <1>2 DEF CommitPhase
  <2>2. c.pc = "validate" /\ c.phase = p /\ c.gen = phase[p].gen /\ c.inv = phase[p].inv
    BY DEF Idle
  <2> HIDE DEF c
  <2>3. Elsewhere(t) /\ thread'[t] = c
    BY <2>1, StartFacts
  <2>4. Joins(t)
    BY <2>1, <2>2, <2>3 DEF Joins
  <2> QED
    BY <2>3, <2>4, OthersGoOn
<1>3. CASE \/ \E p \in Phases : CancelPhase(p) \/ \E f \in Failures : FailPhase(p, f)
           \/ RetireSession \/ Reopen
           \/ \E d \in Domains : MoveGeneration(d)
           \/ UNCHANGED vars
  <2>1. thread' = thread
    BY ZenonT(60), <1>3 DEF CancelPhase, FailPhase, RetireSession, Reopen, MoveGeneration, vars
  <2> QED
    BY <2>1 DEF CallsGoOn, GoesOn
<1> QED
  BY <1>1, <1>2, <1>3

\* A commit and a retirement leave the other phases in flight alone.
LEMMA GrantsCalm ==
  ASSUME TypeOK, NEW p \in Phases,
         Publishes(p) \/ (Grants(p) /\ UNCHANGED <<phase, held>>)
  PROVE  Calm
<1>1. artifact \in Seq(Artifact) /\ artifact' = GrantAuthority(artifact, phase[p].outputs)
  BY DEF TypeOK, Publishes, Grants
<1>2. \A a \in DOMAIN artifact : artifact'[a].state = artifact[a].state /\ artifact'[a].vouched = artifact[a].vouched
  BY Zenon, <1>1, GrantStep
<1>3. \A q \in Phases : Steady(q)
  <2>1. CASE Publishes(p)
    <3>1. phase' = CommittedPhases(p) /\ phase[p].state = "commit_ready"
      BY <2>1 DEF Publishes, Grants
    <3>2. /\ \A q \in Phases : q # p => phase'[q] = phase[q]
          /\ phase'[p].state = "committed" /\ phase'[p].gen = phase[p].gen
      BY <3>1, ProjectionFacts
    <3> QED
      BY <3>2 DEF Steady, InFlight
  <2>2. CASE phase' = phase
    BY <2>2 DEF Steady
  <2> QED
    BY <2>1, <2>2
<1>4. nextId' = nextId
  BY DEF Publishes, Grants
<1> QED
  BY <1>2, <1>3, <1>4 DEF Calm, Untouched

\* A retired session has nothing in flight: retiring is calm.
LEMMA RetiresCalm ==
  ASSUME TypeOK, Retires
  PROVE  Calm
<1>1. \A a \in DOMAIN artifact : artifact[a].phase \in Phases
  BY ArtifactAt DEF TypeOK, Artifact
<1> QED
  BY <1>1 DEF Retires, Calm, Untouched, Steady, InFlight

\* Every step restarts the process, reserves a phase, takes one on, or leaves
\* what is in flight where it is.
LEMMA CallStep ==
  ASSUME TypeOK, CommitInv, AuthorityInv, "report" \notin Ops, [Next]_vars
  PROVE  \/ Restart
         \/ \E t \in Threads, p \in Phases : \E r, d \in BOOLEAN :
              thread[t].pc \in {"idle", "reserve"} /\ Reserve(t, p, r, d)
         \/ \E t \in Threads : Advances(t)
         \/ Calm /\ CallsGoOn
<1>1. ASSUME NEW t \in Threads, Step(t)
      PROVE  \/ \E p \in Phases : \E r, d \in BOOLEAN :
                  thread[t].pc \in {"idle", "reserve"} /\ Reserve(t, p, r, d)
             \/ Advances(t)
             \/ Calm /\ CallsGoOn
  <2>1. thread[t].phase \in Phases
    BY CallType
  <2>2. OwnOutputs(phase, artifact)
    BY DEF AuthorityInv, Coherent
  <2>3. CASE ReserveDecided(t)
    BY <2>3, CallType DEF ReserveDecided
  <2>4. CASE Launch(t) \/ Record(t) \/ Check(t) \/ Reproduce(t) \/ Validate(t)
    BY <2>2, <2>4, RunKind, RunGoesOn
  <2>5. CASE CommitRefused(t) \/ CommitUnprobed(t) \/ CommitFenced(t)
    BY <2>5, CommitKind, StepGoesOn
  <2>6. CASE CommitUngranted(t) \/ CommitPublished(t) \/ CommitUnpersisted(t)
    <3>1. Calm
      BY <2>1, <2>6, CommitKind, GrantsCalm DEF Discards
    <3> QED
      BY <2>6, <3>1, StepGoesOn
  <2>7. CASE \/ ReserveRefused(t) \/ Drive(t) \/ Report(t) \/ Halt(t) \/ CancelNext(t)
             \/ CancelDone(t) \/ ShutdownSave(t) \/ ApplyRecovery(t)
    <3>1. Calm
      BY <2>7, DriverKind
    <3> QED
      BY <2>7, <3>1, StepGoesOn
  <2> QED
    BY <1>1, <2>3, <2>4, <2>5, <2>6, <2>7 DEF Step
<1>2. ASSUME NEW t \in Threads, NEW p \in Phases, RunPhase(t, p)
      PROVE  thread[t].pc \in {"idle", "reserve"} /\ Reserve(t, p, FALSE, FALSE)
  BY <1>2 DEF RunPhase
<1>3. CASE \/ \E t \in Threads :
                \/ \E p \in Phases : RetryPhase(t, p) \/ CommitPhase(t, p)
                \/ RunSession(t) \/ CancelSession(t) \/ Shutdown(t) \/ PlanRecovery(t)
           \/ \E p \in Phases : CancelPhase(p) \/ \E f \in Failures : FailPhase(p, f)
           \/ Reopen
           \/ \E d \in Domains : MoveGeneration(d)
  <2>1. \A p \in Phases : ~ReportOutput(p)
    BY DEF ReportOutput
  <2>2. Calm
    BY <1>3, <2>1, OperationKind
  <2>3. CallsGoOn
    BY <1>3, OperationGoesOn
  <2> QED
    BY <2>2, <2>3
<1>4. CASE RetireSession
  BY <1>4, RetireKind, RetiresCalm, OperationGoesOn
<1>5. CASE UNCHANGED vars
  <2>1. Calm
    BY <1>5, StillQuiet DEF vars
  <2> QED
    BY <1>5, <2>1, OperationGoesOn
<1>6. \A p \in Phases : ~ReportOutput(p)
  BY DEF ReportOutput
<1> QED
  BY <1>1, <1>2, <1>3, <1>4, <1>5, <1>6 DEF Next

-----------------------------------------------------------------------------
(* The calls and the phases they work on keep in step.                      *)

\* What CallInv says of the calls.
CallsOwn ==
  /\ nextId # 0
  /\ \A p \in Phases : phase[p].state \in InFlight => phase[p].inv # 0
  /\ \A t \in Threads : OwnReservation(t) /\ OnStage(t)

\* A step that leaves what is in flight where it is.
LEMMA CalmCalls ==
  ASSUME TypeOK, OwnOutputs(phase, artifact), CallsOwn, Calm, CallsGoOn
  PROVE  CallsOwn'
<1>1. \A p \in Phases : Steady(p)
  BY DEF Calm
<1>2. nextId' # 0 /\ \A p \in Phases : phase'[p].state \in InFlight => phase'[p].inv # 0
  BY <1>1 DEF Calm, Steady, CallsOwn
<1>3. \A t \in Threads : thread[t].phase \in Phases
  BY CallType
<1>4. ASSUME NEW t \in Threads, thread'[t].pc \in Working
      PROVE  /\ thread'[t].inv # 0 /\ thread'[t].gen <= phase'[thread'[t].phase].gen
             /\ thread'[t].pc \in Executing => GoesOn(t) /\ thread[t].pc \in Executing
  <2>1. CASE GoesOn(t)
    <3>1. thread[t].pc \in Working /\ (thread'[t].pc \in Executing => thread[t].pc \in Executing)
      BY <1>4, <2>1 DEF GoesOn, Working, Executing, Judging
    <3>2. thread[t].inv # 0 /\ thread[t].gen <= phase[thread[t].phase].gen
      BY <3>1 DEF CallsOwn, OwnReservation
    <3> QED
      BY <1>1, <1>3, <2>1, <3>1, <3>2 DEF GoesOn, Steady
  <2>2. CASE Joins(t)
    <3>1. thread'[t].phase \in Phases /\ phase[thread'[t].phase].state \in InFlight /\ thread'[t].pc \notin Executing
      BY <2>2 DEF Joins, InFlight, Executing
    <3>2. phase[thread'[t].phase].gen \in Nat
      BY <3>1 DEF TypeOK, PhaseRecord
    <3> QED
      BY <2>2, <3>1, <3>2, SMT DEF Joins, CallsOwn
  <2> QED
    BY <1>4, <2>1, <2>2 DEF CallsGoOn
<1>5. ASSUME NEW t \in Threads, NEW u \in Threads, thread'[t].pc \in Executing, thread'[u].pc \in Executing,
             thread'[u].phase = thread'[t].phase, thread'[u].gen = thread'[t].gen
      PROVE  u = t
  <2>1. Executing \subseteq Working
    BY DEF Working
  <2>2. thread[t].pc \in Executing /\ thread[u].pc \in Executing /\ GoesOn(t) /\ GoesOn(u)
    BY <1>4, <1>5, <2>1
  <2>3. thread[u].phase = thread[t].phase /\ thread[u].gen = thread[t].gen
    BY <1>5, <2>2 DEF GoesOn
  <2> QED
    BY <2>2, <2>3 DEF CallsOwn, OwnReservation
<1>6. ASSUME NEW t \in Threads
      PROVE  OwnReservation(t)'
  BY <1>4, <1>5, <1>6 DEF OwnReservation
<1>7. ASSUME NEW t \in Threads, thread'[t].pc \in Working, Current(t)',
             phase'[thread'[t].phase].state \in InFlight
      PROVE  LET st == phase'[thread'[t].phase].state IN
             /\ thread'[t].pc = "launch" => st = "preparing"
             /\ thread'[t].pc = "execute" => st = "running"
             /\ thread'[t].pc = "abort" => st \in {"preparing", "running"}
             /\ thread'[t].pc \in Judging => st \in {"validating", "commit_ready"}
             /\ thread'[t].pc = "commit" => st = "commit_ready" /\ Passed(thread[t].phase)'
  <2>1. CASE Joins(t)
    BY <2>1 DEF Joins, Executing, Judging
  <2>2. CASE GoesOn(t)
    <3> DEFINE p == thread[t].phase
    <3>1. p \in Phases /\ thread'[t].phase = p
      BY <1>3, <2>2 DEF GoesOn
    <3>2. /\ phase'[p].state = phase[p].state /\ phase'[p].inv = phase[p].inv
          /\ phase'[p].gen = phase[p].gen /\ phase'[p].outputs = phase[p].outputs
          /\ phase'[p].state \in InFlight
      BY <1>1, <1>7, <3>1 DEF Steady
    <3>3. Current(t) /\ phase[p].state \in InFlight
      BY <1>7, <2>2, <3>1, <3>2 DEF Current, GoesOn
    <3>4. thread[t].pc \in Working
      BY <1>7, <2>2 DEF GoesOn, Working, Executing, Judging
    <3>5. OnStage(t)
      BY DEF CallsOwn
    <3>6. ASSUME thread[t].pc = "commit"
          PROVE  Passed(p)'
      <4>1. Passed(p)
        BY <3>3, <3>4, <3>5, <3>6 DEF OnStage
      <4>2. \A a \in phase[p].outputs : a \in DOMAIN artifact /\ artifact[a].phase = p
        BY <3>1 DEF OwnOutputs
      <4>3. \A a \in phase[p].outputs :
              artifact'[a].state = artifact[a].state /\ artifact'[a].vouched = artifact[a].vouched
        BY <3>2, <4>2 DEF Calm, Untouched
      <4> QED
        BY <3>1, <3>2, <4>1, <4>3 DEF Passed, Consumable
    <3>7. \/ thread'[t].pc = thread[t].pc
          \/ thread[t].pc = "launch" /\ thread'[t].pc = "abort"
          \/ thread[t].pc \in Judging /\ thread'[t].pc \in Judging
      BY <2>2, <3>2 DEF GoesOn
    <3> HIDE DEF p
    <3> QED
      BY <3>1, <3>2, <3>3, <3>4, <3>5, <3>6, <3>7 DEF OnStage, Judging, p
  <2> QED
    BY <1>7, <2>1, <2>2 DEF CallsGoOn
<1>8. ASSUME NEW t \in Threads
      PROVE  OnStage(t)'
  BY <1>7 DEF OnStage
<1> QED
  BY <1>2, <1>6, <1>8 DEF CallsOwn

\* A restart ends every call and leaves nothing in flight.
LEMMA RestartCalls ==
  ASSUME TypeOK, Restart
  PROVE  CallsOwn'
<1>1. nextId' = 1 /\ \A t \in Threads : thread'[t].pc = "idle"
  BY DEF Restart, Idle
<1>2. phase' = Fenced(durable.phase) /\ durable.phase \in [Phases -> PhaseRecord]
  BY DEF Restart, TypeOK, BundleType
<1>3. durable.artifact \in Seq(Artifact)
  BY DEF TypeOK, BundleType
<1>4. \A p \in Phases : phase'[p].state \notin InFlight
  BY <1>2, <1>3, FencedFacts DEF InFlight
<1> QED
  BY <1>1, <1>4, SMT DEF CallsOwn, OwnReservation, OnStage, Working, Executing, Judging

\* A reservation starts a generation that no call has worked on.
LEMMA ReserveCalls ==
  ASSUME TypeOK, OwnOutputs(phase, artifact), CallsOwn, NEW t \in Threads, NEW p \in Phases,
         NEW r \in BOOLEAN, NEW d \in BOOLEAN, Reserve(t, p, r, d)
  PROVE  CallsOwn'
<1>1. /\ \A q \in Phases : q # p => phase'[q] = phase[q]
      /\ phase'[p].state = "preparing" /\ phase'[p].gen = phase[p].gen + 1 /\ phase'[p].inv = nextId
      /\ artifact' = artifact /\ nextId' = nextId + 1
  BY ReserveKind DEF Reserves
<1>2. nextId \in Nat /\ \A q \in Phases : phase[q].gen \in Nat
  BY DEF TypeOK, PhaseRecord
<1>3. nextId' # 0 /\ \A q \in Phases : phase'[q].state \in InFlight => phase'[q].inv # 0
  BY <1>1, <1>2, SMT DEF CallsOwn
<1>4. /\ \A u \in Threads : u # t => thread'[u] = thread[u]
      /\ \/ /\ thread'[t].pc = "launch" /\ thread'[t].phase = p
            /\ thread'[t].gen = phase[p].gen + 1 /\ thread'[t].inv = nextId
         \/ thread'[t].pc \in {"report", "idle"}
  BY ReserveFacts DEF Elsewhere
<1>5. /\ "launch" \in Executing /\ {"report", "idle"} \cap Working = {} /\ Executing \subseteq Working
      /\ "launch" \notin Judging
  BY DEF Executing, Working, Judging
<1>6. \A u \in Threads : thread[u].phase \in Phases /\ thread[u].gen \in Nat
  BY CallType
<1>7. \A u \in Threads : thread[u].pc \in Working =>
        thread[u].inv # 0 /\ thread[u].gen <= phase[thread[u].phase].gen
  BY DEF CallsOwn, OwnReservation
<1>8. \A u \in Threads : thread'[u].pc \in Working =>
        thread'[u].inv # 0 /\ thread'[u].gen <= phase'[thread'[u].phase].gen
  BY <1>1, <1>2, <1>3, <1>4, <1>5, <1>6, <1>7, SMT DEF CallsOwn
<1>9. ASSUME NEW u \in Threads, NEW v \in Threads, thread'[u].pc \in Executing, thread'[v].pc \in Executing,
             thread'[v].phase = thread'[u].phase, thread'[v].gen = thread'[u].gen
      PROVE  v = u
  <2>1. \A w \in Threads : w # t /\ thread'[w].pc \in Working /\ thread'[w].phase = p =>
          thread'[w].gen # phase[p].gen + 1
    BY <1>2, <1>4, <1>6, <1>7, SMT
  <2>2. CASE u # t /\ v # t
    BY <1>4, <1>9, <2>2 DEF CallsOwn, OwnReservation
  <2>3. CASE u = t \/ v = t
    BY <1>4, <1>5, <1>9, <2>1, <2>3
  <2> QED
    BY <2>2, <2>3
<1>10. ASSUME NEW u \in Threads
       PROVE  OwnReservation(u)'
  BY <1>8, <1>9 DEF OwnReservation
<1>11. ASSUME NEW u \in Threads
       PROVE  OnStage(u)'
  <2>1. CASE u = t
    BY <1>1, <1>4, <1>5, <2>1 DEF OnStage
  <2>2. CASE u # t /\ thread[u].phase = p
    <3>1. thread'[u] = thread[u] /\ (thread[u].pc \in Working => thread[u].gen <= phase[p].gen)
      BY <1>4, <1>7, <2>2
    <3>2. ~(thread'[u].pc \in Working /\ Current(u)')
      BY <1>1, <1>2, <1>6, <2>2, <3>1, SMT DEF Current
    <3> QED
      BY <3>2 DEF OnStage
  <2>3. CASE u # t /\ thread[u].phase # p
    <3>1. thread'[u] = thread[u] /\ phase'[thread[u].phase] = phase[thread[u].phase]
      BY <1>1, <1>4, <1>6, <2>3
    <3>2. OnStage(u)
      BY DEF CallsOwn
    <3> QED
      BY <1>1, <3>1, <3>2 DEF OnStage, Current, Passed
  <2> QED
    BY <2>1, <2>2, <2>3
<1> QED
  BY <1>3, <1>10, <1>11 DEF CallsOwn

\* No artifact that was accepted is rejected.
Improves ==
  \A a \in DOMAIN artifact : Consumable(artifact[a]) /\ artifact[a].vouched =>
    Consumable(artifact'[a]) /\ artifact'[a].vouched

\* A call that takes its phase on: the reservations,
LEMMA AdvanceReservations ==
  ASSUME TypeOK, CallsOwn, NEW t \in Threads, thread[t].pc \in Working, Elsewhere(t),
         NEW st, NEW o, st \in InFlight => phase[thread[t].phase].state \in InFlight,
         Updated(thread[t].phase, st, phase[thread[t].phase].failure, phase[thread[t].phase].inv, o),
         nextId' = nextId,
         \/ thread'[t].pc \notin Working
         \/ /\ thread'[t].phase = thread[t].phase /\ thread'[t].gen = thread[t].gen
            /\ thread'[t].inv = thread[t].inv
            /\ thread'[t].pc \in Executing => thread[t].pc \in Executing
  PROVE  /\ nextId' # 0
         /\ \A p \in Phases : phase'[p].state \in InFlight => phase'[p].inv # 0
         /\ \A u \in Threads : OwnReservation(u)'
<1>1. thread[t].phase \in Phases /\ \A u \in Threads : thread[u].phase \in Phases
  BY CallType
<1>2. \A q \in Phases : phase'[q].gen = phase[q].gen /\ phase'[q].inv = phase[q].inv
                        /\ (phase'[q].state \in InFlight => phase[q].state \in InFlight)
  BY <1>1 DEF Updated
<1>3. nextId' # 0 /\ \A p \in Phases : phase'[p].state \in InFlight => phase'[p].inv # 0
  BY <1>2 DEF CallsOwn
<1>4. Executing \subseteq Working
  BY DEF Working
<1>5. ASSUME NEW u \in Threads, thread'[u].pc \in Working
      PROVE  /\ thread'[u].phase = thread[u].phase /\ thread'[u].gen = thread[u].gen
             /\ thread'[u].inv = thread[u].inv /\ thread[u].pc \in Working
             /\ thread'[u].pc \in Executing => thread[u].pc \in Executing
  BY <1>5 DEF Elsewhere
<1>6. \A u \in Threads : thread'[u].pc \in Working =>
        thread'[u].inv # 0 /\ thread'[u].gen <= phase'[thread'[u].phase].gen
  BY <1>1, <1>2, <1>5, SMT DEF CallsOwn, OwnReservation
<1>7. ASSUME NEW u \in Threads, NEW v \in Threads, thread'[u].pc \in Executing, thread'[v].pc \in Executing,
             thread'[v].phase = thread'[u].phase, thread'[v].gen = thread'[u].gen
      PROVE  v = u
  <2>1. thread[u].pc \in Executing /\ thread[v].pc \in Executing
    BY <1>4, <1>5, <1>7
  <2>2. thread[v].phase = thread[u].phase /\ thread[v].gen = thread[u].gen
    BY <1>4, <1>5, <1>7
  <2> QED
    BY <2>1, <2>2 DEF CallsOwn, OwnReservation
<1>8. ASSUME NEW u \in Threads
      PROVE  OwnReservation(u)'
  BY <1>6, <1>7 DEF OwnReservation
<1> QED
  BY <1>3, <1>8

\* and the stages of the other calls.
LEMMA AdvanceStages ==
  ASSUME TypeOK, OwnOutputs(phase, artifact), CallsOwn, NEW t \in Threads, Elsewhere(t), Improves,
         NEW st, NEW o,
         Updated(thread[t].phase, st, phase[thread[t].phase].failure, phase[thread[t].phase].inv, o),
         \A u \in Threads :
           u # t /\ thread[u].pc \in Working /\ thread[u].phase = thread[t].phase /\ Current(u) /\ st \in InFlight =>
             \/ st = phase[thread[t].phase].state /\ o = phase[thread[t].phase].outputs
             \/ thread[u].pc \in Judging /\ st \in {"validating", "commit_ready"}
  PROVE  \A u \in Threads : u # t => OnStage(u)'
<1> SUFFICES ASSUME NEW u \in Threads, u # t, thread[u].pc \in Working, Current(u)',
                    phase'[thread[u].phase].state \in InFlight
             PROVE  OnStage(u)'
  BY DEF OnStage, Elsewhere
<1> DEFINE p == thread[t].phase
           q == thread[u].phase
<1>1. thread'[u] = thread[u] /\ p \in Phases /\ q \in Phases
  BY CallType DEF Elsewhere
<1>2. /\ phase'[q].gen = phase[q].gen /\ phase'[q].inv = phase[q].inv
      /\ q # p => phase'[q] = phase[q]
      /\ q = p => phase'[q].state = st /\ phase'[q].outputs = o
  BY <1>1 DEF Updated
<1>3. Current(u)
  BY <1>1, <1>2 DEF Current
<1>4. OnStage(u)
  BY DEF CallsOwn
<1>5. CASE phase'[q].state = phase[q].state /\ phase'[q].outputs = phase[q].outputs
  <2>1. Passed(q) => \A a \in phase[q].outputs : Consumable(artifact'[a]) /\ artifact'[a].vouched
    BY <1>1 DEF Passed, Improves, OwnOutputs
  <2> QED
    BY <1>1, <1>3, <1>4, <1>5, <2>1 DEF OnStage, Passed
<1>6. CASE thread[u].pc \in Judging /\ phase'[q].state \in {"validating", "commit_ready"}
  BY <1>1, <1>6 DEF OnStage, Judging
<1> QED
  BY <1>2, <1>3, <1>5, <1>6

\* The forward edges of the lifecycle, and no others, are taken forward.
LEMMA ForwardEdges ==
  ASSUME NEW a \in InFlight
  PROVE  /\ a = "preparing" => RecordTransition(a, "running") = "running"
         /\ a = "running" => RecordTransition(a, "produced") = "produced"
         /\ a = "produced" => RecordTransition(a, "validating") = "validating"
         /\ a \in {"validating", "commit_ready"} => RecordTransition(a, "commit_ready") = "commit_ready"
         /\ a \notin {"validating", "commit_ready"} => RecordTransition(a, "commit_ready") = a
  BY DEF RecordTransition, IsLegal, Withdrawn, InFlight

\* A call that executes the current reservation of a phase in flight is the
\* only one that works on it.
LEMMA Alone ==
  ASSUME TypeOK, CallsOwn, NEW t \in Threads, thread[t].pc \in Executing, Current(t),
         phase[thread[t].phase].state \in InFlight,
         NEW u \in Threads, thread[u].pc \in Working, thread[u].phase = thread[t].phase, Current(u)
  PROVE  u = t
<1>1. thread[u].gen = thread[t].gen
  BY DEF Current
<1>2. CASE thread[u].pc \in Executing
  BY <1>1, <1>2 DEF CallsOwn, OwnReservation
<1>3. CASE thread[u].pc \notin Executing
  <2>1. thread[t].pc \in Working /\ OnStage(t) /\ OnStage(u)
    BY DEF CallsOwn, Working
  <2>2. phase[thread[t].phase].state \in {"preparing", "running"}
    BY <2>1 DEF OnStage, Executing
  <2>3. phase[thread[t].phase].state \in {"validating", "commit_ready"}
    BY <1>3, <2>1 DEF OnStage, Working
  <2> QED
    BY <2>2, <2>3
<1> QED
  BY <1>2, <1>3

\* So it may take the phase anywhere.
LEMMA AloneStages ==
  ASSUME TypeOK, OwnOutputs(phase, artifact), CallsOwn, NEW t \in Threads, thread[t].pc \in Executing,
         Current(t), Elsewhere(t), Improves, NEW st, NEW o,
         st \in InFlight => phase[thread[t].phase].state \in InFlight,
         Updated(thread[t].phase, st, phase[thread[t].phase].failure, phase[thread[t].phase].inv, o),
         nextId' = nextId, OnStage(t)',
         \/ thread'[t].pc \notin Working
         \/ /\ thread'[t].phase = thread[t].phase /\ thread'[t].gen = thread[t].gen
            /\ thread'[t].inv = thread[t].inv
  PROVE  CallsOwn'
<1>1. thread[t].pc \in Working
  BY DEF Working
<1>2. /\ nextId' # 0
      /\ \A p \in Phases : phase'[p].state \in InFlight => phase'[p].inv # 0
      /\ \A u \in Threads : OwnReservation(u)'
  BY <1>1, AdvanceReservations
<1>3. \A u \in Threads :
        ~(u # t /\ thread[u].pc \in Working /\ thread[u].phase = thread[t].phase /\ Current(u) /\ st \in InFlight)
  BY Alone
<1>4. \A u \in Threads : u # t => OnStage(u)'
  BY <1>3, AdvanceStages
<1> QED
  BY <1>2, <1>4 DEF CallsOwn

\* A caller that launches its attempt stays the owner of it, and the others of theirs.
LEMMA LaunchCalls ==
  ASSUME TypeOK, OwnOutputs(phase, artifact), CallsOwn, NEW t \in Threads, Launches(t)
  PROVE  CallsOwn'
<1> DEFINE p == thread[t].phase
           st == RecordTransition(phase[p].state, "running")
<1>1. phase \in [Phases -> PhaseRecord] /\ p \in Phases /\ phase[p].state \in PhaseState
  BY CallType DEF TypeOK, PhaseRecord
<1>2. /\ thread[t].pc = "launch" /\ Current(t) /\ phase' = [phase EXCEPT ![p].state = st]
      /\ artifact' = artifact /\ nextId' = nextId
  BY DEF Launches
<1>3. PICK pc \in {"execute", "abort"} : Goto(t, pc)
  BY DEF Launches
<1>4. /\ Elsewhere(t) /\ thread'[t].pc = pc /\ thread'[t].phase = thread[t].phase
      /\ thread'[t].gen = thread[t].gen /\ thread'[t].inv = thread[t].inv
  BY <1>3, GotoFacts
<1>5. st \in InFlight => phase[p].state \in InFlight
  BY <1>1, RunTurns DEF StateTurns
<1>6. phase[p].state \in InFlight => st = "running"
  <2>1. OnStage(t)
    BY DEF CallsOwn
  <2>2. phase[p].state \in InFlight => phase[p].state = "preparing"
    BY <1>2, <2>1 DEF OnStage, Working, Executing
  <2> QED
    BY <2>2, ForwardEdges
<1> HIDE DEF st
<1>7. Updated(p, st, phase[p].failure, phase[p].inv, phase[p].outputs)
  BY <1>1, <1>2, UpdateState
<1>8. OnStage(t)'
  <2>1. phase'[p].state = st
    BY <1>7 DEF Updated
  <2> QED
    BY <1>3, <1>4, <1>5, <1>6, <2>1 DEF OnStage, Judging
<1>9. Improves
  BY <1>2 DEF Improves
<1>10. thread[t].pc \in Executing
  BY <1>2 DEF Executing
<1> QED
  BY <1>2, <1>4, <1>5, <1>7, <1>8, <1>9, <1>10, AloneStages

\* So does a caller that records the outputs of its attempt.
LEMMA RecordCalls ==
  ASSUME TypeOK, OwnOutputs(phase, artifact), CallsOwn, NEW t \in Threads, Records(t)
  PROVE  CallsOwn'
<1> DEFINE p == thread[t].phase
           s1 == RecordTransition(phase[p].state, "produced")
           st == RecordTransition(s1, "validating")
           o == phase[p].outputs \cup {Len(artifact) + 1}
<1>1. phase \in [Phases -> PhaseRecord] /\ p \in Phases /\ phase[p].state \in PhaseState /\ phase[p].gen \in Nat
  BY CallType DEF TypeOK, PhaseRecord
<1>2. /\ thread[t].pc = "execute" /\ Current(t)
      /\ phase' = [phase EXCEPT ![p].state = st, ![p].outputs = @ \cup {Len(artifact) + 1}]
      /\ artifact' = Register(artifact, p, phase[p].gen) /\ nextId' = nextId
  BY DEF Records, RecordExecution
<1>3. /\ Elsewhere(t)
      /\ \/ thread'[t].pc = "idle"
         \/ /\ thread'[t].pc = "check" /\ thread'[t].phase = thread[t].phase
            /\ thread'[t].gen = thread[t].gen /\ thread'[t].inv = thread[t].inv
  BY GotoFacts, FailFacts DEF Records
<1>4. s1 \in PhaseState /\ (s1 \in InFlight => phase[p].state \in InFlight)
  BY <1>1, RunTurns DEF StateTurns
<1>5. st \in InFlight => s1 \in InFlight
  BY <1>4, RunTurns DEF StateTurns
<1>6. phase[p].state \in InFlight => st = "validating"
  <2>1. OnStage(t)
    BY DEF CallsOwn
  <2>2. phase[p].state \in InFlight => phase[p].state = "running"
    BY <1>2, <2>1 DEF OnStage, Working, Executing
  <2>3. phase[p].state \in InFlight => s1 = "produced" /\ s1 \in InFlight
    BY <2>2, ForwardEdges DEF InFlight
  <2> QED
    BY <2>3, ForwardEdges
<1> HIDE DEF s1, st
<1>7. Updated(p, st, phase[p].failure, phase[p].inv, o)
  BY <1>1, <1>2, UpdateOutputs
<1>8. OnStage(t)'
  <2>1. phase'[p].state = st
    BY <1>7 DEF Updated
  <2> QED
    BY <1>3, <1>4, <1>5, <1>6, <2>1 DEF OnStage, Working, Executing, Judging
<1>9. Improves
  <2>1. artifact \in Seq(Artifact)
    BY DEF TypeOK
  <2>2. \A a \in DOMAIN artifact : artifact'[a] = artifact[a]
    BY Zenon, <1>1, <1>2, <2>1, RegisterStep
  <2> QED
    BY <2>2 DEF Improves
<1>10. thread[t].pc \in Executing /\ "idle" \notin Working
  BY <1>2 DEF Executing, Working, Judging
<1> HIDE DEF o
<1> QED
  BY <1>2, <1>3, <1>4, <1>5, <1>7, <1>8, <1>9, <1>10, AloneStages

\* So does one whose attempt was stopped before its outputs were recorded.
LEMMA StopCalls ==
  ASSUME TypeOK, OwnOutputs(phase, artifact), CallsOwn, NEW t \in Threads, Stops(t)
  PROVE  CallsOwn'
<1> DEFINE p == thread[t].phase
           s1 == RecordTransition(phase[p].state, "produced")
<1>1. phase \in [Phases -> PhaseRecord] /\ p \in Phases /\ phase[p].state \in PhaseState
  BY CallType DEF TypeOK, PhaseRecord
<1>2. /\ thread[t].pc \in Executing /\ Current(t) /\ Fail(t)
      /\ phase' = phase \/ phase' = [phase EXCEPT ![p].state = s1]
      /\ artifact' = artifact /\ nextId' = nextId
  BY DEF Stops, RecordStopped, Executing
<1>3. Elsewhere(t) /\ thread'[t].pc \notin Working
  BY <1>2, FailFacts DEF Working, Executing, Judging
<1>4. OnStage(t)'
  BY <1>3 DEF OnStage
<1>5. Improves
  BY <1>2 DEF Improves
<1>6. s1 \in InFlight => phase[p].state \in InFlight
  BY <1>1, RunTurns DEF StateTurns
<1> HIDE DEF s1
<1>7. CASE phase' = phase
  <2>1. Updated(p, phase[p].state, phase[p].failure, phase[p].inv, phase[p].outputs)
    BY <1>7 DEF Updated
  <2> QED
    BY <1>2, <1>3, <1>4, <1>5, <2>1, AloneStages
<1>8. CASE phase' = [phase EXCEPT ![p].state = s1]
  <2>1. Updated(p, s1, phase[p].failure, phase[p].inv, phase[p].outputs)
    BY <1>1, <1>8, UpdateState
  <2> QED
    BY <1>2, <1>3, <1>4, <1>5, <1>6, <2>1, AloneStages
<1> QED
  BY <1>2, <1>7, <1>8

\* What a validation that accepts does to the registry.
LEMMA AcceptStep ==
  ASSUME artifact \in Seq(Artifact), NEW ids, NEW p, NEW g,
         artifact' = SetStates(artifact, ids, "valid", p, g)
  PROVE  \A a \in DOMAIN artifact :
           /\ a \notin ids => artifact'[a] = artifact[a]
           /\ a \in ids =>
                /\ artifact'[a].state = "valid"
                /\ artifact[a].vouched \/ (artifact[a].phase = p /\ artifact[a].gen = g) => artifact'[a].vouched
<1> DEFINE v == "valid"
<1>1. artifact' = SetStates(artifact, ids, v, p, g) /\ v = "valid"
  OBVIOUS
<1> HIDE DEF v
<1>2. \A a \in DOMAIN artifact :
        /\ a \notin ids => artifact'[a] = artifact[a]
        /\ a \in ids =>
             /\ artifact'[a].state = v
             /\ artifact'[a].vouched = (v = "valid" /\ (artifact[a].vouched
                                                        \/ (artifact[a].phase = p /\ artifact[a].gen = g)))
  BY <1>1, SetStatesFacts, SMT
<1> QED
  BY <1>1, <1>2

\* A validation that accepts takes on at most a phase that has been recorded,
\* whichever generation it was made for.
LEMMA AcceptCalls ==
  ASSUME TypeOK, OwnOutputs(phase, artifact), CallsOwn, NEW t \in Threads, Accepts(t)
  PROVE  CallsOwn'
<1> DEFINE p == thread[t].phase
           st == RecordTransition(phase[p].state, "commit_ready")
<1>1. phase \in [Phases -> PhaseRecord] /\ p \in Phases /\ phase[p].state \in PhaseState
  BY CallType DEF TypeOK, PhaseRecord
<1>2. /\ thread[t].pc = "validate" /\ phase' = [phase EXCEPT ![p].state = st]
      /\ artifact' = SetStates(artifact, phase[p].outputs, "valid", p, thread[t].gen)
      /\ nextId' = nextId
  BY DEF Accepts
<1>3. /\ Elsewhere(t)
      /\ \/ thread'[t].pc = "idle"
         \/ /\ thread'[t].pc = "commit" /\ thread'[t].phase = thread[t].phase
            /\ thread'[t].gen = thread[t].gen /\ thread'[t].inv = thread[t].inv
  BY GotoFacts, FailFacts DEF Accepts
<1>4. st \in InFlight => phase[p].state \in InFlight
  BY <1>1, RunTurns DEF StateTurns
<1>5. phase[p].state \in InFlight =>
        IF phase[p].state \in {"validating", "commit_ready"} THEN st = "commit_ready" ELSE st = phase[p].state
  BY ForwardEdges
<1> HIDE DEF st
<1>6. Updated(p, st, phase[p].failure, phase[p].inv, phase[p].outputs)
  BY <1>1, <1>2, UpdateState
<1>7. artifact \in Seq(Artifact)
  BY DEF TypeOK
<1>8. \A a \in DOMAIN artifact :
        /\ a \notin phase[p].outputs => artifact'[a] = artifact[a]
        /\ a \in phase[p].outputs =>
             /\ artifact'[a].state = "valid"
             /\ artifact[a].vouched \/ (artifact[a].phase = p /\ artifact[a].gen = thread[t].gen)
                  => artifact'[a].vouched
  BY Zenon, <1>2, <1>7, AcceptStep
<1>9. Improves
  BY <1>8 DEF Improves, Consumable
<1>10. {"validate", "commit"} \subseteq Working /\ {"commit", "idle"} \cap Executing = {}
       /\ "idle" \notin Working /\ "validate" \in Judging /\ "commit" \notin Judging
  BY DEF Working, Executing, Judging
<1>11. /\ nextId' # 0
       /\ \A q \in Phases : phase'[q].state \in InFlight => phase'[q].inv # 0
       /\ \A u \in Threads : OwnReservation(u)'
  BY <1>2, <1>3, <1>4, <1>6, <1>10, AdvanceReservations
<1>12. ASSUME NEW u \in Threads, thread[u].pc \in Working, thread[u].phase = p, Current(u), st \in InFlight
       PROVE  \/ st = phase[p].state /\ phase[p].outputs = phase[p].outputs
              \/ thread[u].pc \in Judging /\ st \in {"validating", "commit_ready"}
  <2>1. OnStage(u)
    BY DEF CallsOwn
  <2> QED
    BY <1>4, <1>5, <1>12, <2>1 DEF OnStage, Working, Executing
<1>13. \A u \in Threads : u # t => OnStage(u)'
  BY <1>3, <1>6, <1>9, <1>12, AdvanceStages
<1>14. ASSUME thread'[t].pc = "commit", Current(t)', phase'[p].state \in InFlight
       PROVE  phase'[p].state = "commit_ready" /\ \A a \in phase'[p].outputs : Consumable(artifact'[a]) /\ artifact'[a].vouched
  <2>1. /\ phase'[p].state = st /\ phase'[p].gen = phase[p].gen /\ phase'[p].inv = phase[p].inv
        /\ phase'[p].outputs = phase[p].outputs
    BY <1>6 DEF Updated
  <2>2. Current(t)
    BY <1>3, <1>10, <1>14, <2>1 DEF Current
  <2>3. OnStage(t)
    BY DEF CallsOwn
  <2>4. phase[p].state \in {"validating", "commit_ready"}
    BY <1>2, <1>4, <1>10, <1>14, <2>1, <2>2, <2>3 DEF OnStage
  <2>5. \A a \in phase[p].outputs : a \in DOMAIN artifact /\ artifact[a].phase = p /\ artifact[a].gen = thread[t].gen
    BY <1>1, <2>2 DEF OwnOutputs, Current
  <2>6. \A a \in phase[p].outputs : Consumable(artifact'[a]) /\ artifact'[a].vouched
    BY <1>8, <2>5 DEF Consumable
  <2> QED
    BY <1>4, <1>5, <1>14, <2>1, <2>4, <2>6
<1>15. OnStage(t)'
  BY <1>3, <1>10, <1>14 DEF OnStage, Passed
<1> QED
  BY <1>11, <1>13, <1>15 DEF CallsOwn

\* Every step.
LEMMA CallsStep ==
  ASSUME TypeOK, CommitInv, AuthorityInv, CallsOwn, "report" \notin Ops, [Next]_vars
  PROVE  CallsOwn'
<1>1. OwnOutputs(phase, artifact)
  BY DEF AuthorityInv, Coherent
<1>2. CASE Restart
  BY <1>2, RestartCalls
<1>3. CASE \E t \in Threads, p \in Phases : \E r, d \in BOOLEAN : Reserve(t, p, r, d)
  BY <1>1, <1>3, ReserveCalls
<1>4. CASE \E t \in Threads : Advances(t)
  BY <1>1, <1>4, LaunchCalls, RecordCalls, StopCalls, AcceptCalls DEF Advances
<1>5. CASE Calm /\ CallsGoOn
  BY <1>1, <1>5, CalmCalls
<1> QED
  BY <1>2, <1>3, <1>4, <1>5, CallStep

-----------------------------------------------------------------------------
(* What is authoritative was vouched for.                                   *)

\* A commit that grants authority grants it to outputs that were accepted.
LEMMA CommitPassed ==
  ASSUME CallsOwn, NEW t \in Threads, CommitGranted(t)
  PROVE  Passed(thread[t].phase)
<1>1. thread[t].pc = "commit" /\ Current(t) /\ phase[thread[t].phase].state = "commit_ready"
  BY DEF CommitGranted, Committable
<1>2. OnStage(t)
  BY DEF CallsOwn
<1> QED
  BY <1>1, <1>2 DEF OnStage, Working, InFlight

\* Authority is granted to what a commit finds accepted, and no rejection
\* leaves it in place.
LEMMA VouchedStep ==
  ASSUME TypeOK, CommitInv, AuthorityInv, CallsOwn, Vouched(artifact), Vouched(durable.artifact), [Next]_vars
  PROVE  Vouched(artifact')
<1>1. artifact \in Seq(Artifact) /\ phase \in [Phases -> PhaseRecord] /\ durable.artifact \in Seq(Artifact)
      /\ durable.phase \in [Phases -> PhaseRecord]
  BY DEF TypeOK, BundleType
<1>2. CASE Quiet
  BY <1>2 DEF Quiet, ArtifactsFade, Vouched
<1>3. CASE Retires
  BY <1>3 DEF Retires
<1>4. CASE Restart
  <2> DEFINE b == FencedOutputs(durable.artifact, durable.phase)
  <2>1. artifact' = b
    BY <1>4 DEF Restart
  <2>2. /\ DOMAIN b = DOMAIN durable.artifact
        /\ \A i \in DOMAIN durable.artifact :
             b[i].vouched = durable.artifact[i].vouched
             /\ (b[i].authority = "revoked" \/ b[i] = durable.artifact[i])
    BY <1>1, FencedFacts, SMT
  <2> HIDE DEF b
  <2>3. ASSUME NEW i \in DOMAIN b, b[i].authority = "authoritative" PROVE b[i].vouched
    <3>1. i \in DOMAIN durable.artifact /\ b[i].authority # "revoked"
      BY <2>2, <2>3
    <3>2. b[i] = durable.artifact[i]
      BY <2>2, <3>1
    <3> QED
      BY <2>3, <3>1, <3>2 DEF Vouched
  <2>4. Vouched(b)
    BY <2>3 DEF Vouched
  <2> QED
    BY <2>1, <2>4
<1>5. ASSUME NEW p \in Phases, Produces(p)
      PROVE  Vouched(artifact')
  <2>1. artifact' = Register(artifact, p, phase[p].gen) /\ phase[p].gen \in Nat
    BY <1>1, <1>5 DEF Produces, PhaseRecord
  <2>2. /\ DOMAIN artifact' = DOMAIN artifact \cup {Len(artifact) + 1}
        /\ \A a \in DOMAIN artifact : artifact'[a] = artifact[a]
        /\ artifact'[Len(artifact) + 1].authority = "none"
    BY Zenon, <1>1, <2>1, RegisterStep
  <2> QED
    BY <2>2 DEF Vouched
<1>6. ASSUME NEW p \in Phases, Reserves(p)
      PROVE  Vouched(artifact')
  BY <1>6 DEF Reserves
<1>7. ASSUME NEW p \in Phases, Grants(p), Passed(p)
      PROVE  Vouched(artifact')
  <2>1. artifact' = GrantAuthority(artifact, phase[p].outputs)
    BY <1>7 DEF Grants
  <2>2. /\ DOMAIN artifact' = DOMAIN artifact
        /\ \A a \in DOMAIN artifact :
             /\ artifact'[a].vouched = artifact[a].vouched
             /\ artifact'[a].authority = artifact[a].authority
                  \/ (a \in phase[p].outputs /\ artifact'[a].authority = "authoritative")
    BY Zenon, <1>1, <2>1, GrantStep
  <2> QED
    BY <1>7, <2>2 DEF Vouched, Passed
<1>8. ASSUME NEW t \in Threads, Discards(t) \/ (CommitPublished(t) /\ Publishes(thread[t].phase))
      PROVE  Vouched(artifact')
  <2>1. CommitGranted(t) /\ Grants(thread[t].phase)
    BY <1>8 DEF Discards, CommitUngranted, CommitUnpersisted, CommitPublished, Publishes
  <2> QED
    BY <1>7, <2>1, CommitPassed, CallType
<1> QED
  BY <1>2, <1>3, <1>4, <1>5, <1>6, <1>8, StepKind

\* At the start nothing is in flight and no call is in progress.
LEMMA CallStart ==
  ASSUME Init
  PROVE  CallInv
<1>1. nextId = 1 /\ durable = Bundle /\ artifact = <<>>
  BY DEF Init
<1>2. durable.artifact = artifact /\ DOMAIN artifact = {}
  BY <1>1, SMT DEF Bundle
<1>3. \A p \in Phases : phase[p].state = "pending"
  BY DEF Init
<1>4. \A t \in Threads : thread[t] = Idle
  BY DEF Init
<1>5. Idle.pc = "idle"
  BY DEF Idle
<1>6. "pending" \notin InFlight /\ "idle" \notin Working /\ "idle" \notin Executing
  BY DEF InFlight, Working, Executing, Judging
<1>7. ASSUME NEW t \in Threads PROVE OwnReservation(t) /\ OnStage(t)
  <2>1. thread[t].pc \notin Working /\ thread[t].pc \notin Executing
    BY <1>4, <1>5, <1>6
  <2> QED
    BY <2>1 DEF OwnReservation, OnStage
<1>8. Vouched(artifact) /\ Vouched(durable.artifact)
  BY <1>2 DEF Vouched
<1>9. \A p \in Phases : phase[p].state \in InFlight => phase[p].inv # 0
  BY <1>3, <1>6
<1> QED
  BY <1>1, <1>7, <1>8, <1>9, SMT DEF CallInv

\* Every step keeps the invariant, in memory and in the journal.
LEMMA CallKeeps ==
  ASSUME TypeOK, CommitInv, AuthorityInv, CallInv, "report" \notin Ops, [Next]_vars
  PROVE  CallInv'
<1>1. CallsOwn /\ Vouched(artifact) /\ Vouched(durable.artifact)
  BY DEF CallInv, CallsOwn
<1>2. CallsOwn'
  BY <1>1, CallsStep
<1>3. Vouched(artifact')
  BY <1>1, VouchedStep
<1>4. Vouched(durable'.artifact)
  <2>1. durable'.artifact \in {durable.artifact, artifact'}
    BY JournalStep, SMT DEF Bundle, Saves
  <2> QED
    BY <1>1, <1>3, <2>1
<1> QED
  BY <1>2, <1>3, <1>4 DEF CallInv, CallsOwn
=============================================================================
