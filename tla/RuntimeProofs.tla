---------------------------- MODULE RuntimeProofs ----------------------------
(***************************************************************************)
(* Theorems about Runtime, for every plan, every number of callers and     *)
(* every bound: type correctness, durability of commits, the refinement    *)
(* of CommitLedger, and the kinds of steps that the other proofs tell      *)
(* apart.                                                                  *)
(***************************************************************************)
EXTENDS RuntimeProperties, TLAPS

\* Most leaves are first-order and go to Zenon; one that needs arithmetic or
\* typed records cites SMT.
USE Zenon

----------------------------------------------------------------------------
(* Sequences. *)

\* A member of a sequence.
LEMMA ElementOfSeq ==
  ASSUME NEW S, NEW seq \in Seq(S), NEW n \in 1..Len(seq)
  PROVE  seq[n] \in S
  BY SMT

\* The empty sequence.
LEMMA EmptySeq ==
  ASSUME NEW S
  PROVE  /\ <<>> \in Seq(S) /\ Len(<<>>) = 0
         /\ \A seq \in Seq(S) : seq # <<>> => Len(seq) \in Nat \ {0}
  BY SMT

\* A sequence as a function of its indices.
LEMMA LenProperties ==
  ASSUME NEW S, NEW seq \in Seq(S)
  PROVE  Len(seq) \in Nat /\ seq \in [1..Len(seq) -> S] /\ DOMAIN seq = 1..Len(seq)
  BY SMT

\* A sequence and one more element.
LEMMA AppendProperties ==
  ASSUME NEW S, NEW seq \in Seq(S), NEW elt \in S
  PROVE  /\ Append(seq, elt) \in Seq(S) /\ Append(seq, elt) # <<>>
         /\ Len(Append(seq, elt)) = Len(seq) + 1
         /\ \A i \in 1..Len(seq) : Append(seq, elt)[i] = seq[i]
         /\ Append(seq, elt)[Len(seq) + 1] = elt
  BY SMT

-----------------------------------------------------------------------------
(* The lifecycle.                                                           *)

\* record_transition either makes the transition asked for or none.
LEMMA TransitionResult ==
  ASSUME NEW from, NEW to
  PROVE  RecordTransition(from, to) \in {from, to}
  BY DEF RecordTransition

\* Nothing but retirement leaves a committed phase by a recorded transition
\* to a state that callers can ask for without the commit check.
LEMMA CommittedStays ==
  ASSUME NEW from \in {"committed", "retired"},
         NEW to \in {"running", "produced", "validating", "commit_ready", "failed"}
  PROVE  RecordTransition(from, to) = from
  BY DEF RecordTransition, IsLegal, Withdrawn

\* A phase is not put in flight by a recorded transition.
LEMMA OnlyReserveStarts ==
  ASSUME NEW from \in PhaseState, NEW to \in PhaseState \ {"preparing"},
         RecordTransition(from, to) \in InFlight
  PROVE  from \in InFlight
  BY DEF RecordTransition, IsLegal, InFlight, Withdrawn, PhaseState

-----------------------------------------------------------------------------
(* The registry operations yield registries.                                *)

\* A sequence rewritten position by position is a sequence.
LEMMA PointwiseSeq ==
  ASSUME NEW S, NEW s \in Seq(S), NEW f \in [DOMAIN s -> S]
  PROVE  f \in Seq(S)
  BY LenProperties, SMT

\* register_artifact keeps a registry a registry.
LEMMA RegisterType ==
  ASSUME NEW arts \in Seq(Artifact), NEW p \in Phases, NEW g \in Nat
  PROVE  Register(arts, p, g) \in Seq(Artifact)
<1> DEFINE a == [phase |-> p, gen |-> g, state |-> "unknown", authority |-> "none", vouched |-> FALSE]
<1>1. a \in Artifact
  BY DEF Artifact, ArtifactState, AuthorityState
<1> QED
  BY <1>1, AppendProperties DEF Register

\* set_state keeps a registry a registry.
LEMMA SetStatesType ==
  ASSUME NEW arts \in Seq(Artifact), NEW ids, NEW s \in ArtifactState, NEW p, NEW g
  PROVE  SetStates(arts, ids, s, p, g) \in Seq(Artifact)
<1>1. \A i \in DOMAIN arts : arts[i] \in Artifact
  BY ElementOfSeq, LenProperties
<1>2. SetStates(arts, ids, s, p, g) \in [DOMAIN arts -> Artifact]
  BY ZenonT(60), <1>1 DEF SetStates, Artifact, AuthorityState
<1> QED
  BY <1>2, PointwiseSeq

\* set_authority over the outputs of a phase keeps a registry a registry.
LEMMA GrantAuthorityType ==
  ASSUME NEW arts \in Seq(Artifact), NEW ids
  PROVE  GrantAuthority(arts, ids) \in Seq(Artifact)
<1>1. \A i \in DOMAIN arts : arts[i] \in Artifact
  BY ElementOfSeq, LenProperties
<1>2. GrantAuthority(arts, ids) \in [DOMAIN arts -> Artifact]
  BY <1>1 DEF GrantAuthority, Artifact, AuthorityState
<1> QED
  BY <1>2, PointwiseSeq

\* revoke_phase_outputs keeps a registry a registry.
LEMMA RevokePhaseOutputsType ==
  ASSUME NEW arts \in Seq(Artifact), NEW producers
  PROVE  RevokePhaseOutputs(arts, producers) \in Seq(Artifact)
<1>1. \A i \in DOMAIN arts : arts[i] \in Artifact
  BY ElementOfSeq, LenProperties
<1>2. RevokePhaseOutputs(arts, producers) \in [DOMAIN arts -> Artifact]
  BY ZenonT(60), <1>1 DEF RevokePhaseOutputs, Artifact, AuthorityState, ArtifactState
<1> QED
  BY <1>2, PointwiseSeq

\* revalidate keeps a registry a registry.
LEMMA RevalidateType ==
  ASSUME NEW arts \in Seq(Artifact), NEW bad
  PROVE  Revalidate(arts, bad) \in Seq(Artifact)
<1>1. \A i \in DOMAIN arts : arts[i] \in Artifact
  BY ElementOfSeq, LenProperties
<1>2. Revalidate(arts, bad) \in [DOMAIN arts -> Artifact]
  BY ZenonT(60), <1>1 DEF Revalidate, Artifact, AuthorityState, ArtifactState
<1> QED
  BY <1>2, PointwiseSeq

-----------------------------------------------------------------------------
(* Calls, phase records and bundles keep their types.                       *)

\* A caller that is doing nothing is a caller.
LEMMA IdleType == Idle \in Call
  BY ConstantsAssumption, ElementOfSeq, LenProperties, EmptySeq, SMT DEF Idle, Call, PC

\* So is one that moves on to another region,
LEMMA GotoType ==
  ASSUME NEW t \in Threads, NEW pc \in PC, thread \in [Threads -> Call], Goto(t, pc)
  PROVE  thread' \in [Threads -> Call]
  BY DEF Goto, Call

\* one whose call failed,
LEMMA FailType ==
  ASSUME NEW t \in Threads, thread \in [Threads -> Call], Fail(t)
  PROVE  thread' \in [Threads -> Call]
  BY IdleType DEF Fail

\* and one whose call returned, to the driver or to nobody.
LEMMA ReturnType ==
  ASSUME NEW t \in Threads, NEW pc \in PC, thread \in [Threads -> Call], Return(t, pc)
  PROVE  thread' \in [Threads -> Call]
  BY ZenonT(60), IdleType DEF Return, Call

\* Recording a transition yields a state.
LEMMA TransitionType ==
  \A from, to \in PhaseState : RecordTransition(from, to) \in PhaseState
  BY TransitionResult

\* What the journal holds after an append, refused or not, is a bundle.
LEMMA PersistType ==
  ASSUME NEW ok \in BOOLEAN, Persist(ok), durable \in BundleType,
         session' \in Session, phase' \in [Phases -> PhaseRecord],
         artifact' \in Seq(Artifact), registry' \in [Domains -> Nat]
  PROVE  durable' \in BundleType
  BY SMT DEF Persist, Bundle, BundleType

\* The names of states and failure classes.
LEMMA Names ==
  /\ {"preparing", "running", "produced", "validating", "commit_ready", "committed", "failed",
      "cancelled", "fenced", "retired", "ready"} \subseteq PhaseState
  /\ {"none", "retryable", "refused", "invalidated"} \subseteq FailureClass
  /\ {"unknown", "valid", "corrupt"} \subseteq ArtifactState
  /\ Failures \subseteq FailureClass
  BY ConstantsAssumption DEF PhaseState, FailureClass, ArtifactState

\* Recording a transition of one phase keeps the type of its state.
LEMMA StateType ==
  ASSUME phase \in [Phases -> PhaseRecord]
  PROVE  \A p \in Phases, to \in PhaseState : RecordTransition(phase[p].state, to) \in PhaseState
<1>1. \A p \in Phases : phase[p].state \in PhaseState
  BY DEF PhaseRecord
<1> QED
  BY <1>1, TransitionType

\* reserve() keeps the types.
LEMMA ReserveType ==
  ASSUME TypeOK, NEW t \in Threads, NEW p \in Phases, NEW isRetry \in BOOLEAN,
         NEW driver \in BOOLEAN, Reserve(t, p, isRetry, driver)
  PROVE  TypeOK'
<1>1. /\ phase \in [Phases -> PhaseRecord] /\ nextId \in Nat
      /\ durable \in BundleType /\ thread \in [Threads -> Call]
  BY DEF TypeOK
<1>2. InputsOf(p) \in SUBSET Nat
  <2>1. \A q \in Deps[p] : phase[q].outputs \in SUBSET Nat
    BY ZenonT(60), <1>1, ConstantsAssumption DEF PhaseRecord
  <2> QED
    BY <2>1 DEF InputsOf
<1>3. phase' \in [Phases -> PhaseRecord]
  <2>1. phase[p] \in PhaseRecord
    BY <1>1
  <2> DEFINE r == [state |-> "preparing", gen |-> phase[p].gen + 1, inv |-> nextId, lease |-> nextId,
                   failure |-> "none", attempts |-> phase[p].attempts + 1, inputs |-> InputsOf(p),
                   outputs |-> {}, commit |-> FALSE]
  <2>2. r \in PhaseRecord
    BY <1>1, <1>2, <2>1, Names, SMT DEF PhaseRecord
  <2>3. phase' = [phase EXCEPT ![p] = r]
    BY DEF Reserve
  <2> HIDE DEF r
  <2> QED
    BY <1>1, <2>2, <2>3
<1>4. /\ session' \in Session /\ artifact' \in Seq(Artifact) /\ registry' \in [Domains -> Nat]
      /\ held' \in SUBSET Nat /\ nextId' \in Nat /\ shuttingDown' \in BOOLEAN /\ epoch' \in Nat
  BY SMT DEF Reserve, TypeOK
<1>5. durable' \in BundleType
  BY ZenonT(60), <1>1, <1>3, <1>4, PersistType DEF Reserve
<1>6. thread' \in [Threads -> Call]
  <2>1. phase[p].gen + 1 \in Nat
    BY <1>1, SMT DEF PhaseRecord
  <2> DEFINE launched == [Idle EXCEPT !.pc = "launch", !.phase = p, !.gen = phase[p].gen + 1,
                                      !.inv = nextId, !.driver = driver]
             refused  == [Idle EXCEPT !.pc = "report", !.phase = p, !.driver = TRUE]
  <2>2. launched \in Call /\ refused \in Call
    BY ZenonT(60), <1>1, <2>1, IdleType DEF Call, PC
  <2>3. \E c \in {launched, refused, Idle} : thread' = [thread EXCEPT ![t] = c]
    BY ZenonT(60) DEF Reserve
  <2> HIDE DEF launched, refused
  <2> QED
    BY <1>1, <2>2, <2>3, IdleType
<1> QED
  BY <1>3, <1>4, <1>5, <1>6 DEF TypeOK

\* record_execution keeps the types of what it changes.
LEMMA RecordExecutionType ==
  ASSUME TypeOK, NEW p \in Phases, NEW outcome \in Failures \cup {"ok"}, RecordExecution(p, outcome)
  PROVE  /\ phase' \in [Phases -> PhaseRecord] /\ artifact' \in Seq(Artifact)
         /\ session' \in Session /\ registry' \in [Domains -> Nat]
         /\ held' \in SUBSET Nat /\ nextId' \in Nat /\ shuttingDown' \in BOOLEAN /\ epoch' \in Nat
<1>1. phase \in [Phases -> PhaseRecord] /\ artifact \in Seq(Artifact)
  BY DEF TypeOK
<1>2. /\ session' \in Session /\ registry' \in [Domains -> Nat]
      /\ held' \in SUBSET Nat /\ nextId' \in Nat /\ shuttingDown' \in BOOLEAN /\ epoch' \in Nat
  BY DEF RecordExecution, TypeOK
<1>3. CASE outcome = "ok"
  <2>1. phase[p].gen \in Nat
    BY <1>1 DEF PhaseRecord
  <2>2. artifact' \in Seq(Artifact)
    BY <1>1, <1>3, <2>1, RegisterType, SMT DEF RecordExecution
  <2>3. Len(artifact) + 1 \in Nat
    BY <1>1, LenProperties, SMT
  <2> DEFINE s == RecordTransition(RecordTransition(phase[p].state, "produced"), "validating")
             o == phase[p].outputs \cup {Len(artifact) + 1}
  <2>4. s \in PhaseState
    BY <1>1, StateType, TransitionType, Names
  <2>5. o \in SUBSET Nat
    BY <1>1, <2>3 DEF PhaseRecord
  <2>6. phase' = [phase EXCEPT ![p].state = s, ![p].outputs = o]
    BY <1>3 DEF RecordExecution
  <2> HIDE DEF s, o
  <2>7. phase' \in [Phases -> PhaseRecord]
    BY ZenonT(60), <1>1, <2>4, <2>5, <2>6 DEF PhaseRecord
  <2> QED
    BY <1>2, <2>2, <2>7
<1>4. CASE outcome # "ok"
  <2>1. outcome \in FailureClass
    BY <1>4, Names
  <2>2. RecordTransition(phase[p].state, "failed") \in PhaseState
    BY <1>1, StateType, Names
  <2>3. phase' = [phase EXCEPT ![p].state = RecordTransition(@, "failed"), ![p].failure = outcome]
    BY <1>4 DEF RecordExecution
  <2>4. phase' \in [Phases -> PhaseRecord]
    BY ZenonT(60), <1>1, <2>1, <2>2, <2>3 DEF PhaseRecord
  <2> QED
    BY <1>1, <1>2, <1>4, <2>4 DEF RecordExecution
<1> QED
  BY <1>3, <1>4

\* The body of cancel_phase keeps the types of what it changes.
LEMMA CancelPhaseBodyType ==
  ASSUME TypeOK, NEW p \in Phases, CancelPhaseBody(p)
  PROVE  /\ phase' \in [Phases -> PhaseRecord] /\ artifact' \in Seq(Artifact)
         /\ session' \in Session /\ registry' \in [Domains -> Nat]
         /\ held' \in SUBSET Nat /\ nextId' \in Nat /\ shuttingDown' \in BOOLEAN /\ epoch' \in Nat
         /\ durable' \in BundleType
<1>1. /\ phase \in [Phases -> PhaseRecord] /\ artifact \in Seq(Artifact) /\ durable \in BundleType
  BY DEF TypeOK
<1>2. /\ session' \in Session /\ registry' \in [Domains -> Nat]
      /\ held' \in SUBSET Nat /\ nextId' \in Nat /\ shuttingDown' \in BOOLEAN /\ epoch' \in Nat
  BY DEF CancelPhaseBody, TypeOK
<1>3. phase' \in [Phases -> PhaseRecord]
  <2> DEFINE s == RecordTransition(phase[p].state, "cancelled")
             cancelled == [phase[p] EXCEPT !.state = s, !.failure = "retryable", !.inv = 0]
             left == [phase[p] EXCEPT !.inv = 0]
  <2>1. s \in PhaseState
    BY <1>1, StateType, Names
  <2>2. \E r \in {cancelled, left} : phase' = [phase EXCEPT ![p] = r]
    BY ZenonT(60) DEF CancelPhaseBody
  <2> HIDE DEF s
  <2>3. cancelled \in PhaseRecord /\ left \in PhaseRecord
    BY ZenonT(60), <1>1, <2>1, Names DEF PhaseRecord
  <2> HIDE DEF cancelled, left
  <2> QED
    BY <1>1, <2>2, <2>3
<1>4. artifact' \in Seq(Artifact)
  BY <1>1, RevokePhaseOutputsType DEF CancelPhaseBody
<1>5. durable' \in BundleType
  BY ZenonT(60), <1>1, <1>2, <1>3, <1>4, PersistType DEF CancelPhaseBody
<1> QED
  BY <1>2, <1>3, <1>4, <1>5

\* Fencing what is in flight keeps the types.
LEMMA FencedType ==
  ASSUME NEW ph \in [Phases -> PhaseRecord], NEW arts \in Seq(Artifact)
  PROVE  /\ Fenced(ph) \in [Phases -> PhaseRecord]
         /\ FencedOutputs(arts, ph) \in Seq(Artifact)
<1>1. Fenced(ph) \in [Phases -> PhaseRecord]
  BY ZenonT(60), Names DEF Fenced, PhaseRecord
<1> QED
  BY <1>1, RevokePhaseOutputsType DEF FencedOutputs

-----------------------------------------------------------------------------
(* Type correctness.                                                        *)

\* The reservation that a call holds is well typed.
LEMMA CallType ==
  ASSUME TypeOK
  PROVE  \A t \in Threads :
           /\ thread[t].phase \in Phases /\ thread[t].gen \in Nat /\ thread[t].inv \in Nat
           /\ thread[t].retry \in BOOLEAN /\ thread[t].driver \in BOOLEAN
           /\ thread[t].step \in Nat
  BY DEF TypeOK, Call

\* Running a phase up to the commit (run_phase_impl) keeps the types.
LEMMA ExecutionType ==
  ASSUME TypeOK, NEW t \in Threads,
         ReserveDecided(t) \/ ReserveRefused(t) \/ Launch(t) \/ Record(t)
           \/ Check(t) \/ Reproduce(t) \/ Validate(t)
  PROVE  TypeOK'
<1> DEFINE p == thread[t].phase
<1>1. /\ session \in Session /\ phase \in [Phases -> PhaseRecord] /\ artifact \in Seq(Artifact)
      /\ registry \in [Domains -> Nat] /\ durable \in BundleType /\ thread \in [Threads -> Call]
  BY DEF TypeOK
<1>2. p \in Phases /\ thread[t].retry \in BOOLEAN /\ thread[t].driver \in BOOLEAN
  BY CallType
<1>3. \A to \in PhaseState : RecordTransition(phase[p].state, to) \in PhaseState
  BY <1>1, <1>2, StateType
<1>4. {"report", "execute", "abort", "check", "halt", "repro", "validate", "commit"} \subseteq PC
  BY DEF PC
<1> HIDE DEF p
<1>5. CASE ReserveDecided(t)
  BY <1>2, <1>5, ReserveType DEF ReserveDecided, p
<1>6. CASE ReserveRefused(t)
  <2>1. thread' \in [Threads -> Call]
    BY <1>1, <1>4, <1>6, ReturnType DEF ReserveRefused
  <2> QED
    BY <1>6, <2>1 DEF ReserveRefused, TypeOK
<1>7. CASE Launch(t)
  <2>1. phase' \in [Phases -> PhaseRecord]
    <3>1. CASE phase' = [phase EXCEPT ![p].state = RecordTransition(@, "running")]
      BY ZenonT(60), <1>1, <1>2, <1>3, <3>1, Names DEF PhaseRecord
    <3>2. CASE phase' = phase
      BY <1>1, <3>2
    <3> QED
      BY <1>7, <3>1, <3>2 DEF Launch, p
  <2>2. /\ session' \in Session /\ artifact' \in Seq(Artifact) /\ registry' \in [Domains -> Nat]
        /\ held' \in SUBSET Nat /\ nextId' \in Nat /\ shuttingDown' \in BOOLEAN /\ epoch' \in Nat
    BY <1>7 DEF Launch, TypeOK
  <2>3. durable' \in BundleType
    BY <1>1, <1>7, <2>1, <2>2, PersistType DEF Launch
  <2>4. thread' \in [Threads -> Call]
    BY <1>1, <1>4, <1>7, GotoType DEF Launch
  <2> QED
    BY <2>1, <2>2, <2>3, <2>4 DEF TypeOK
<1>8. CASE Record(t)
  <2>1. CASE \E outcome \in Failures \cup {"ok"} :
               /\ RecordExecution(p, outcome)
               /\ \E ok \in BOOLEAN : Persist(ok) /\ IF ok THEN Goto(t, "check") ELSE Fail(t)
    <3>1. PICK outcome \in Failures \cup {"ok"} : RecordExecution(p, outcome)
      BY <2>1
    <3>2. /\ phase' \in [Phases -> PhaseRecord] /\ artifact' \in Seq(Artifact)
          /\ session' \in Session /\ registry' \in [Domains -> Nat]
          /\ held' \in SUBSET Nat /\ nextId' \in Nat /\ shuttingDown' \in BOOLEAN /\ epoch' \in Nat
      BY <1>2, <3>1, RecordExecutionType
    <3>3. durable' \in BundleType
      BY ZenonT(60), <1>1, <2>1, <3>2, PersistType
    <3>4. thread' \in [Threads -> Call]
      BY <1>1, <1>4, <2>1, GotoType, FailType
    <3> QED
      BY <3>2, <3>3, <3>4 DEF TypeOK
  <2>2. CASE /\ Fail(t)
             /\ phase' \in {phase, [phase EXCEPT ![p].state = RecordTransition(@, "produced")]}
             /\ UNCHANGED <<session, artifact, registry, held, nextId, shuttingDown, epoch, durable>>
    <3>1. phase' \in [Phases -> PhaseRecord]
      <4>1. CASE phase' = [phase EXCEPT ![p].state = RecordTransition(@, "produced")]
        BY ZenonT(60), <1>1, <1>2, <1>3, <4>1, Names DEF PhaseRecord
      <4> QED
        BY <1>1, <2>2, <4>1
    <3>2. thread' \in [Threads -> Call]
      BY <1>1, <2>2, FailType
    <3> QED
      BY <2>2, <3>1, <3>2 DEF TypeOK
  <2> QED
    BY <1>8, <2>1, <2>2 DEF Record, RecordStopped, p
<1>9. CASE Check(t)
  <2>1. thread' \in [Threads -> Call]
    BY <1>1, <1>4, <1>9, ReturnType, GotoType DEF Check
  <2> QED
    BY <1>9, <2>1 DEF Check, TypeOK
<1>10. CASE Reproduce(t)
  <2>1. phase' \in [Phases -> PhaseRecord]
    <3>1. CASE phase' = [phase EXCEPT ![p].state = RecordTransition(@, "failed"), ![p].failure = "refused"]
      BY ZenonT(60), <1>1, <1>2, <1>3, <3>1, Names DEF PhaseRecord
    <3>2. CASE phase' = phase
      BY <1>1, <3>2
    <3> QED
      BY <1>10, <3>1, <3>2 DEF Reproduce, p
  <2>2. artifact' \in Seq(Artifact)
    BY <1>1, <1>10, RevokePhaseOutputsType, SMT DEF Reproduce
  <2>3. /\ session' \in Session /\ registry' \in [Domains -> Nat]
        /\ held' \in SUBSET Nat /\ nextId' \in Nat /\ shuttingDown' \in BOOLEAN /\ epoch' \in Nat
    BY <1>10 DEF Reproduce, TypeOK
  <2>4. durable' \in BundleType
    BY <1>1, <1>10, <2>1, <2>2, <2>3, PersistType DEF Reproduce
  <2>5. thread' \in [Threads -> Call]
    BY <1>1, <1>4, <1>10, GotoType, ReturnType, FailType DEF Reproduce
  <2> QED
    BY <2>1, <2>2, <2>3, <2>4, <2>5 DEF TypeOK
<1>11. CASE Validate(t)
  <2>1. phase' \in [Phases -> PhaseRecord]
    <3>1. CASE phase' = [phase EXCEPT ![p].state = RecordTransition(@, "commit_ready")]
      BY ZenonT(60), <1>1, <1>2, <1>3, <3>1, Names DEF PhaseRecord
    <3>2. ASSUME NEW f \in Failures,
                 phase' = [phase EXCEPT ![p].state = RecordTransition(@, "failed"), ![p].failure = f]
          PROVE  phase' \in [Phases -> PhaseRecord]
      BY ZenonT(60), <1>1, <1>2, <1>3, <3>2, Names DEF PhaseRecord
    <3>3. CASE phase' = phase
      BY <1>1, <3>3
    <3> QED
      BY ZenonT(60), <1>11, <3>1, <3>2, <3>3 DEF Validate, p
  <2>2. artifact' \in Seq(Artifact)
    <3>1. /\ SetStates(artifact, phase[p].outputs, "valid", p, thread[t].gen) \in Seq(Artifact)
          /\ SetStates(artifact, phase[p].outputs, "corrupt", p, thread[t].gen) \in Seq(Artifact)
      BY <1>1, SetStatesType, Names
    <3> QED
      BY ZenonT(60), <1>1, <1>11, <3>1 DEF Validate, p
  <2>3. /\ session' \in Session /\ registry' \in [Domains -> Nat]
        /\ held' \in SUBSET Nat /\ nextId' \in Nat /\ shuttingDown' \in BOOLEAN /\ epoch' \in Nat
    BY <1>11 DEF Validate, TypeOK
  <2>4. durable' \in BundleType
    BY ZenonT(60), <1>1, <1>11, <2>1, <2>2, <2>3, PersistType DEF Validate
  <2>5. thread' \in [Threads -> Call]
    BY ZenonT(60), <1>1, <1>4, <1>11, GotoType, ReturnType, FailType DEF Validate
  <2> QED
    BY <2>1, <2>2, <2>3, <2>4, <2>5 DEF TypeOK
<1> QED
  BY <1>5, <1>6, <1>7, <1>8, <1>9, <1>10, <1>11

\* commit_reserved keeps the types.
LEMMA CommitType ==
  ASSUME TypeOK, NEW t \in Threads,
         CommitRefused(t) \/ CommitUnprobed(t) \/ CommitFenced(t)
           \/ CommitUngranted(t) \/ CommitPublished(t) \/ CommitUnpersisted(t)
  PROVE  TypeOK'
<1> DEFINE p == thread[t].phase
<1>1. /\ session \in Session /\ phase \in [Phases -> PhaseRecord] /\ artifact \in Seq(Artifact)
      /\ registry \in [Domains -> Nat] /\ held \in SUBSET Nat
      /\ durable \in BundleType /\ thread \in [Threads -> Call]
  BY DEF TypeOK
<1>2. p \in Phases
  BY CallType
<1>3. \A to \in PhaseState : RecordTransition(phase[p].state, to) \in PhaseState
  BY <1>1, <1>2, StateType
<1>4. {"halt", "drive"} \subseteq PC
  BY DEF PC
<1>5. ASSUME Probed
      PROVE  registry' \in [Domains -> Nat]
  BY <1>1, <1>5, ConstantsAssumption, SMTT(30) DEF Probed
<1>6. CommittedPhases(p) \in [Phases -> PhaseRecord]
  BY ZenonT(60), <1>1, <1>2, <1>3, Names DEF CommittedPhases, PhaseRecord
<1>7. CommittedSession(p) \in Session
  BY ZenonT(60), <1>1 DEF CommittedSession, Session, SessionState
<1> HIDE DEF p
<1>8. CASE CommitRefused(t)
  <2>1. thread' \in [Threads -> Call]
    BY <1>1, <1>8, FailType DEF CommitRefused
  <2> QED
    BY <1>8, <2>1 DEF CommitRefused, TypeOK
<1>9. CASE CommitUnprobed(t)
  <2>1. phase' = [phase EXCEPT ![p].state = RecordTransition(@, "fenced"), ![p].failure = "refused"]
    BY <1>9 DEF CommitUnprobed, p
  <2>2. phase' \in [Phases -> PhaseRecord]
    BY ZenonT(60), <1>1, <1>2, <1>3, <2>1, Names DEF PhaseRecord
  <2>3. artifact' \in Seq(Artifact)
    BY <1>1, <1>9, RevokePhaseOutputsType DEF CommitUnprobed
  <2>4. /\ session' \in Session /\ registry' \in [Domains -> Nat]
        /\ held' \in SUBSET Nat /\ nextId' \in Nat /\ shuttingDown' \in BOOLEAN /\ epoch' \in Nat
    BY <1>9 DEF CommitUnprobed, TypeOK
  <2>5. durable' \in BundleType
    BY ZenonT(60), <1>1, <1>9, <2>2, <2>3, <2>4, PersistType DEF CommitUnprobed
  <2>6. thread' \in [Threads -> Call]
    BY <1>1, <1>9, FailType DEF CommitUnprobed
  <2> QED
    BY <2>2, <2>3, <2>4, <2>5, <2>6 DEF TypeOK
<1>10. CASE CommitFenced(t)
  <2>1. phase' = [phase EXCEPT ![p].state = RecordTransition(@, "fenced"), ![p].failure = "invalidated"]
    BY <1>10 DEF CommitFenced, p
  <2>2. phase' \in [Phases -> PhaseRecord]
    BY ZenonT(60), <1>1, <1>2, <1>3, <2>1, Names DEF PhaseRecord
  <2>3. artifact' \in Seq(Artifact)
    BY <1>1, <1>10, RevokePhaseOutputsType DEF CommitFenced
  <2>4. registry' \in [Domains -> Nat]
    BY <1>5, <1>10 DEF CommitFenced
  <2>5. /\ session' \in Session
        /\ held' \in SUBSET Nat /\ nextId' \in Nat /\ shuttingDown' \in BOOLEAN /\ epoch' \in Nat
    BY <1>10 DEF CommitFenced, TypeOK
  <2>6. durable' \in BundleType
    BY ZenonT(60), <1>1, <1>10, <2>2, <2>3, <2>4, <2>5, PersistType DEF CommitFenced
  <2>7. thread' \in [Threads -> Call]
    BY <1>1, <1>4, <1>10, ReturnType, FailType DEF CommitFenced
  <2> QED
    BY <2>2, <2>3, <2>4, <2>5, <2>6, <2>7 DEF TypeOK
<1>11. ASSUME CommitGranted(t)
       PROVE  /\ artifact' \in Seq(Artifact) /\ registry' \in [Domains -> Nat]
              /\ nextId' \in Nat /\ shuttingDown' \in BOOLEAN /\ epoch' \in Nat
  BY <1>1, <1>5, <1>11, GrantAuthorityType DEF CommitGranted, TypeOK
<1>12. CASE CommitUngranted(t)
  <2>1. thread' \in [Threads -> Call]
    BY <1>1, <1>12, FailType DEF CommitUngranted
  <2> QED
    BY <1>11, <1>12, <2>1 DEF CommitUngranted, TypeOK
<1>13. CASE CommitPublished(t)
  <2>1. session' \in Session /\ phase' \in [Phases -> PhaseRecord] /\ held' \in SUBSET Nat
    BY ZenonT(60), <1>1, <1>6, <1>7, <1>13 DEF CommitPublished, p
  <2>2. durable' \in BundleType
    BY <1>11, <1>13, <2>1 DEF CommitPublished, Bundle, BundleType
  <2>3. thread' \in [Threads -> Call]
    BY <1>1, <1>4, <1>13, ReturnType DEF CommitPublished
  <2> QED
    BY <1>11, <1>13, <2>1, <2>2, <2>3 DEF CommitPublished, TypeOK
<1>14. CASE CommitUnpersisted(t)
  <2>1. durable' \in BundleType
    BY <1>1, <1>6, <1>7, <1>11, <1>14, SMTT(30) DEF CommitUnpersisted, BundleType, p
  <2>2. thread' \in [Threads -> Call]
    BY <1>1, <1>14, FailType DEF CommitUnpersisted
  <2> QED
    BY <1>11, <1>14, <2>1, <2>2 DEF CommitUnpersisted, TypeOK
<1> QED
  BY <1>8, <1>9, <1>10, <1>12, <1>13, <1>14

\* The driver, cancellation, shutdown and recovery steps of a call keep the types.
LEMMA DriverType ==
  ASSUME TypeOK, NEW t \in Threads,
         Drive(t) \/ Report(t) \/ Halt(t) \/ CancelNext(t) \/ CancelDone(t)
           \/ ShutdownSave(t) \/ ApplyRecovery(t)
  PROVE  TypeOK'
<1>1. /\ session \in Session /\ phase \in [Phases -> PhaseRecord] /\ artifact \in Seq(Artifact)
      /\ registry \in [Domains -> Nat] /\ durable \in BundleType /\ thread \in [Threads -> Call]
  BY DEF TypeOK
<1>2. {"drive", "halt"} \subseteq PC
  BY DEF PC
<1>3. \A st \in {"active", "failed", "cancelled", "recovering"} : [session EXCEPT !.state = st] \in Session
  BY ZenonT(60), <1>1 DEF Session, SessionState
<1>4. ASSUME thread' = [thread EXCEPT ![t] = Idle]
      PROVE  thread' \in [Threads -> Call]
  BY <1>1, <1>4, IdleType
<1>5. CASE Drive(t)
  <2>1. /\ phase' \in [Phases -> PhaseRecord] /\ artifact' \in Seq(Artifact) /\ registry' \in [Domains -> Nat]
        /\ held' \in SUBSET Nat /\ nextId' \in Nat /\ shuttingDown' \in BOOLEAN /\ epoch' \in Nat
    BY ZenonT(60), <1>5 DEF Drive, TypeOK
  <2>2. session' \in Session
    BY ZenonT(60), <1>3, <1>5 DEF Drive
  <2>3. durable' \in BundleType
    BY ZenonT(60), <1>1, <1>5, <2>1, <2>2, PersistType DEF Drive
  <2>4. thread' \in [Threads -> Call]
    <3>1. ASSUME NEW i \in Schedulable,
                 thread' = [thread EXCEPT ![t] = [Idle EXCEPT !.pc = "reserve", !.phase = Order[i],
                                                              !.driver = TRUE]]
          PROVE  thread' \in [Threads -> Call]
      <4>1. Order[i] \in Phases
        BY ConstantsAssumption, ElementOfSeq, LenProperties, SMT DEF Schedulable
      <4> QED
        BY ZenonT(60), <1>1, <3>1, <4>1, IdleType DEF Call, PC
    <3> QED
      BY ZenonT(60), <1>4, <1>5, <3>1 DEF Drive
  <2> QED
    BY <2>1, <2>2, <2>3, <2>4 DEF TypeOK
<1>6. CASE Report(t)
  <2>1. thread' \in [Threads -> Call]
    BY <1>1, <1>2, <1>6, ReturnType DEF Report
  <2> QED
    BY <1>6, <2>1 DEF Report, TypeOK
<1>7. CASE Halt(t)
  <2>1. /\ phase' \in [Phases -> PhaseRecord] /\ artifact' \in Seq(Artifact) /\ registry' \in [Domains -> Nat]
        /\ held' \in SUBSET Nat /\ nextId' \in Nat /\ shuttingDown' \in BOOLEAN /\ epoch' \in Nat
    BY <1>7 DEF Halt, TypeOK
  <2>2. session' \in Session
    BY <1>1, <1>3, <1>7 DEF Halt
  <2>3. durable' \in BundleType
    BY <1>1, <1>7, <2>1, <2>2, PersistType DEF Halt
  <2> QED
    BY <1>4, <1>7, <2>1, <2>2, <2>3 DEF Halt, TypeOK
<1>8. CASE CancelNext(t)
  <2>1. thread' \in [Threads -> Call]
    <3>1. thread' = [thread EXCEPT ![t].step = @ + 1]
      BY <1>8 DEF CancelNext
    <3>2. thread[t].step + 1 \in Nat
      BY CallType, SMT
    <3> QED
      BY ZenonT(60), <1>1, <3>1, <3>2 DEF Call
  <2>2. CASE UNCHANGED <<session, phase, artifact, registry, held, nextId, shuttingDown, epoch, durable>>
    BY <2>1, <2>2 DEF TypeOK
  <2>3. CASE CancelPhaseBody(Order[thread[t].step])
    <3>1. Order[thread[t].step] \in Phases
      BY <1>8, ConstantsAssumption, ElementOfSeq, LenProperties, SMT DEF CancelNext
    <3> QED
      BY <2>1, <2>3, <3>1, CancelPhaseBodyType DEF TypeOK
  <2> QED
    BY <1>8, <2>2, <2>3 DEF CancelNext
<1>9. CASE CancelDone(t)
  <2>1. /\ phase' \in [Phases -> PhaseRecord] /\ artifact' \in Seq(Artifact) /\ registry' \in [Domains -> Nat]
        /\ held' \in SUBSET Nat /\ nextId' \in Nat /\ shuttingDown' \in BOOLEAN /\ epoch' \in Nat
    BY <1>9 DEF CancelDone, TypeOK
  <2>2. session' \in Session
    BY <1>3, <1>9 DEF CancelDone
  <2>3. durable' \in BundleType
    BY ZenonT(60), <1>1, <1>9, <2>1, <2>2, PersistType DEF CancelDone
  <2> QED
    BY <1>4, <1>9, <2>1, <2>2, <2>3 DEF CancelDone, TypeOK
<1>10. CASE ShutdownSave(t)
  <2>1. /\ phase' \in [Phases -> PhaseRecord] /\ artifact' \in Seq(Artifact) /\ registry' \in [Domains -> Nat]
        /\ held' \in SUBSET Nat /\ nextId' \in Nat /\ shuttingDown' \in BOOLEAN /\ epoch' \in Nat
    BY <1>10 DEF ShutdownSave, TypeOK
  <2>2. session' \in Session
    BY <1>1, <1>10 DEF ShutdownSave, Session, SessionState
  <2>3. durable' \in BundleType
    BY <1>1, <1>10, <2>1, <2>2, PersistType DEF ShutdownSave
  <2> QED
    BY <1>4, <1>10, <2>1, <2>2, <2>3 DEF ShutdownSave, TypeOK
<1>11. CASE ApplyRecovery(t)
  <2>1. artifact' \in Seq(Artifact)
    BY <1>1, <1>11, RevalidateType DEF ApplyRecovery
  <2>2. \A p \in Phases : Recovered(phase[p]) \in PhaseRecord
    <3> SUFFICES ASSUME NEW p \in Phases
                 PROVE  Recovered(phase[p]) \in PhaseRecord
      OBVIOUS
    <3>1. RecordTransition(phase[p].state, "ready") \in PhaseState
      BY <1>1, StateType, Names
    <3>2. phase[p] \in PhaseRecord
      BY <1>1
    <3> QED
      BY ZenonT(60), <3>1, <3>2, Names DEF Recovered, PhaseRecord
  <2>3. phase' \in [Phases -> PhaseRecord]
    BY <1>1, <1>11, <2>2 DEF ApplyRecovery
  <2>4. session' \in Session
    BY ZenonT(60), <1>1, <1>3, <1>11 DEF ApplyRecovery
  <2>5. /\ registry' \in [Domains -> Nat]
        /\ held' \in SUBSET Nat /\ nextId' \in Nat /\ shuttingDown' \in BOOLEAN /\ epoch' \in Nat
    BY <1>11 DEF ApplyRecovery, TypeOK
  <2>6. durable' \in BundleType
    BY ZenonT(60), <1>1, <1>11, <2>1, <2>3, <2>4, <2>5, PersistType DEF ApplyRecovery
  <2> QED
    BY <1>4, <1>11, <2>1, <2>3, <2>4, <2>5, <2>6 DEF ApplyRecovery, TypeOK
<1> QED
  BY <1>5, <1>6, <1>7, <1>8, <1>9, <1>10, <1>11

\* The calls, and the operations that are one region, keep the types.
LEMMA OperationType ==
  ASSUME TypeOK,
         \/ \E t \in Threads :
              \/ \E p \in Phases : RunPhase(t, p) \/ RetryPhase(t, p) \/ CommitPhase(t, p)
              \/ RunSession(t) \/ CancelSession(t) \/ Shutdown(t) \/ PlanRecovery(t)
         \/ \E p \in Phases : ReportOutput(p) \/ CancelPhase(p) \/ \E f \in Failures : FailPhase(p, f)
         \/ RetireSession \/ Reopen
         \/ \E d \in Domains : MoveGeneration(d)
         \/ Restart
  PROVE  TypeOK'
<1>1. /\ session \in Session /\ phase \in [Phases -> PhaseRecord] /\ artifact \in Seq(Artifact)
      /\ registry \in [Domains -> Nat] /\ held \in SUBSET Nat /\ nextId \in Nat /\ epoch \in Nat
      /\ durable \in BundleType /\ thread \in [Threads -> Call]
  BY DEF TypeOK
<1>2. ASSUME NEW t \in Threads, NEW p \in Phases, RunPhase(t, p)
      PROVE  TypeOK'
  BY ZenonT(60), <1>2, ReserveType DEF RunPhase
<1>3. ASSUME NEW t \in Threads, NEW p \in Phases, RetryPhase(t, p)
      PROVE  TypeOK'
  <2>1. session' \in Session
    <3>1. session' = [session EXCEPT !.retries = @ + 1]
      BY ZenonT(60), <1>3 DEF RetryPhase
    <3>2. session \in Session
      BY <1>1
    <3>3. session.retries + 1 \in Nat
      BY <3>2, SMT DEF Session
    <3> QED
      BY <3>1, <3>2, <3>3 DEF Session
  <2>2. [Idle EXCEPT !.pc = "reserve", !.phase = p, !.retry = TRUE] \in Call
    BY ZenonT(60), IdleType DEF Call, PC
  <2>3. thread' \in [Threads -> Call]
    BY ZenonT(60), <1>1, <1>3, <2>2 DEF RetryPhase
  <2> QED
    BY ZenonT(60), <1>3, <2>1, <2>3 DEF RetryPhase, TypeOK
<1>4. ASSUME NEW t \in Threads, NEW p \in Phases, CommitPhase(t, p)
      PROVE  TypeOK'
  <2>1. phase[p].gen \in Nat /\ phase[p].inv \in Nat
    BY <1>1 DEF PhaseRecord
  <2>2. [Idle EXCEPT !.pc = "validate", !.phase = p, !.gen = phase[p].gen, !.inv = phase[p].inv] \in Call
    BY ZenonT(60), <2>1, IdleType DEF Call, PC
  <2>3. thread' \in [Threads -> Call]
    BY ZenonT(60), <1>1, <1>4, <2>2 DEF CommitPhase
  <2> QED
    BY ZenonT(60), <1>4, <2>3 DEF CommitPhase, TypeOK
<1>5. ASSUME NEW t \in Threads, RunSession(t)
      PROVE  TypeOK'
  <2>1. [Idle EXCEPT !.pc = "drive", !.driver = TRUE] \in Call
    BY ZenonT(60), IdleType DEF Call, PC
  <2> QED
    BY <1>5, <2>1 DEF RunSession, TypeOK
<1>6. ASSUME NEW t \in Threads, CancelSession(t)
      PROVE  TypeOK'
  <2>1. [Idle EXCEPT !.pc = "cancelling", !.step = 1] \in Call
    BY ZenonT(60), IdleType DEF Call, PC
  <2> QED
    BY <1>6, <2>1 DEF CancelSession, TypeOK
<1>7. ASSUME NEW t \in Threads, Shutdown(t)
      PROVE  TypeOK'
  <2>1. phase' \in [Phases -> PhaseRecord] /\ artifact' \in Seq(Artifact) /\ held' \in SUBSET Nat
    BY <1>1, <1>7, FencedType DEF Shutdown
  <2>2. [Idle EXCEPT !.pc = "stopping"] \in Call
    BY IdleType DEF Call, PC
  <2>3. thread' \in [Threads -> Call]
    BY <1>1, <1>7, <2>2 DEF Shutdown
  <2> QED
    BY <1>7, <2>1, <2>3 DEF Shutdown, TypeOK
<1>8. ASSUME NEW t \in Threads, PlanRecovery(t)
      PROVE  TypeOK'
  <2>1. \A q \in Phases : phase[q].outputs \in SUBSET Nat
    BY <1>1 DEF PhaseRecord
  <2>2. ASSUME NEW a \in SUBSET Nat, NEW m \in BOOLEAN
        PROVE  [Idle EXCEPT !.pc = "recover", !.suspects = a, !.manual = m] \in Call
    BY ZenonT(60), IdleType DEF Call, PC
  <2> DEFINE suspects == {a \in UNION {phase[q].outputs : q \in {r \in Phases : phase[r].state = "committed"}} :
                            artifact[a].authority # "authoritative"}
             manual == \E i \in RestartCandidates :
                         /\ \A j \in RestartCandidates : i <= j
                         /\ phase[Order[i]].state = "failed"
                         /\ phase[Order[i]].failure = "unknown"
  <2>3. suspects \in SUBSET Nat /\ manual \in BOOLEAN
    BY <2>1
  <2>4. thread' \in [Threads -> Call]
    <3>1. thread' = [thread EXCEPT ![t] = [Idle EXCEPT !.pc = "recover", !.suspects = suspects, !.manual = manual]]
      BY ZenonT(60), <1>8 DEF PlanRecovery
    <3> HIDE DEF suspects, manual
    <3> QED
      BY ZenonT(60), <1>1, <2>2, <2>3, <3>1
  <2> QED
    BY ZenonT(60), <1>8, <2>4 DEF PlanRecovery, TypeOK
<1>9. ASSUME NEW p \in Phases, ReportOutput(p)
      PROVE  TypeOK'
  <2>1. CASE /\ \E outcome \in Failures \cup {"ok"} : RecordExecution(p, outcome)
             /\ \E ok \in BOOLEAN : Persist(ok)
    <3>1. PICK outcome \in Failures \cup {"ok"} : RecordExecution(p, outcome)
      BY <2>1
    <3>2. /\ phase' \in [Phases -> PhaseRecord] /\ artifact' \in Seq(Artifact)
          /\ session' \in Session /\ registry' \in [Domains -> Nat]
          /\ held' \in SUBSET Nat /\ nextId' \in Nat /\ shuttingDown' \in BOOLEAN /\ epoch' \in Nat
      BY <3>1, RecordExecutionType
    <3>3. durable' \in BundleType
      BY ZenonT(60), <1>1, <2>1, <3>2, PersistType
    <3> QED
      BY <1>1, <1>9, <3>2, <3>3 DEF ReportOutput, TypeOK
  <2>2. CASE RecordStopped(p)
    <3>1. phase' \in [Phases -> PhaseRecord]
      <4>1. RecordTransition(phase[p].state, "produced") \in PhaseState
        BY ZenonT(60), <1>1, StateType, Names
      <4>2. CASE phase' = [phase EXCEPT ![p].state = RecordTransition(@, "produced")]
        BY ZenonT(60), <1>1, <1>9, <4>1, <4>2 DEF PhaseRecord
      <4> QED
        BY <1>1, <2>2, <4>2 DEF RecordStopped
    <3> QED
      BY <1>1, <1>9, <2>2, <3>1 DEF ReportOutput, RecordStopped, TypeOK
  <2> QED
    BY <1>9, <2>1, <2>2 DEF ReportOutput
<1>10. ASSUME NEW p \in Phases, CancelPhase(p)
       PROVE  TypeOK'
  BY <1>1, <1>10, CancelPhaseBodyType DEF CancelPhase, TypeOK
<1>11. ASSUME NEW p \in Phases, NEW f \in Failures, FailPhase(p, f)
       PROVE  TypeOK'
  <2> DEFINE s == IF phase[p].state \in RetainsCommitAuthority
                  THEN RecordTransition(phase[p].state, "failed") ELSE phase[p].state
  <2>1. s \in PhaseState
    BY <1>1, StateType, Names DEF PhaseRecord
  <2>2. phase' = [phase EXCEPT ![p].state = s, ![p].failure = f]
    BY <1>11 DEF FailPhase
  <2> HIDE DEF s
  <2>3. phase' \in [Phases -> PhaseRecord]
    BY ZenonT(60), <1>1, <2>1, <2>2, Names DEF PhaseRecord
  <2>4. artifact' \in Seq(Artifact)
    BY <1>1, <1>11, RevokePhaseOutputsType DEF FailPhase
  <2>5. /\ session' \in Session /\ registry' \in [Domains -> Nat]
        /\ held' \in SUBSET Nat /\ nextId' \in Nat /\ shuttingDown' \in BOOLEAN /\ epoch' \in Nat
        /\ thread' \in [Threads -> Call]
    BY <1>11 DEF FailPhase, TypeOK
  <2>6. durable' \in BundleType
    BY ZenonT(60), <1>1, <1>11, <2>3, <2>4, <2>5, PersistType DEF FailPhase
  <2> QED
    BY <2>3, <2>4, <2>5, <2>6 DEF TypeOK
<1>12. ASSUME RetireSession
       PROVE  TypeOK'
  <2>1. \A p \in Phases : [phase[p] EXCEPT !.state = RecordTransition(@, "retired")] \in PhaseRecord
    <3> SUFFICES ASSUME NEW p \in Phases
                 PROVE  [phase[p] EXCEPT !.state = RecordTransition(@, "retired")] \in PhaseRecord
      OBVIOUS
    <3>1. RecordTransition(phase[p].state, "retired") \in PhaseState
      BY ZenonT(60), <1>1, StateType, Names
    <3>2. phase[p] \in PhaseRecord
      BY <1>1
    <3> QED
      BY <3>1, <3>2 DEF PhaseRecord
  <2>2. phase' \in [Phases -> PhaseRecord]
    BY <1>12, <2>1 DEF RetireSession
  <2>3. session' \in Session
    BY ZenonT(60), <1>1, <1>12 DEF RetireSession, Session, SessionState
  <2>4. /\ artifact' \in Seq(Artifact) /\ registry' \in [Domains -> Nat]
        /\ held' \in SUBSET Nat /\ nextId' \in Nat /\ shuttingDown' \in BOOLEAN /\ epoch' \in Nat
        /\ thread' \in [Threads -> Call]
    BY <1>12 DEF RetireSession, TypeOK
  <2>5. durable' \in BundleType
    BY ZenonT(60), <1>1, <1>12, <2>2, <2>3, <2>4, PersistType DEF RetireSession
  <2> QED
    BY <2>2, <2>3, <2>4, <2>5 DEF TypeOK
<1>13. ASSUME Reopen
       PROVE  TypeOK'
  BY ZenonT(60), <1>13 DEF Reopen, TypeOK
<1>14. ASSUME NEW d \in Domains, MoveGeneration(d)
       PROVE  TypeOK'
  <2>1. registry' \in [Domains -> Nat]
    BY <1>1, <1>14, SMT DEF MoveGeneration
  <2> QED
    BY <1>14, <2>1 DEF MoveGeneration, TypeOK
<1>15. ASSUME Restart
       PROVE  TypeOK'
  <2>1. /\ durable.session \in Session /\ durable.phase \in [Phases -> PhaseRecord]
        /\ durable.artifact \in Seq(Artifact) /\ durable.registry \in [Domains -> Nat]
    BY <1>1 DEF BundleType
  <2>2. session' \in Session
    BY <1>15, <2>1 DEF Restart, Session, SessionState
  <2>3. phase' \in [Phases -> PhaseRecord] /\ artifact' \in Seq(Artifact)
    BY <1>15, <2>1, FencedType DEF Restart
  <2>4. registry' \in [Domains -> Nat]
    BY <1>15, <2>1 DEF Restart, BoundGeneration
  <2>5. durable' \in BundleType
    BY <1>15, <2>2, <2>3, <2>4 DEF Restart, Bundle, BundleType
  <2>6. thread' \in [Threads -> Call]
    BY <1>15, IdleType DEF Restart
  <2>7. held' \in SUBSET Nat /\ nextId' \in Nat /\ shuttingDown' \in BOOLEAN /\ epoch' \in Nat
    <3>1. held' = {} /\ nextId' = 1 /\ epoch' = epoch + 1
      BY <1>15 DEF Restart
    <3>2. shuttingDown' \in BOOLEAN
      BY ZenonT(60), <1>15 DEF Restart
    <3>3. epoch \in Nat
      BY <1>1
    <3> QED
      BY <3>1, <3>2, <3>3, SMT
  <2> QED
    BY <2>2, <2>3, <2>4, <2>5, <2>6, <2>7 DEF TypeOK
<1> QED
  BY <1>2, <1>3, <1>4, <1>5, <1>6, <1>7, <1>8, <1>9, <1>10, <1>11, <1>12, <1>13, <1>14, <1>15

\* Every step keeps the types.
LEMMA TypeStep == TypeOK /\ [Next]_vars => TypeOK'
<1> SUFFICES ASSUME TypeOK, [Next]_vars
             PROVE  TypeOK'
  OBVIOUS
<1>1. ASSUME NEW t \in Threads, Step(t)
      PROVE  TypeOK'
  BY <1>1, ExecutionType, CommitType, DriverType DEF Step
<1>2. CASE UNCHANGED vars
  BY <1>2 DEF vars, TypeOK
<1> QED
  BY <1>1, <1>2, OperationType DEF Next

\* Every variable keeps its type, for any plan, callers and bounds.
THEOREM TypeCorrect == Spec => []TypeOK
<1>1. Init => TypeOK
  <2> SUFFICES ASSUME Init
               PROVE  TypeOK
    OBVIOUS
  <2>1. session \in Session
    BY DEF Init, Session, SessionState
  <2>2. phase \in [Phases -> PhaseRecord]
    BY DEF Init, PhaseRecord, PhaseState, FailureClass
  <2>3. artifact \in Seq(Artifact) /\ registry \in [Domains -> Nat]
    BY EmptySeq DEF Init, BoundGeneration
  <2>4. durable \in BundleType
    BY <2>1, <2>2, <2>3 DEF Init, Bundle, BundleType
  <2>5. thread \in [Threads -> Call]
    BY IdleType DEF Init
  <2> QED
    BY ZenonT(60), <2>1, <2>2, <2>3, <2>4, <2>5 DEF Init, TypeOK
<1> QED
  BY <1>1, TypeStep, PTL DEF Spec

-----------------------------------------------------------------------------
(* Commits are durable and follow the commit ledger: the inductive         *)
(* invariant and the theorems that rest on it.                             *)

\* What holds of the phases in memory and of the phases in the journal.
Sound(ph) ==
  \A p \in Phases :
    /\ ph[p].gen # 0
    /\ ph[p].state = "committed" => ph[p].commit
    /\ ph[p].commit => ph[p].state \in {"committed", "retired"}
    /\ ph[p].state \in InFlight => \A q \in Deps[p] : ph[q].commit

\* The phases whose commit is in the journal and not in memory: the journal
\* reported an error for a commit that it kept.
Ahead(p) == durable.phase[p].commit /\ ~phase[p].commit

\* The inductive invariant.  A commit in memory is in the journal, at the same
\* generation; the journal is at most one commit ahead, and that commit's
\* dependencies have committed.
CommitInv ==
  /\ Sound(phase)
  /\ Sound(durable.phase)
  /\ \A p \in Phases : phase[p].commit =>
       durable.phase[p].commit /\ durable.phase[p].gen = phase[p].gen
  /\ \A p, q \in Phases : Ahead(p) /\ Ahead(q) => p = q
  /\ \A p \in Phases : Ahead(p) => \A q \in Deps[p] : phase[q].commit

-----------------------------------------------------------------------------
(* Steps that move no commit.                                               *)

\* From r to s a phase keeps its generation and its commit, is not put in
\* flight, does not become committed, and stays committed or retired.
Moves(r, s) ==
  /\ s.gen = r.gen
  /\ s.commit = r.commit
  /\ s.state = "committed" => r.state = "committed"
  /\ r.state \in {"committed", "retired"} => s.state \in {"committed", "retired"}
  /\ s.state \in InFlight => r.state \in InFlight

AllMove(a, b) == \A p \in Phases : Moves(a[p], b[p])

\* Such a step keeps the phases sound.
LEMMA MovesSound ==
  ASSUME NEW a, NEW b, Sound(a), AllMove(a, b)
  PROVE  Sound(b)
  BY ZenonT(60), ConstantsAssumption DEF Sound, AllMove, Moves

\* The same commits, at the same generations.
CommitsKept(a, b) ==
  \A p \in Phases :
    /\ b[p].commit <=> a[p].commit
    /\ a[p].commit => b[p].gen = a[p].gen

\* A step that keeps the commits keeps the invariant and the ledger, whether
\* the journal took the new state, kept the old one, or was not written.
LEMMA KeptStep ==
  ASSUME CommitInv, Sound(phase'), CommitsKept(phase, phase'), durable' \in {durable, Bundle'}
  PROVE  CommitInv' /\ LedgerOf(phase') = LedgerOf(phase)
<1>1. LedgerOf(phase') = LedgerOf(phase)
  BY DEF LedgerOf, CommitsKept
<1>2. CASE durable' = durable
  <2>1. Sound(durable'.phase)
    BY <1>2 DEF CommitInv
  <2>2. \A p \in Phases : phase'[p].commit =>
          durable'.phase[p].commit /\ durable'.phase[p].gen = phase'[p].gen
    BY <1>2 DEF CommitInv, CommitsKept
  <2>3. \A p \in Phases : Ahead(p)' <=> Ahead(p)
    BY <1>2 DEF Ahead, CommitsKept
  <2>4. \A p \in Phases : Deps[p] \subseteq Phases
    BY ConstantsAssumption
  <2>5. \A p \in Phases : Ahead(p)' => \A q \in Deps[p] : phase'[q].commit
    BY <2>3, <2>4 DEF CommitInv, CommitsKept
  <2>6. \A p, q \in Phases : Ahead(p)' /\ Ahead(q)' => p = q
    BY <2>3 DEF CommitInv
  <2> QED
    BY <1>1, <2>1, <2>2, <2>5, <2>6 DEF CommitInv, Sound
<1>3. CASE durable' = Bundle'
  <2>1. durable'.phase = phase'
    BY <1>3 DEF Bundle
  <2>2. \A p \in Phases : ~Ahead(p)'
    BY <2>1 DEF Ahead
  <2>3. Sound(durable'.phase)
    BY <2>1
  <2>4. \A p \in Phases : phase'[p].commit =>
          durable'.phase[p].commit /\ durable'.phase[p].gen = phase'[p].gen
    BY <2>1
  <2> QED
    BY <1>1, <2>2, <2>3, <2>4 DEF CommitInv, Sound
<1> QED
  BY <1>2, <1>3

\* So does a step that moves no commit.
LEMMA QuietStep ==
  ASSUME CommitInv, AllMove(phase, phase'), durable' \in {durable, Bundle'}
  PROVE  CommitInv' /\ LedgerOf(phase') = LedgerOf(phase)
<1>1. Sound(phase')
  BY MovesSound DEF CommitInv
<1>2. CommitsKept(phase, phase')
  BY DEF CommitsKept, AllMove, Moves
<1> QED
  BY <1>1, <1>2, KeptStep

\* persist leaves the old or the new bundle in the journal.
LEMMA PersistChoice ==
  ASSUME NEW ok \in BOOLEAN, Persist(ok)
  PROVE  durable' \in {durable, Bundle'}
  BY DEF Persist

\* What an executing, reported or failing phase is asked to become moves no
\* commit.
LEMMA TransitionMoves ==
  ASSUME NEW from \in PhaseState,
         NEW to \in {"running", "produced", "validating", "commit_ready", "failed"}
  PROVE  LET s == RecordTransition(from, to) IN
         /\ s \in PhaseState
         /\ s = "committed" => from = "committed"
         /\ from \in {"committed", "retired"} => s \in {"committed", "retired"}
         /\ s \in InFlight => from \in InFlight
<1>1. to \in PhaseState \ {"preparing", "committed"}
  BY DEF PhaseState
<1>2. RecordTransition(from, to) \in {from, to}
  BY TransitionResult
<1>3. from \in {"committed", "retired"} => RecordTransition(from, to) = from
  BY CommittedStays
<1>4. RecordTransition(from, to) \in InFlight => from \in InFlight
  BY <1>1, OnlyReserveStarts
<1> QED
  BY <1>1, <1>2, <1>3, <1>4

\* A step that changes one phase, in ways that move no commit.
LEMMA OneMoves ==
  ASSUME phase \in [Phases -> PhaseRecord], NEW p \in Phases, NEW r,
         phase' = [phase EXCEPT ![p] = r], Moves(phase[p], r)
  PROVE  AllMove(phase, phase')
  BY DEF AllMove, Moves

\* Nothing moves when the phases are left alone.
LEMMA NoneMoves ==
  ASSUME phase' = phase
  PROVE  AllMove(phase, phase')
  BY DEF AllMove, Moves

\* The steps of an execution move no commit.
LEMMA ExecutionMoves ==
  ASSUME TypeOK, NEW p \in Phases,
         NEW to \in {"running", "produced", "validating", "commit_ready", "failed"},
         NEW f \in FailureClass
  PROVE  /\ Moves(phase[p], [phase[p] EXCEPT !.state = RecordTransition(@, to)])
         /\ Moves(phase[p], [phase[p] EXCEPT !.state = RecordTransition(@, to), !.failure = f])
<1>1. phase[p] \in PhaseRecord
  BY DEF TypeOK
<1>2. phase[p].state \in PhaseState
  BY <1>1 DEF PhaseRecord
<1> DEFINE s == RecordTransition(phase[p].state, to)
<1>3. /\ s = "committed" => phase[p].state = "committed"
      /\ phase[p].state \in {"committed", "retired"} => s \in {"committed", "retired"}
      /\ s \in InFlight => phase[p].state \in InFlight
  BY <1>2, TransitionMoves
<1> HIDE DEF s
<1>4. Moves(phase[p], [phase[p] EXCEPT !.state = s])
  BY <1>1, <1>3 DEF Moves, PhaseRecord
<1>5. Moves(phase[p], [phase[p] EXCEPT !.state = s, !.failure = f])
  BY <1>1, <1>3 DEF Moves, PhaseRecord
<1> QED
  BY <1>4, <1>5 DEF s

\* record_execution moves no commit.
LEMMA RecordExecutionMoves ==
  ASSUME TypeOK, NEW p \in Phases, NEW outcome \in Failures \cup {"ok"}, RecordExecution(p, outcome)
  PROVE  AllMove(phase, phase')
<1>1. phase \in [Phases -> PhaseRecord] /\ phase[p] \in PhaseRecord
  BY DEF TypeOK
<1>2. CASE outcome = "ok"
  <2> DEFINE s1 == RecordTransition(phase[p].state, "produced")
             s  == RecordTransition(s1, "validating")
  <2>1. phase[p].state \in PhaseState
    BY <1>1 DEF PhaseRecord
  <2>2. /\ s1 \in PhaseState
        /\ s1 = "committed" => phase[p].state = "committed"
        /\ phase[p].state \in {"committed", "retired"} => s1 \in {"committed", "retired"}
        /\ s1 \in InFlight => phase[p].state \in InFlight
    BY <2>1, TransitionMoves
  <2> HIDE DEF s1
  <2>3. /\ s = "committed" => s1 = "committed"
        /\ s1 \in {"committed", "retired"} => s \in {"committed", "retired"}
        /\ s \in InFlight => s1 \in InFlight
    BY <2>2, TransitionMoves
  <2>4. phase' = [phase EXCEPT ![p].state = s, ![p].outputs = @ \cup {Len(artifact) + 1}]
    BY <1>2 DEF RecordExecution, s1
  <2> HIDE DEF s
  <2> DEFINE r == [phase[p] EXCEPT !.state = s, !.outputs = @ \cup {Len(artifact) + 1}]
  <2>5. phase' = [phase EXCEPT ![p] = r]
    BY ZenonT(60), <1>1, <2>4
  <2>6. Moves(phase[p], r)
    BY <1>1, <2>2, <2>3 DEF Moves, PhaseRecord
  <2> HIDE DEF r
  <2> QED
    BY ZenonT(60), <1>1, <2>5, <2>6, OneMoves
<1>3. CASE outcome # "ok"
  <2> DEFINE r == [phase[p] EXCEPT !.state = RecordTransition(@, "failed"), !.failure = outcome]
  <2>1. outcome \in FailureClass
    BY <1>3, ConstantsAssumption
  <2>2. Moves(phase[p], r)
    BY ZenonT(60), <2>1, ExecutionMoves
  <2>3. phase' = [phase EXCEPT ![p] = r]
    BY ZenonT(60), <1>1, <1>3 DEF RecordExecution
  <2> HIDE DEF r
  <2> QED
    BY ZenonT(60), <1>1, <2>2, <2>3, OneMoves
<1> QED
  BY <1>2, <1>3

\* Nothing moves in a step that only moves the caller.
LEMMA CallerMoves ==
  ASSUME UNCHANGED <<phase, durable>>
  PROVE  AllMove(phase, phase') /\ durable' \in {durable, Bundle'}
  BY NoneMoves

\* Executing, recording and validating a phase moves no commit.
LEMMA RunMoves ==
  ASSUME TypeOK, NEW t \in Threads,
         Launch(t) \/ Record(t) \/ Check(t) \/ Reproduce(t) \/ Validate(t)
  PROVE  AllMove(phase, phase') /\ durable' \in {durable, Bundle'}
<1> DEFINE p == thread[t].phase
           R(to) == [phase[p] EXCEPT !.state = RecordTransition(@, to)]
           F(f)  == [phase[p] EXCEPT !.state = RecordTransition(@, "failed"), !.failure = f]
<1>1. phase \in [Phases -> PhaseRecord] /\ p \in Phases
  BY CallType DEF TypeOK
<1>2. \A to \in {"running", "produced", "commit_ready"} : Moves(phase[p], R(to))
  BY ZenonT(60), <1>1, ExecutionMoves, Names
<1>3. \A f \in FailureClass : Moves(phase[p], F(f))
  BY ZenonT(60), <1>1, ExecutionMoves
<1>4. \A to : [phase EXCEPT ![p].state = RecordTransition(@, to)] = [phase EXCEPT ![p] = R(to)]
  BY <1>1
<1>5. \A f : [phase EXCEPT ![p].state = RecordTransition(@, "failed"), ![p].failure = f]
               = [phase EXCEPT ![p] = F(f)]
  BY ZenonT(60), <1>1
<1> HIDE DEF p, R, F
<1>6. CASE Launch(t)
  <2>1. CASE /\ phase' = [phase EXCEPT ![p].state = RecordTransition(@, "running")]
             /\ \E ok \in BOOLEAN : Persist(ok)
    BY ZenonT(60), <1>1, <1>2, <1>4, <2>1, OneMoves, PersistChoice
  <2>2. CASE UNCHANGED <<phase, durable>>
    BY <2>2, CallerMoves
  <2> QED
    BY <1>6, <2>1, <2>2 DEF Launch, p
<1>7. CASE Record(t)
  <2>1. ASSUME NEW outcome \in Failures \cup {"ok"}, RecordExecution(p, outcome),
               NEW ok \in BOOLEAN, Persist(ok)
        PROVE  AllMove(phase, phase') /\ durable' \in {durable, Bundle'}
    BY <1>1, <2>1, RecordExecutionMoves, PersistChoice
  <2>2. CASE UNCHANGED <<phase, durable>>
    BY <2>2, CallerMoves
  <2>3. CASE durable' = durable /\ phase' = [phase EXCEPT ![p].state = RecordTransition(@, "produced")]
    BY ZenonT(60), <1>1, <1>2, <1>4, <2>3, OneMoves
  <2> QED
    BY <1>7, <2>1, <2>2, <2>3 DEF Record, RecordStopped, p
<1>8. CASE Check(t)
  BY <1>8, CallerMoves DEF Check
<1>9. CASE Reproduce(t)
  <2>1. CASE UNCHANGED <<phase, durable>>
    BY <2>1, CallerMoves
  <2>2. CASE /\ phase' = [phase EXCEPT ![p].state = RecordTransition(@, "failed"), ![p].failure = "refused"]
             /\ \E ok \in BOOLEAN : Persist(ok)
    BY ZenonT(60), <1>1, <1>3, <1>5, <2>2, OneMoves, PersistChoice, Names
  <2> QED
    BY <1>9, <2>1, <2>2 DEF Reproduce, p
<1>10. CASE Validate(t)
  <2>1. CASE UNCHANGED <<phase, durable>>
    BY <2>1, CallerMoves
  <2>2. CASE /\ phase' = [phase EXCEPT ![p].state = RecordTransition(@, "commit_ready")]
             /\ \E ok \in BOOLEAN : Persist(ok)
    BY ZenonT(60), <1>1, <1>2, <1>4, <2>2, OneMoves, PersistChoice
  <2>3. ASSUME NEW f \in Failures,
               phase' = [phase EXCEPT ![p].state = RecordTransition(@, "failed"), ![p].failure = f],
               \E ok \in BOOLEAN : Persist(ok)
        PROVE  AllMove(phase, phase') /\ durable' \in {durable, Bundle'}
    BY ZenonT(60), <1>1, <1>3, <1>5, <2>3, OneMoves, PersistChoice, ConstantsAssumption
  <2> QED
    BY ZenonT(60), <1>10, <2>1, <2>2, <2>3 DEF Validate, p
<1> QED
  BY <1>6, <1>7, <1>8, <1>9, <1>10

\* cancel_phase moves no commit: only a phase that retains commit authority
\* changes state, and such a phase has not committed.
LEMMA CancelMoves ==
  ASSUME TypeOK, NEW p \in Phases, CancelPhaseBody(p)
  PROVE  AllMove(phase, phase') /\ durable' \in {durable, Bundle'}
<1>1. phase \in [Phases -> PhaseRecord] /\ phase[p] \in PhaseRecord
  BY DEF TypeOK
<1> DEFINE s == RecordTransition(phase[p].state, "cancelled")
           r == IF phase[p].state \in RetainsCommitAuthority
                THEN [phase[p] EXCEPT !.state = s, !.failure = "retryable", !.inv = 0]
                ELSE [phase[p] EXCEPT !.inv = 0]
<1>2. s \in {phase[p].state, "cancelled"}
  BY <1>1, TransitionResult
<1>3. phase' = [phase EXCEPT ![p] = r]
  BY DEF CancelPhaseBody
<1> HIDE DEF s
<1>4. Moves(phase[p], r)
  BY <1>1, <1>2 DEF Moves, PhaseRecord, RetainsCommitAuthority, InFlight
<1> HIDE DEF r
<1>5. AllMove(phase, phase')
  BY ZenonT(60), <1>1, <1>3, <1>4, OneMoves
<1>6. durable' \in {durable, Bundle'}
  BY PersistChoice DEF CancelPhaseBody
<1> QED
  BY <1>5, <1>6

\* fence_all_in_flight moves no commit: what is in flight has not committed.
LEMMA FencedMoves ==
  ASSUME NEW ph \in [Phases -> PhaseRecord]
  PROVE  AllMove(ph, Fenced(ph))
  BY DEF AllMove, Moves, Fenced, PhaseRecord, InFlight

\* apply_recovery leaves committed and retired phases alone.
LEMMA RecoveredMoves ==
  ASSUME TypeOK
  PROVE  AllMove(phase, [p \in Phases |-> Recovered(phase[p])])
<1> SUFFICES ASSUME NEW p \in Phases
             PROVE  Moves(phase[p], Recovered(phase[p]))
  BY DEF AllMove
<1>1. phase[p] \in PhaseRecord
  BY DEF TypeOK
<1> DEFINE s == RecordTransition(phase[p].state, "ready")
<1>2. s \in {phase[p].state, "ready"}
  BY <1>1, TransitionResult
<1>3. Recovered(phase[p]) =
        IF phase[p].state \in {"committed", "failed", "cancelled", "retired"} THEN phase[p]
        ELSE [phase[p] EXCEPT !.state = IF phase[p].state \in RetainsCommitAuthority THEN s
                                        ELSE IF phase[p].state = "fenced" THEN "retired"
                                        ELSE phase[p].state,
                              !.failure = "none"]
  BY DEF Recovered
<1> HIDE DEF s
<1> QED
  BY <1>1, <1>2, <1>3, SMT DEF Moves, PhaseRecord, InFlight

\* retire_session retires a committed phase with its commit.
LEMMA RetiredMoves ==
  ASSUME TypeOK
  PROVE  AllMove(phase, [p \in Phases |-> [phase[p] EXCEPT !.state = RecordTransition(@, "retired")]])
<1> SUFFICES ASSUME NEW p \in Phases
             PROVE  Moves(phase[p], [phase[p] EXCEPT !.state = RecordTransition(@, "retired")])
  BY DEF AllMove
<1>1. phase[p] \in PhaseRecord
  BY DEF TypeOK
<1> DEFINE s == RecordTransition(phase[p].state, "retired")
<1>2. s \in {phase[p].state, "retired"}
  BY <1>1, TransitionResult
<1> HIDE DEF s
<1>3. Moves(phase[p], [phase[p] EXCEPT !.state = s])
  BY <1>1, <1>2 DEF Moves, PhaseRecord, InFlight
<1> QED
  BY <1>3 DEF s

\* The outcomes of commit_reserved that do not commit move no commit, unless
\* the journal may have taken what the runtime gave up.
LEMMA NoCommitMoves ==
  ASSUME TypeOK, NEW t \in Threads,
         CommitRefused(t) \/ CommitUnprobed(t) \/ CommitFenced(t) \/ CommitUngranted(t)
  PROVE  AllMove(phase, phase') /\ durable' \in {durable, Bundle'}
<1> DEFINE p == thread[t].phase
           s == RecordTransition(phase[p].state, "fenced")
<1>1. phase \in [Phases -> PhaseRecord] /\ p \in Phases
  BY CallType DEF TypeOK
<1>2. phase[p] \in PhaseRecord /\ s \in {phase[p].state, "fenced"}
  BY <1>1, TransitionResult
<1>3. CASE CommitRefused(t) \/ CommitUngranted(t)
  BY <1>3, CallerMoves DEF CommitRefused, CommitUngranted
<1>4. CASE CommitUnprobed(t) \/ CommitFenced(t)
  <2>1. phase[p].state = "commit_ready"
    BY ZenonT(60), <1>4 DEF CommitUnprobed, CommitFenced, Committable
  <2>2. PICK f : phase' = [phase EXCEPT ![p].state = s, ![p].failure = f]
    BY ZenonT(60), <1>4 DEF CommitUnprobed, CommitFenced
  <2> HIDE DEF p, s
  <2> DEFINE r == [phase[p] EXCEPT !.state = s, !.failure = f]
  <2>3. phase' = [phase EXCEPT ![p] = r]
    BY ZenonT(60), <1>1, <2>2
  <2>4. Moves(phase[p], r)
    BY <1>2, <2>1 DEF Moves, PhaseRecord, InFlight
  <2> HIDE DEF r
  <2>5. AllMove(phase, phase')
    BY ZenonT(60), <1>1, <2>3, <2>4, OneMoves
  <2>6. durable' \in {durable, Bundle'}
    BY <1>4, PersistChoice DEF CommitUnprobed, CommitFenced
  <2> QED
    BY <2>5, <2>6
<1> QED
  BY <1>3, <1>4

\* The driver, cancellation, shutdown and recovery steps of a call move no
\* commit.
LEMMA DriverMoves ==
  ASSUME TypeOK, NEW t \in Threads,
         \/ ReserveRefused(t) \/ Drive(t) \/ Report(t) \/ Halt(t) \/ CancelNext(t) \/ CancelDone(t)
         \/ ShutdownSave(t) \/ ApplyRecovery(t)
  PROVE  AllMove(phase, phase') /\ durable' \in {durable, Bundle'}
<1>1. CASE ReserveRefused(t) \/ Report(t)
  BY <1>1, CallerMoves DEF ReserveRefused, Report
<1>2. CASE Drive(t)
  <2>1. phase' = phase
    BY ZenonT(60), <1>2 DEF Drive
  <2>2. durable' \in {durable, Bundle'}
    BY ZenonT(60), <1>2, PersistChoice DEF Drive
  <2> QED
    BY <2>1, <2>2, NoneMoves
<1>3. CASE Halt(t)
  <2>1. phase' = phase
    BY <1>3 DEF Halt
  <2>2. durable' \in {durable, Bundle'}
    BY <1>3, PersistChoice DEF Halt
  <2> QED
    BY <2>1, <2>2, NoneMoves
<1>4. CASE CancelNext(t)
  <2>1. Order[thread[t].step] \in Phases
    BY <1>4, ConstantsAssumption, ElementOfSeq, LenProperties, SMTT(30) DEF CancelNext
  <2> QED
    BY <1>4, <2>1, CancelMoves, CallerMoves DEF CancelNext
<1>5. CASE CancelDone(t)
  BY <1>5, NoneMoves, PersistChoice DEF CancelDone
<1>6. CASE ShutdownSave(t)
  <2>1. phase' = phase
    BY <1>6 DEF ShutdownSave
  <2>2. durable' \in {durable, Bundle'}
    BY <1>6, PersistChoice DEF ShutdownSave
  <2> QED
    BY <2>1, <2>2, NoneMoves
<1>7. CASE ApplyRecovery(t)
  <2>1. phase' \in {phase, [p \in Phases |-> Recovered(phase[p])]}
    BY <1>7 DEF ApplyRecovery
  <2>2. durable' \in {durable, Bundle'}
    BY <1>7, PersistChoice DEF ApplyRecovery
  <2> QED
    BY <2>1, <2>2, NoneMoves, RecoveredMoves
<1> QED
  BY <1>1, <1>2, <1>3, <1>4, <1>5, <1>6, <1>7

\* Neither do the calls and operations other than a reservation and a restart.
LEMMA OperationMoves ==
  ASSUME TypeOK,
         \/ \E t \in Threads :
              \/ \E p \in Phases : RetryPhase(t, p) \/ CommitPhase(t, p)
              \/ RunSession(t) \/ CancelSession(t) \/ Shutdown(t) \/ PlanRecovery(t)
         \/ \E p \in Phases : ReportOutput(p) \/ CancelPhase(p) \/ \E f \in Failures : FailPhase(p, f)
         \/ RetireSession \/ Reopen
         \/ \E d \in Domains : MoveGeneration(d)
  PROVE  AllMove(phase, phase') /\ durable' \in {durable, Bundle'}
<1>1. phase \in [Phases -> PhaseRecord]
  BY DEF TypeOK
<1>2. ASSUME NEW t \in Threads,
             \/ \E p \in Phases : RetryPhase(t, p) \/ CommitPhase(t, p)
             \/ RunSession(t) \/ CancelSession(t) \/ PlanRecovery(t)
      PROVE  AllMove(phase, phase') /\ durable' \in {durable, Bundle'}
  <2>1. UNCHANGED <<phase, durable>>
    BY ZenonT(60), <1>2 DEF RetryPhase, CommitPhase, RunSession, CancelSession, PlanRecovery
  <2> QED
    BY <2>1, CallerMoves
<1>3. CASE Reopen \/ \E d \in Domains : MoveGeneration(d)
  BY <1>3, CallerMoves DEF Reopen, MoveGeneration
<1>4. ASSUME NEW t \in Threads, Shutdown(t)
      PROVE  AllMove(phase, phase') /\ durable' \in {durable, Bundle'}
  <2>1. phase' \in {phase, Fenced(phase)} /\ durable' = durable
    BY <1>4 DEF Shutdown
  <2> QED
    BY <1>1, <2>1, NoneMoves, FencedMoves
<1>5. ASSUME NEW p \in Phases, ReportOutput(p)
      PROVE  AllMove(phase, phase') /\ durable' \in {durable, Bundle'}
  <2>1. CASE UNCHANGED <<phase, durable>>
    BY <2>1, CallerMoves
  <2>2. CASE durable' = durable /\ phase' = [phase EXCEPT ![p].state = RecordTransition(@, "produced")]
    <3> DEFINE r == [phase[p] EXCEPT !.state = RecordTransition(@, "produced")]
    <3>1. Moves(phase[p], r)
      BY ZenonT(60), <1>1, <1>5, ExecutionMoves, Names
    <3>2. phase' = [phase EXCEPT ![p] = r]
      BY <1>1, <1>5, <2>2
    <3> HIDE DEF r
    <3> QED
      BY ZenonT(60), <1>1, <1>5, <2>2, <3>1, <3>2, OneMoves
  <2>3. CASE /\ \E outcome \in Failures \cup {"ok"} : RecordExecution(p, outcome)
             /\ \E ok \in BOOLEAN : Persist(ok)
    BY <1>5, <2>3, RecordExecutionMoves, PersistChoice
  <2> QED
    BY <1>5, <2>1, <2>2, <2>3 DEF ReportOutput, RecordStopped
<1>6. ASSUME NEW p \in Phases, CancelPhase(p)
      PROVE  AllMove(phase, phase') /\ durable' \in {durable, Bundle'}
  BY <1>6, CancelMoves DEF CancelPhase
<1>7. ASSUME NEW p \in Phases, NEW f \in Failures, FailPhase(p, f)
      PROVE  AllMove(phase, phase') /\ durable' \in {durable, Bundle'}
  <2> DEFINE s == IF phase[p].state \in RetainsCommitAuthority
                  THEN RecordTransition(phase[p].state, "failed") ELSE phase[p].state
             r == [phase[p] EXCEPT !.state = s, !.failure = f]
  <2>1. phase[p] \in PhaseRecord /\ phase[p].state \in PhaseState
    BY <1>1 DEF PhaseRecord
  <2>2. /\ s = "committed" => phase[p].state = "committed"
        /\ phase[p].state \in {"committed", "retired"} => s \in {"committed", "retired"}
        /\ s \in InFlight => phase[p].state \in InFlight
    BY <2>1, TransitionMoves
  <2>3. phase' = [phase EXCEPT ![p] = r]
    BY ZenonT(60), <1>1, <1>7 DEF FailPhase
  <2> HIDE DEF s
  <2>4. Moves(phase[p], r)
    BY <2>1, <2>2 DEF Moves, PhaseRecord
  <2> HIDE DEF r
  <2>5. AllMove(phase, phase')
    BY ZenonT(60), <1>1, <2>3, <2>4, OneMoves
  <2> QED
    BY <1>7, <2>5, PersistChoice DEF FailPhase
<1>8. CASE RetireSession
  BY <1>8, RetiredMoves, PersistChoice DEF RetireSession
<1> QED
  BY <1>2, <1>3, <1>4, <1>5, <1>6, <1>7, <1>8

\* A reservation starts a phase that has not committed, after its dependencies
\* have.
LEMMA ReserveKeeps ==
  ASSUME TypeOK, CommitInv, NEW t \in Threads, NEW p \in Phases,
         NEW isRetry \in BOOLEAN, NEW driver \in BOOLEAN, Reserve(t, p, isRetry, driver)
  PROVE  CommitInv' /\ LedgerOf(phase') = LedgerOf(phase)
<1>1. phase \in [Phases -> PhaseRecord] /\ phase[p].gen \in Nat
  BY DEF TypeOK, PhaseRecord
<1>2. phase[p].state \notin {"committed", "retired"}
  BY DEF Reserve, CanReserve
<1>3. ~phase[p].commit
  BY <1>2 DEF CommitInv, Sound
<1>4. \A q \in Deps[p] : q \in Phases /\ q # p /\ phase[q].commit
  BY <1>2, ConstantsAssumption DEF Reserve, CanReserve, Ready, CommitInv, Sound
<1>5. /\ \A q \in Phases : q # p => phase'[q] = phase[q]
      /\ phase'[p].state = "preparing" /\ phase'[p].gen = phase[p].gen + 1
      /\ phase'[p].commit = FALSE
  BY <1>1 DEF Reserve
<1>6. CommitsKept(phase, phase')
  BY <1>3, <1>5 DEF CommitsKept
<1>7. Sound(phase')
  <2> SUFFICES ASSUME NEW q \in Phases
               PROVE  /\ phase'[q].gen # 0
                      /\ phase'[q].state = "committed" => phase'[q].commit
                      /\ phase'[q].commit => phase'[q].state \in {"committed", "retired"}
                      /\ phase'[q].state \in InFlight => \A d \in Deps[q] : phase'[d].commit
    BY DEF Sound
  <2>1. CASE q = p
    BY <1>1, <1>4, <1>5, <2>1, SMTT(30)
  <2>2. CASE q # p
    <3>1. phase'[q] = phase[q]
      BY <1>5, <2>2
    <3>2. phase[q].state \in InFlight => \A d \in Deps[q] : phase[d].commit
      BY DEF CommitInv, Sound
    <3>3. \A d \in Deps[q] : d \in Phases
      BY ConstantsAssumption
    <3>4. phase'[q].state \in InFlight => \A d \in Deps[q] : phase'[d].commit
      BY <1>3, <1>5, <3>1, <3>2, <3>3
    <3> QED
      BY <3>1, <3>4 DEF CommitInv, Sound
  <2> QED
    BY <2>1, <2>2
<1>8. durable' \in {durable, Bundle'}
  BY PersistChoice DEF Reserve
<1> QED
  BY <1>6, <1>7, <1>8, KeptStep

\* The committed projection of a phase that is ready to commit.
LEMMA Projection ==
  ASSUME TypeOK, CommitInv, NEW p \in Phases, phase[p].state = "commit_ready"
  PROVE  /\ Sound(CommittedPhases(p))
         /\ \A q \in Phases : q # p => CommittedPhases(p)[q] = phase[q]
         /\ CommittedPhases(p)[p].commit
         /\ CommittedPhases(p)[p].gen = phase[p].gen
         /\ ~phase[p].commit
         /\ \A q \in Deps[p] : q \in Phases /\ phase[q].commit
<1>1. phase \in [Phases -> PhaseRecord]
  BY DEF TypeOK
<1>2. RecordTransition(phase[p].state, "committed") = "committed"
  BY DEF RecordTransition, IsLegal
<1>3. /\ \A q \in Phases : q # p => CommittedPhases(p)[q] = phase[q]
      /\ CommittedPhases(p)[p].commit
      /\ CommittedPhases(p)[p].state = "committed"
      /\ CommittedPhases(p)[p].gen = phase[p].gen
  BY <1>1, <1>2 DEF CommittedPhases, PhaseRecord
<1>4. ~phase[p].commit /\ phase[p].state \in InFlight
  BY DEF CommitInv, Sound, InFlight
<1>5. \A q \in Phases : \A d \in Deps[q] : d \in Phases
  BY ConstantsAssumption
<1>6. \A q \in Deps[p] : q \in Phases /\ phase[q].commit
  BY <1>4, <1>5 DEF CommitInv, Sound
<1>7. Sound(CommittedPhases(p))
  <2> SUFFICES ASSUME NEW q \in Phases
               PROVE  LET ph == CommittedPhases(p) IN
                      /\ ph[q].gen # 0
                      /\ ph[q].state = "committed" => ph[q].commit
                      /\ ph[q].commit => ph[q].state \in {"committed", "retired"}
                      /\ ph[q].state \in InFlight => \A d \in Deps[q] : ph[d].commit
    BY DEF Sound
  <2>1. \A d \in Phases : phase[d].commit => CommittedPhases(p)[d].commit
    BY <1>3
  <2>2. CASE q = p
    BY <1>3, <2>2 DEF CommitInv, Sound, InFlight
  <2>3. CASE q # p
    BY <1>3, <1>5, <2>1, <2>3, SMTT(30) DEF CommitInv, Sound
  <2> QED
    BY <2>2, <2>3
<1> QED
  BY <1>3, <1>4, <1>6, <1>7

\* When one more phase is committed, after its dependencies, the ledger takes
\* one step.
LEMMA LedgerStep ==
  ASSUME NEW p \in Phases, ~phase[p].commit, phase'[p].commit, phase'[p].gen \in Nat \ {0},
         \A q \in Phases : q # p => (phase'[q].commit <=> phase[q].commit),
         \A q \in Phases : phase[q].commit => phase'[q].gen = phase[q].gen,
         \A q \in Deps[p] : q \in Phases /\ phase[q].commit, Sound(phase)
  PROVE  Ledger!Next
<1> DEFINE a == LedgerOf(phase)
           b == LedgerOf(phase')
<1>1. a[p] = 0 /\ b[p] = phase'[p].gen
  BY DEF LedgerOf
<1>2. \A q \in Deps[p] : a[q] # 0
  BY DEF LedgerOf, Sound
<1>3. \A q \in Phases : q # p => b[q] = a[q]
  BY DEF LedgerOf
<1>4. a = [q \in Phases |-> a[q]] /\ b = [q \in Phases |-> b[q]]
  BY DEF LedgerOf
<1> HIDE DEF a, b
<1>5. b = [a EXCEPT ![p] = b[p]]
  BY <1>3, <1>4
<1>6. Ledger!CommitPhase(p)
  BY <1>1, <1>2, <1>5 DEF Ledger!CommitPhase, a, b
<1> QED
  BY <1>6 DEF Ledger!Next

\* The outcomes of commit_reserved in which the commit reaches the journal.
LEMMA CommitKeeps ==
  ASSUME TypeOK, TypeOK', CommitInv, NEW t \in Threads, CommitPublished(t) \/ CommitUnpersisted(t)
  PROVE  CommitInv' /\ (Ledger!Next \/ LedgerOf(phase') = LedgerOf(phase))
<1> DEFINE p == thread[t].phase
           ph == CommittedPhases(p)
<1>1. p \in Phases /\ phase[p].state = "commit_ready"
  <2>1. CommitGranted(t) /\ p \in Phases
    BY CallType, Zenon DEF CommitPublished, CommitUnpersisted
  <2> QED
    BY <2>1, Zenon DEF CommitGranted, Committable
<1>2. /\ Sound(ph)
      /\ \A q \in Phases : q # p => ph[q] = phase[q]
      /\ ph[p].commit /\ ph[p].gen = phase[p].gen /\ ~phase[p].commit
      /\ \A q \in Deps[p] : q \in Phases /\ phase[q].commit
  BY <1>1, Projection
<1>3. Sound(phase) /\ phase[p].gen # 0
  BY <1>1 DEF CommitInv, Sound
<1>4. CASE CommitPublished(t)
  <2>1. phase' = ph /\ durable'.phase = ph
    BY <1>4 DEF CommitPublished, Bundle
  <2> HIDE DEF ph
  <2>2. phase'[p].gen \in Nat \ {0}
    BY <1>1, <1>2, <1>3, <2>1 DEF TypeOK, PhaseRecord
  <2>3. Ledger!Next
    BY <1>1, <1>2, <1>3, <2>1, <2>2, LedgerStep
  <2>4. Sound(phase') /\ Sound(durable'.phase)
    BY <1>2, <2>1
  <2>5. \A q \in Phases : ~Ahead(q)'
    BY <2>1 DEF Ahead
  <2>6. CommitInv'
    BY <2>1, <2>4, <2>5 DEF CommitInv, Sound
  <2> QED
    BY <2>3, <2>6
<1>5. CASE CommitUnpersisted(t)
  <2> DEFINE saved == [session  |-> CommittedSession(p), phase    |-> ph,
                       artifact |-> artifact',          registry |-> registry']
  <2>a. saved.phase = ph
    OBVIOUS
  <2>b. phase' = phase
    BY Zenon, <1>5 DEF CommitUnpersisted
  <2>c. durable' \in {durable, saved}
    BY Zenon, <1>5 DEF CommitUnpersisted
  <2> HIDE DEF saved, ph
  <2>1. phase' = phase /\ (durable' = durable \/ durable'.phase = ph)
    BY <2>a, <2>b, <2>c
  <2>2. CASE durable' = durable
    BY <2>1, <2>2, NoneMoves, QuietStep
  <2>3. CASE durable'.phase = ph
    <3>1. \A q \in Phases : Ahead(q)' => q = p
      BY <1>2, <2>1, <2>3 DEF Ahead
    <3>2. \A q \in Phases : phase'[q].commit =>
            durable'.phase[q].commit /\ durable'.phase[q].gen = phase'[q].gen
      BY <1>2, <2>1, <2>3
    <3>3. \A q \in Phases : Ahead(q)' => \A d \in Deps[q] : phase'[d].commit
      BY <1>2, <2>1, <3>1
    <3>4. Sound(phase') /\ Sound(durable'.phase)
      BY <1>2, <1>3, <2>1, <2>3
    <3>5. \A q, r \in Phases : Ahead(q)' /\ Ahead(r)' => q = r
      BY <3>1
    <3> QED
      BY <2>1, <3>2, <3>3, <3>4, <3>5 DEF CommitInv, Sound
  <2> QED
    BY <2>1, <2>2, <2>3
<1> QED
  BY <1>4, <1>5

\* A restart takes the journal's state, which is at most one commit ahead.
LEMMA RestartKeeps ==
  ASSUME TypeOK, TypeOK', CommitInv, Restart
  PROVE  CommitInv' /\ (Ledger!Next \/ LedgerOf(phase') = LedgerOf(phase))
<1>1. durable.phase \in [Phases -> PhaseRecord]
  BY DEF TypeOK, BundleType
<1>2. phase' = Fenced(durable.phase) /\ durable'.phase = phase'
  BY DEF Restart, Bundle
<1>3. AllMove(durable.phase, phase')
  BY <1>1, <1>2, FencedMoves
<1>4. Sound(phase') /\ Sound(durable'.phase)
  BY <1>2, <1>3, MovesSound DEF CommitInv
<1>5. \A q \in Phases : ~Ahead(q)'
  BY <1>2 DEF Ahead
<1>6. CommitInv'
  BY <1>2, <1>4, <1>5 DEF CommitInv, Sound
<1>7. \A q \in Phases : phase'[q].commit = durable.phase[q].commit
                          /\ phase'[q].gen = durable.phase[q].gen
  BY <1>3 DEF AllMove, Moves
<1>8. \A q \in Phases : phase[q].commit => phase'[q].commit /\ phase'[q].gen = phase[q].gen
  BY <1>7 DEF CommitInv
<1>9. CASE \E p \in Phases : Ahead(p)
  <2>1. PICK p \in Phases : Ahead(p)
    BY <1>9
  <2>2. \A q \in Phases : Ahead(q) => q = p
    BY <2>1 DEF CommitInv
  <2>3. ~phase[p].commit /\ phase'[p].commit
    BY <1>7, <2>1 DEF Ahead
  <2>4. \A q \in Phases : q # p => (phase'[q].commit <=> phase[q].commit)
    BY <1>7, <1>8, <2>2 DEF Ahead
  <2>5. \A q \in Deps[p] : q \in Phases /\ phase[q].commit
    BY <2>1, ConstantsAssumption DEF CommitInv
  <2>6. phase'[p].gen \in Nat \ {0}
    BY <1>4 DEF TypeOK, PhaseRecord, Sound
  <2>7. Sound(phase)
    BY DEF CommitInv
  <2>8. Ledger!Next
    BY <1>8, <2>3, <2>4, <2>5, <2>6, <2>7, LedgerStep
  <2> QED
    BY <1>6, <2>8
<1>10. CASE \A p \in Phases : ~Ahead(p)
  <2>1. \A q \in Phases : phase'[q].commit <=> phase[q].commit
    BY <1>7, <1>8, <1>10 DEF Ahead
  <2>2. LedgerOf(phase') = LedgerOf(phase)
    BY <1>8, <2>1 DEF LedgerOf
  <2> QED
    BY <1>6, <2>2
<1> QED
  BY <1>9, <1>10

\* Every step keeps the invariant, and is a step of the ledger or leaves it.
LEMMA CommitStep ==
  ASSUME TypeOK, CommitInv, [Next]_vars
  PROVE  CommitInv' /\ (Ledger!Next \/ LedgerOf(phase') = LedgerOf(phase))
<1>1. TypeOK'
  BY TypeStep
<1>2. ASSUME NEW t \in Threads, Step(t)
      PROVE  CommitInv' /\ (Ledger!Next \/ LedgerOf(phase') = LedgerOf(phase))
  <2>1. CASE ReserveDecided(t)
    BY <2>1, ReserveKeeps, CallType DEF ReserveDecided
  <2>2. CASE CommitPublished(t) \/ CommitUnpersisted(t)
    BY <1>1, <2>2, CommitKeeps
  <2>3. CASE Launch(t) \/ Record(t) \/ Check(t) \/ Reproduce(t) \/ Validate(t)
    BY <2>3, RunMoves, QuietStep
  <2>4. CASE CommitRefused(t) \/ CommitUnprobed(t) \/ CommitFenced(t) \/ CommitUngranted(t)
    BY <2>4, NoCommitMoves, QuietStep
  <2>5. CASE \/ ReserveRefused(t) \/ Drive(t) \/ Report(t) \/ Halt(t) \/ CancelNext(t)
             \/ CancelDone(t) \/ ShutdownSave(t) \/ ApplyRecovery(t)
    BY <2>5, DriverMoves, QuietStep
  <2> QED
    BY <1>2, <2>1, <2>2, <2>3, <2>4, <2>5 DEF Step
<1>3. ASSUME NEW t \in Threads, NEW p \in Phases, RunPhase(t, p)
      PROVE  CommitInv' /\ (Ledger!Next \/ LedgerOf(phase') = LedgerOf(phase))
  BY ZenonT(60), <1>3, ReserveKeeps DEF RunPhase
<1>4. CASE Restart
  BY <1>1, <1>4, RestartKeeps
<1>5. CASE \/ \E t \in Threads :
                \/ \E p \in Phases : RetryPhase(t, p) \/ CommitPhase(t, p)
                \/ RunSession(t) \/ CancelSession(t) \/ Shutdown(t) \/ PlanRecovery(t)
           \/ \E p \in Phases : ReportOutput(p) \/ CancelPhase(p) \/ \E f \in Failures : FailPhase(p, f)
           \/ RetireSession \/ Reopen
           \/ \E d \in Domains : MoveGeneration(d)
  BY <1>5, OperationMoves, QuietStep
<1>6. CASE UNCHANGED vars
  <2>1. UNCHANGED <<phase, durable>>
    BY <1>6 DEF vars
  <2> QED
    BY <2>1, CallerMoves, QuietStep
<1> QED
  BY <1>2, <1>3, <1>4, <1>5, <1>6 DEF Next

\* At the start nothing is committed, in memory or in the journal.
LEMMA CommitStart ==
  ASSUME Init
  PROVE  CommitInv /\ LedgerOf(phase) = [p \in Phases |-> 0]
<1>1. /\ durable.phase = phase
      /\ \A p \in Phases : phase[p].gen = 1 /\ phase[p].state = "pending" /\ phase[p].commit = FALSE
  BY DEF Init, Bundle
<1>2. Sound(phase) /\ Sound(durable.phase)
  BY <1>1, SMT DEF Sound, InFlight
<1> QED
  BY <1>1, <1>2 DEF CommitInv, Ahead, LedgerOf

\* The inductive invariant of the commit.
THEOREM CommitInvariant == Spec => []CommitInv
<1>1. Init => CommitInv
  BY CommitStart
<1>2. TypeOK /\ CommitInv /\ [Next]_vars => CommitInv'
  BY CommitStep
<1> QED
  BY <1>1, <1>2, TypeCorrect, PTL DEF Spec

\* Every commit that a caller can observe is in the journal, at the same
\* generation, at every moment and for any plan, callers, bounds and faults:
\* commit_reserved saves the projection before it publishes it, and nothing
\* that is saved later undoes it.
THEOREM CommitsAreDurable == Spec => []CommitIsDurable
<1>1. CommitInv => CommitIsDurable
  BY DEF CommitInv, Sound, CommitIsDurable
<1> QED
  BY <1>1, CommitInvariant, PTL

\* The runtime implements the commit ledger for any plan, callers, bounds and
\* faults: a phase commits at most once, after its dependencies, and neither a
\* crash nor a restart, retry, cancellation or recovery takes a commit back.
THEOREM RuntimeImplementsLedger == Spec => ImplementsLedger
<1>1. Init => Ledger!Init
  BY CommitStart DEF Ledger!Init
<1>2. TypeOK /\ CommitInv /\ [Next]_vars => [Ledger!Next]_(LedgerOf(phase))
  BY CommitStep
<1> QED
  BY <1>1, <1>2, TypeCorrect, CommitInvariant, PTL DEF Spec, ImplementsLedger, Ledger!Spec

-----------------------------------------------------------------------------
(* The kinds of steps the runtime takes.  Seen from its phases, artifacts   *)
(* and leases every step of Runtime is quiet, produces an output, reserves  *)
(* a phase, grants authority, publishes a commit, retires the session or    *)
(* restarts the process.  The invariants of AuthorityProofs and             *)
(* OwnershipProofs are shown kind by kind.                                  *)

-----------------------------------------------------------------------------
(* The invariant, clause by clause, of a session s with phases ph and       *)
(* registry arts.  It holds of what is in memory and of what is in the      *)
(* journal.                                                                 *)

\* The outputs of a phase are in the registry and were produced by its current
\* generation.
OwnOutputs(ph, arts) ==
  \A p \in Phases : \A a \in ph[p].outputs :
    a \in DOMAIN arts /\ arts[a].phase = p /\ arts[a].gen = ph[p].gen

\* What InputsFromCommitted says, and the inputs are in the registry.
GoodInputs(ph, arts) ==
  \A p \in Phases : ph[p].state \in InFlight \cup {"committed"} =>
    \A a \in ph[p].inputs :
      /\ a \in DOMAIN arts
      /\ arts[a].phase \in Deps[p]
      /\ arts[a].gen = ph[arts[a].phase].gen
      /\ ph[arts[a].phase].commit

\* What FencedLosesAuthority says.
FenceHolds(ph, arts) ==
  \A a \in DOMAIN arts :
    /\ ph[arts[a].phase].state = "fenced"
    /\ ph[arts[a].phase].gen = arts[a].gen
    => arts[a].authority # "authoritative"

\* Revoking an output of a phase ends the attempt that produced it.
NotRevoked(ph, arts) ==
  \A p \in Phases : ph[p].state \in InFlight =>
    \A a \in ph[p].outputs : arts[a].authority # "revoked"

\* What SessionCommitSound says.
SessionSound(s, ph) == s.state = "committed" => AllMandatoryCommitted(ph) /\ s.candidate

Coherent(ph, arts) ==
  /\ OwnOutputs(ph, arts)
  /\ GoodInputs(ph, arts)
  /\ FenceHolds(ph, arts)
  /\ NotRevoked(ph, arts)

\* What a recovery plan hashes again was produced by phases that have committed.
SuspectsCommitted ==
  \A t \in Threads : thread[t].pc = "recover" =>
    \A a \in thread[t].suspects : a \in DOMAIN artifact /\ phase[artifact[a].phase].commit

AuthorityInv ==
  /\ Coherent(phase, artifact) /\ SessionSound(session, phase)
  /\ Coherent(durable.phase, durable.artifact) /\ SessionSound(durable.session, durable.phase)
  /\ SuspectsCommitted

-----------------------------------------------------------------------------
(* What the registry operations do to each artifact.                        *)

\* Every position of a registry holds an artifact.
LEMMA ArtifactAt ==
  ASSUME NEW arts \in Seq(Artifact)
  PROVE  \A i \in DOMAIN arts : arts[i] \in Artifact
  BY SMTT(30), ElementOfSeq, LenProperties

\* register_artifact adds one artifact without authority and keeps the others.
LEMMA RegisterFacts ==
  ASSUME NEW arts \in Seq(Artifact), NEW p \in Phases, NEW g \in Nat
  PROVE  LET b == Register(arts, p, g)
             n == Len(arts) + 1 IN
         /\ n \notin DOMAIN arts
         /\ DOMAIN b = DOMAIN arts \cup {n}
         /\ \A i \in DOMAIN arts : b[i] = arts[i]
         /\ b[n].phase = p /\ b[n].gen = g /\ b[n].authority = "none" /\ ~b[n].vouched
  BY AppendProperties, LenProperties, SMT DEF Register

\* set_state keeps the producer; a state that is not valid takes authority away.
LEMMA SetStatesFacts ==
  ASSUME NEW arts \in Seq(Artifact), NEW ids, NEW s, NEW p, NEW g
  PROVE  LET b == SetStates(arts, ids, s, p, g) IN
         /\ DOMAIN b = DOMAIN arts
         /\ \A i \in DOMAIN arts :
              /\ b[i].phase = arts[i].phase /\ b[i].gen = arts[i].gen
              /\ i \notin ids => b[i] = arts[i]
              /\ i \in ids =>
                   /\ b[i].state = s
                   /\ b[i].authority = IF s # "valid" /\ arts[i].authority = "authoritative"
                                       THEN "revoked" ELSE arts[i].authority
                   /\ b[i].vouched = (s = "valid" /\ (arts[i].vouched
                                                      \/ (arts[i].phase = p /\ arts[i].gen = g)))
<1> DEFINE b == SetStates(arts, ids, s, p, g)
<1>1. \A i \in DOMAIN arts : arts[i] \in Artifact
  BY ArtifactAt
<1>2. DOMAIN b = DOMAIN arts
  BY DEF SetStates
<1>3. ASSUME NEW i \in DOMAIN arts, i \in ids
      PROVE  /\ b[i].phase = arts[i].phase /\ b[i].gen = arts[i].gen
             /\ b[i].state = s
             /\ b[i].authority = IF s # "valid" /\ arts[i].authority = "authoritative"
                                 THEN "revoked" ELSE arts[i].authority
             /\ b[i].vouched = (s = "valid" /\ (arts[i].vouched
                                                \/ (arts[i].phase = p /\ arts[i].gen = g)))
  <2>1. b[i] = [arts[i] EXCEPT
                 !.state     = s,
                 !.authority = IF s # "valid" /\ @ = "authoritative" THEN "revoked" ELSE @,
                 !.vouched   = s = "valid" /\ (@ \/ (arts[i].phase = p /\ arts[i].gen = g))]
    BY <1>3 DEF SetStates
  <2>2. arts[i] \in Artifact
    BY <1>1, <1>3
  <2> HIDE DEF b
  <2> QED
    BY <2>1, <2>2 DEF Artifact
<1>4. ASSUME NEW i \in DOMAIN arts, ~(i \in ids)
      PROVE  b[i] = arts[i]
  BY <1>4 DEF SetStates
<1> HIDE DEF b
<1> QED
  BY SMTT(30), <1>2, <1>3, <1>4 DEF b

\* Granting changes nothing but the authority of what is granted.
LEMMA GrantFacts ==
  ASSUME NEW arts \in Seq(Artifact), NEW ids
  PROVE  LET b == GrantAuthority(arts, ids) IN
         /\ DOMAIN b = DOMAIN arts
         /\ \A i \in DOMAIN arts :
              /\ b[i].phase = arts[i].phase /\ b[i].gen = arts[i].gen
              /\ b[i].state = arts[i].state /\ b[i].vouched = arts[i].vouched
              /\ i \in Grantable(arts, ids) => b[i].authority = "authoritative"
              /\ ~(i \in Grantable(arts, ids)) => b[i].authority = arts[i].authority
         /\ Grantable(arts, ids) \subseteq ids
<1>1. \A i \in DOMAIN arts : arts[i] \in Artifact
  BY ArtifactAt
<1>2. Grantable(arts, ids) \subseteq ids
  BY DEF Grantable
<1> DEFINE G == Grantable(arts, ids)
<1> HIDE DEF G
<1>3. GrantAuthority(arts, ids) = [i \in DOMAIN arts |-> IF i \in G
                                     THEN [arts[i] EXCEPT !.authority = "authoritative"] ELSE arts[i]]
  BY DEF GrantAuthority, G
<1>4. LET b == GrantAuthority(arts, ids) IN
         /\ DOMAIN b = DOMAIN arts
         /\ \A i \in DOMAIN arts :
              /\ b[i].phase = arts[i].phase /\ b[i].gen = arts[i].gen
              /\ b[i].state = arts[i].state /\ b[i].vouched = arts[i].vouched
              /\ i \in G => b[i].authority = "authoritative"
              /\ ~(i \in G) => b[i].authority = arts[i].authority
  BY SMTT(30), <1>1, <1>3 DEF Artifact
<1> QED
  BY <1>2, <1>4 DEF G

\* Revoking a generation of a phase takes the authority of what it produced.
LEMMA RevokeFacts ==
  ASSUME NEW arts \in Seq(Artifact), NEW producers
  PROVE  LET b == RevokePhaseOutputs(arts, producers) IN
         /\ DOMAIN b = DOMAIN arts
         /\ \A i \in DOMAIN arts :
              /\ b[i].phase = arts[i].phase /\ b[i].gen = arts[i].gen
              /\ b[i].vouched = arts[i].vouched
              /\ <<arts[i].phase, arts[i].gen>> \in producers => b[i].authority = "revoked"
              /\ <<arts[i].phase, arts[i].gen>> \notin producers => b[i] = arts[i]
<1> DEFINE b == RevokePhaseOutputs(arts, producers)
<1>1. \A i \in DOMAIN arts : arts[i] \in Artifact
  BY ArtifactAt
<1>2. DOMAIN b = DOMAIN arts
  BY DEF RevokePhaseOutputs
<1>3. ASSUME NEW i \in DOMAIN arts, <<arts[i].phase, arts[i].gen>> \in producers
      PROVE  /\ b[i].phase = arts[i].phase /\ b[i].gen = arts[i].gen
             /\ b[i].vouched = arts[i].vouched /\ b[i].authority = "revoked"
  <2>1. b[i] = [arts[i] EXCEPT !.authority = "revoked",
                             !.state = IF @ = "valid" THEN "superseded" ELSE @]
    BY <1>3 DEF RevokePhaseOutputs
  <2>2. arts[i] \in Artifact
    BY <1>1, <1>3
  <2> HIDE DEF b
  <2> QED
    BY <2>1, <2>2 DEF Artifact
<1>4. ASSUME NEW i \in DOMAIN arts, ~(<<arts[i].phase, arts[i].gen>> \in producers)
      PROVE  b[i] = arts[i]
  BY <1>4 DEF RevokePhaseOutputs
<1> HIDE DEF b
<1> QED
  BY SMTT(30), <1>2, <1>3, <1>4 DEF b

\* revalidate rejects the artifacts whose file has changed.
LEMMA RevalidateFacts ==
  ASSUME NEW arts \in Seq(Artifact), NEW bad
  PROVE  LET b == Revalidate(arts, bad) IN
         /\ DOMAIN b = DOMAIN arts
         /\ \A i \in DOMAIN arts :
              /\ b[i].phase = arts[i].phase /\ b[i].gen = arts[i].gen
              /\ i \in bad => b[i].authority = "revoked"
              /\ i \notin bad => b[i] = arts[i]
<1> DEFINE b == Revalidate(arts, bad)
<1>1. \A i \in DOMAIN arts : arts[i] \in Artifact
  BY ArtifactAt
<1>2. DOMAIN b = DOMAIN arts
  BY DEF Revalidate
<1>3. ASSUME NEW i \in DOMAIN arts, i \in bad
      PROVE  /\ b[i].phase = arts[i].phase /\ b[i].gen = arts[i].gen /\ b[i].authority = "revoked"
  <2>1. b[i] = [arts[i] EXCEPT !.state = "corrupt", !.authority = "revoked", !.vouched = FALSE]
    BY <1>3 DEF Revalidate
  <2>2. arts[i] \in Artifact
    BY <1>1, <1>3
  <2> HIDE DEF b
  <2> QED
    BY <2>1, <2>2 DEF Artifact
<1>4. ASSUME NEW i \in DOMAIN arts, ~(i \in bad)
      PROVE  b[i] = arts[i]
  BY <1>4 DEF Revalidate
<1> HIDE DEF b
<1> QED
  BY SMTT(30), <1>2, <1>3, <1>4 DEF b

-----------------------------------------------------------------------------
(* What a step does to one phase.                                           *)

\* The state of a phase goes from a to b other than by a reservation, a commit
\* or the retirement of the session.
StateTurns(a, b) ==
  /\ b = "committed" <=> a = "committed"
  /\ a = "fenced" => b \in {"fenced", "retired"}
  /\ a = "retired" => b = "retired"
  /\ b \in InFlight => a \in InFlight

\* The record of a phase goes from r to s in the same way.  Only a fence makes
\* "invalidated" its failure, unless an execution can end with it.
Turns(r, s) ==
  /\ s.gen = r.gen
  /\ s.commit = r.commit
  /\ s.inputs = r.inputs
  /\ s.lease = r.lease
  /\ StateTurns(r.state, s.state)
  /\ s.failure = "invalidated" =>
       \/ s.state = "fenced"
       \/ r.failure = "invalidated"
       \/ "invalidated" \in Failures

\* The step rewrites phase p only: its state, failure, invocation and outputs.
Updated(p, st, f, i, o) ==
  /\ \A q \in Phases : q # p => phase'[q] = phase[q]
  /\ phase'[p].state = st /\ phase'[p].failure = f /\ phase'[p].inv = i /\ phase'[p].outputs = o
  /\ phase'[p].gen = phase[p].gen /\ phase'[p].commit = phase[p].commit
  /\ phase'[p].inputs = phase[p].inputs /\ phase'[p].lease = phase[p].lease

\* record_transition alone,
LEMMA UpdateState ==
  ASSUME phase \in [Phases -> PhaseRecord], NEW p \in Phases, NEW st,
         phase' = [phase EXCEPT ![p].state = st]
  PROVE  Updated(p, st, phase[p].failure, phase[p].inv, phase[p].outputs)
<1>1. \A q \in Phases : q # p => phase'[q] = phase[q]
  OBVIOUS
<1>2. phase'[p] = [phase[p] EXCEPT !.state = st] /\ phase[p] \in PhaseRecord
  OBVIOUS
<1> QED
  BY <1>1, <1>2 DEF Updated, PhaseRecord

\* with a failure class,
LEMMA UpdateFailure ==
  ASSUME phase \in [Phases -> PhaseRecord], NEW p \in Phases, NEW st, NEW f,
         phase' = [phase EXCEPT ![p].state = st, ![p].failure = f]
  PROVE  Updated(p, st, f, phase[p].inv, phase[p].outputs)
<1>1. \A q \in Phases : q # p => phase'[q] = phase[q]
  OBVIOUS
<1>2. phase'[p] = [phase[p] EXCEPT !.state = st, !.failure = f] /\ phase[p] \in PhaseRecord
  BY Zenon
<1> QED
  BY <1>1, <1>2 DEF Updated, PhaseRecord

\* and with one output more.
LEMMA UpdateOutputs ==
  ASSUME phase \in [Phases -> PhaseRecord], NEW p \in Phases, NEW st, NEW a,
         phase' = [phase EXCEPT ![p].state = st, ![p].outputs = @ \cup {a}]
  PROVE  Updated(p, st, phase[p].failure, phase[p].inv, phase[p].outputs \cup {a})
<1>1. \A q \in Phases : q # p => phase'[q] = phase[q]
  OBVIOUS
<1>2. phase'[p] = [phase[p] EXCEPT !.state = st, !.outputs = @ \cup {a}] /\ phase[p] \in PhaseRecord
  BY Zenon
<1> QED
  BY <1>1, <1>2 DEF Updated, PhaseRecord

\* Neither does anything but retirement leave a fenced phase.
LEMMA FencedStays ==
  ASSUME NEW to \in {"running", "produced", "validating", "commit_ready", "failed"}
  PROVE  RecordTransition("fenced", to) = "fenced"
  BY DEF RecordTransition, IsLegal

\* A transition that an execution, a report or a failure asks for.
LEMMA RunTurns ==
  ASSUME NEW a \in PhaseState,
         NEW to \in {"running", "produced", "validating", "commit_ready", "failed"}
  PROVE  /\ StateTurns(a, RecordTransition(a, to))
         /\ RecordTransition(a, to) \in PhaseState
         /\ RecordTransition(a, to) = "fenced" => a = "fenced"
<1> DEFINE b == RecordTransition(a, to)
<1>1. b \in {a, to}
  BY TransitionResult
<1>2. a \in {"committed", "retired"} => b = a
  BY CommittedStays
<1>3. a = "fenced" => b = a
  BY FencedStays
<1>4. to \in PhaseState \ {"preparing"}
  BY DEF PhaseState
<1>5. b \in InFlight => a \in InFlight
  BY <1>4, OnlyReserveStarts
<1> HIDE DEF b
<1>6. StateTurns(a, b) /\ b \in PhaseState /\ (b = "fenced" => a = "fenced")
  BY <1>1, <1>2, <1>3, <1>4, <1>5 DEF StateTurns
<1> QED
  BY <1>6 DEF b

\* What is in flight can always be failed, cancelled, fenced, made ready again
\* and retired.
LEMMA InFlightEnds ==
  ASSUME NEW a \in InFlight, NEW to \in {"failed", "cancelled", "fenced", "ready", "retired"}
  PROVE  RecordTransition(a, to) = to
  BY DEF RecordTransition, IsLegal, Withdrawn, InFlight

\* Retirement always succeeds.
LEMMA AllRetire ==
  ASSUME NEW a \in PhaseState
  PROVE  RecordTransition(a, "retired") = "retired"
  BY DEF RecordTransition, IsLegal, Withdrawn, PhaseState

\* What fails is not in flight afterwards.
LEMMA FailedEnds ==
  ASSUME NEW a \in PhaseState
  PROVE  RecordTransition(a, "failed") \notin InFlight
  BY DEF RecordTransition, IsLegal, Withdrawn, PhaseState, InFlight

-----------------------------------------------------------------------------
(* The kinds of steps.                                                      *)

\* No phase is reserved, committed or retired with its session.
PhasesTurn == \A p \in Phases : Turns(phase[p], phase'[p])

OutputsSame == \A p \in Phases : phase'[p].outputs = phase[p].outputs

\* Authority is at most revoked, where it is revoked nothing is in flight
\* afterwards, where it is not a validation stands, and what becomes fenced has
\* none left.
ArtifactsFade ==
  /\ DOMAIN artifact' = DOMAIN artifact
  /\ \A a \in DOMAIN artifact :
       /\ artifact'[a].phase = artifact[a].phase
       /\ artifact'[a].gen = artifact[a].gen
       /\ artifact'[a].authority \in {artifact[a].authority, "revoked"}
       /\ artifact'[a].authority # artifact[a].authority =>
            phase'[artifact[a].phase].state \notin InFlight
       /\ artifact'[a].authority = "authoritative" =>
            /\ artifact[a].vouched => artifact'[a].vouched
            /\ Consumable(artifact[a]) => Consumable(artifact'[a])
       /\ /\ phase'[artifact[a].phase].state = "fenced"
          /\ phase[artifact[a].phase].state # "fenced"
          /\ phase[artifact[a].phase].gen = artifact[a].gen
          => artifact'[a].authority # "authoritative"

\* The leases of phases that are not in flight afterwards may be given up.
LeasesDrop ==
  /\ nextId' = nextId
  /\ held' \subseteq held
  /\ \A x \in held \ held' : \E p \in Phases : x = phase[p].lease /\ phase'[p].state \notin InFlight

Quiet == PhasesTurn /\ OutputsSame /\ ArtifactsFade /\ LeasesDrop

\* What is in flight afterwards is where it was, and so is what it produced.
Steady(p) ==
  /\ phase'[p].gen = phase[p].gen
  /\ phase'[p].state \in InFlight =>
       /\ phase'[p].state = phase[p].state
       /\ phase'[p].inv = phase[p].inv
       /\ phase'[p].outputs = phase[p].outputs

Untouched ==
  \A a \in DOMAIN artifact : phase'[artifact[a].phase].state \in InFlight =>
    artifact'[a].state = artifact[a].state /\ artifact'[a].vouched = artifact[a].vouched

Calm == (\A p \in Phases : Steady(p)) /\ Untouched /\ nextId' = nextId

\* A call takes its phase on: to running, to validating, or half way there.
Launches(t) ==
  LET p == thread[t].phase IN
  /\ thread[t].pc = "launch" /\ Current(t)
  /\ phase' = [phase EXCEPT ![p].state = RecordTransition(@, "running")]
  /\ UNCHANGED <<artifact, nextId>>
  /\ \E pc \in {"execute", "abort"} : Goto(t, pc)

Records(t) ==
  /\ thread[t].pc = "execute" /\ Current(t)
  /\ RecordExecution(thread[t].phase, "ok")
  /\ Goto(t, "check") \/ Fail(t)

Stops(t) ==
  /\ thread[t].pc \in {"execute", "abort"} /\ Current(t)
  /\ RecordStopped(thread[t].phase)
  /\ Fail(t)

\* or it accepts whatever outputs the phase has.
Accepts(t) ==
  LET p == thread[t].phase IN
  /\ thread[t].pc = "validate"
  /\ artifact' = SetStates(artifact, phase[p].outputs, "valid", p, thread[t].gen)
  /\ phase' = [phase EXCEPT ![p].state = RecordTransition(@, "commit_ready")]
  /\ nextId' = nextId
  /\ Goto(t, "commit") \/ Fail(t)

Advances(t) == Launches(t) \/ Records(t) \/ Stops(t) \/ Accepts(t)

\* An execution of p is recorded with its output.
Produces(p) ==
  /\ PhasesTurn
  /\ \A q \in Phases : q # p => phase'[q].outputs = phase[q].outputs
  /\ phase'[p].outputs = phase[p].outputs \cup {Len(artifact) + 1}
  /\ artifact' = Register(artifact, p, phase[p].gen)
  /\ \A q \in Phases : phase'[q].state = "fenced" => phase[q].state = "fenced"
  /\ held' = held /\ nextId' = nextId

\* p is reserved.
Reserves(p) ==
  /\ \A q \in Phases : q # p => phase'[q] = phase[q]
  /\ phase[p].state \notin InFlight \cup {"committed", "fenced", "retired"}
  /\ Ready(p)
  /\ phase'[p].state = "preparing" /\ phase'[p].gen = phase[p].gen + 1
  /\ phase'[p].inv = nextId /\ phase'[p].lease = nextId /\ phase'[p].failure = "none"
  /\ phase'[p].inputs = InputsOf(p) /\ phase'[p].outputs = {} /\ phase'[p].commit = FALSE
  /\ artifact' = artifact /\ held' = held \cup {nextId} /\ nextId' = nextId + 1

\* The outputs of p, which is ready to commit, are granted authority.
Grants(p) ==
  /\ phase[p].state = "commit_ready"
  /\ artifact' = GrantAuthority(artifact, phase[p].outputs)
  /\ nextId' = nextId

\* The commit of p is published.
Publishes(p) ==
  /\ Grants(p)
  /\ session' = CommittedSession(p)
  /\ phase' = CommittedPhases(p)
  /\ held' = held \ {phase[p].lease}

\* A commit by t grants authority and goes no further.
Discards(t) ==
  /\ CommitUngranted(t) \/ CommitUnpersisted(t)
  /\ Grants(thread[t].phase)
  /\ UNCHANGED <<phase, held>>

\* The session is retired with all its phases.
Retires ==
  /\ \A p \in Phases :
       /\ phase'[p].state = "retired" /\ phase'[p].failure = phase[p].failure
       /\ phase'[p].gen = phase[p].gen /\ phase'[p].commit = phase[p].commit
       /\ phase'[p].inputs = phase[p].inputs /\ phase'[p].lease = phase[p].lease
       /\ phase'[p].outputs = phase[p].outputs
  /\ artifact' = artifact /\ nextId' = nextId /\ held' \subseteq held
  /\ session'.state = "retired"

\* Nothing turns when the phases are left alone.
LEMMA SameTurn ==
  ASSUME phase' = phase
  PROVE  PhasesTurn /\ OutputsSame
  BY DEF PhasesTurn, OutputsSame, Turns, StateTurns

\* A step that leaves phases, registry and leases alone is quiet and calm.
LEMMA StillQuiet ==
  ASSUME UNCHANGED <<phase, artifact, held, nextId>>
  PROVE  Quiet /\ Calm
<1>1. PhasesTurn /\ OutputsSame
  BY SameTurn
<1>2. ArtifactsFade
  BY DEF ArtifactsFade
<1>3. LeasesDrop
  BY DEF LeasesDrop
<1>4. Calm
  BY DEF Calm, Steady, Untouched
<1> QED
  BY <1>1, <1>2, <1>3, <1>4 DEF Quiet

\* A step that rewrites one phase.
LEMMA OneTurns ==
  ASSUME NEW p \in Phases, NEW st, NEW f, NEW i, NEW o, Updated(p, st, f, i, o),
         StateTurns(phase[p].state, st),
         f = "invalidated" => st = "fenced" \/ phase[p].failure = "invalidated" \/ "invalidated" \in Failures
  PROVE  /\ PhasesTurn
         /\ o = phase[p].outputs => OutputsSame
<1> SUFFICES ASSUME NEW q \in Phases
             PROVE  /\ Turns(phase[q], phase'[q])
                    /\ o = phase[p].outputs => phase'[q].outputs = phase[q].outputs
  BY DEF PhasesTurn, OutputsSame
<1>1. CASE q = p
  BY <1>1 DEF Updated, Turns
<1>2. CASE q # p
  <2>1. phase'[q] = phase[q]
    BY <1>2 DEF Updated
  <2> QED
    BY <1>2, <2>1 DEF Updated, Turns, StateTurns
<1> QED
  BY <1>1, <1>2

\* A step that leaves the registry alone and fences nothing.
LEMMA SameFade ==
  ASSUME TypeOK, artifact' = artifact,
         \A p \in Phases : phase'[p].state = "fenced" => phase[p].state = "fenced"
  PROVE  ArtifactsFade
<1>1. \A a \in DOMAIN artifact : artifact[a].phase \in Phases
  BY ArtifactAt DEF TypeOK, Artifact
<1> QED
  BY <1>1 DEF ArtifactsFade

\* A step that revokes what some generations produced.
LEMMA RevokeStep ==
  ASSUME artifact \in Seq(Artifact), NEW producers,
         artifact' = RevokePhaseOutputs(artifact, producers)
  PROVE  /\ DOMAIN artifact' = DOMAIN artifact
         /\ \A a \in DOMAIN artifact :
              /\ artifact'[a].phase = artifact[a].phase /\ artifact'[a].gen = artifact[a].gen
              /\ <<artifact[a].phase, artifact[a].gen>> \in producers => artifact'[a].authority = "revoked"
              /\ <<artifact[a].phase, artifact[a].gen>> \notin producers => artifact'[a] = artifact[a]
  BY RevokeFacts, SMT

\* Revoking what one generation of one phase produced.
LEMMA RevokeOne ==
  ASSUME artifact \in Seq(Artifact), NEW p,
         artifact' = RevokePhaseOutputs(artifact, {<<p, phase[p].gen>>})
  PROVE  /\ DOMAIN artifact' = DOMAIN artifact
         /\ \A a \in DOMAIN artifact :
              /\ artifact'[a].phase = artifact[a].phase /\ artifact'[a].gen = artifact[a].gen
              /\ artifact[a].phase = p /\ artifact[a].gen = phase[p].gen => artifact'[a].authority = "revoked"
              /\ ~(artifact[a].phase = p /\ artifact[a].gen = phase[p].gen) => artifact'[a] = artifact[a]
<1> DEFINE ended == {<<p, phase[p].gen>>}
<1>1. \A x, y : <<x, y>> \in ended <=> x = p /\ y = phase[p].gen
  OBVIOUS
<1>2. /\ DOMAIN artifact' = DOMAIN artifact
      /\ \A a \in DOMAIN artifact :
           /\ artifact'[a].phase = artifact[a].phase /\ artifact'[a].gen = artifact[a].gen
           /\ <<artifact[a].phase, artifact[a].gen>> \in ended => artifact'[a].authority = "revoked"
           /\ <<artifact[a].phase, artifact[a].gen>> \notin ended => artifact'[a] = artifact[a]
  BY Zenon, RevokeStep
<1> HIDE DEF ended
<1> QED
  BY <1>1, <1>2

\* A step that ends one phase and revokes what its generation produced.
LEMMA EndFade ==
  ASSUME TypeOK, NEW p \in Phases, NEW st, NEW f, NEW i, NEW o, Updated(p, st, f, i, o),
         st \notin InFlight, artifact' = RevokePhaseOutputs(artifact, {<<p, phase[p].gen>>})
  PROVE  ArtifactsFade /\ Untouched
<1>1. artifact \in Seq(Artifact)
  BY DEF TypeOK
<1>2. \A a \in DOMAIN artifact : artifact[a].phase \in Phases
  BY <1>1, ArtifactAt DEF Artifact
<1>3. /\ DOMAIN artifact' = DOMAIN artifact
      /\ \A a \in DOMAIN artifact :
           /\ artifact'[a].phase = artifact[a].phase /\ artifact'[a].gen = artifact[a].gen
           /\ artifact[a].phase = p /\ artifact[a].gen = phase[p].gen => artifact'[a].authority = "revoked"
           /\ ~(artifact[a].phase = p /\ artifact[a].gen = phase[p].gen) => artifact'[a] = artifact[a]
  BY Zenon, <1>1, RevokeOne
<1>4. /\ phase'[p].state = st
      /\ \A q \in Phases : q # p => phase'[q] = phase[q]
  BY DEF Updated
<1> SUFFICES ASSUME NEW a \in DOMAIN artifact
             PROVE  /\ artifact'[a].phase = artifact[a].phase
                    /\ artifact'[a].gen = artifact[a].gen
                    /\ artifact'[a].authority \in {artifact[a].authority, "revoked"}
                    /\ artifact'[a].authority # artifact[a].authority =>
                         phase'[artifact[a].phase].state \notin InFlight
                    /\ artifact'[a].authority = "authoritative" =>
                         /\ artifact[a].vouched => artifact'[a].vouched
                         /\ Consumable(artifact[a]) => Consumable(artifact'[a])
                    /\ /\ phase'[artifact[a].phase].state = "fenced"
                       /\ phase[artifact[a].phase].state # "fenced"
                       /\ phase[artifact[a].phase].gen = artifact[a].gen
                       => artifact'[a].authority # "authoritative"
                    /\ phase'[artifact[a].phase].state \in InFlight => artifact'[a] = artifact[a]
  BY <1>3 DEF ArtifactsFade, Untouched
<1>5. CASE artifact[a].phase = p /\ artifact[a].gen = phase[p].gen
  BY <1>3, <1>4, <1>5
<1>6. CASE ~(artifact[a].phase = p /\ artifact[a].gen = phase[p].gen)
  <2>1. artifact'[a] = artifact[a]
    BY <1>3, <1>6
  <2> QED
    BY <1>2, <1>4, <1>6, <2>1, SMT
<1> QED
  BY <1>5, <1>6

\* A step that applies a validation to the outputs of p: a rejection ends p.
LEMMA JudgeFade ==
  ASSUME TypeOK, OwnOutputs(phase, artifact), NEW p \in Phases, NEW v, NEW g,
         artifact' = SetStates(artifact, phase[p].outputs, v, p, g),
         v = "valid" \/ phase'[p].state \notin InFlight,
         \A q \in Phases : phase'[q].state = "fenced" => phase[q].state = "fenced"
  PROVE  /\ ArtifactsFade
         /\ phase'[p].state \notin InFlight => Untouched
<1>1. artifact \in Seq(Artifact) /\ \A a \in DOMAIN artifact : artifact[a].phase \in Phases
  BY ArtifactAt DEF TypeOK, Artifact
<1> DEFINE ids == phase[p].outputs
<1>2. artifact' = SetStates(artifact, ids, v, p, g)
  OBVIOUS
<1>3. \A a \in ids : artifact[a].phase = p
  BY DEF OwnOutputs
<1> HIDE DEF ids
<1>4. /\ DOMAIN artifact' = DOMAIN artifact
      /\ \A a \in DOMAIN artifact :
           /\ artifact'[a].phase = artifact[a].phase /\ artifact'[a].gen = artifact[a].gen
           /\ a \notin ids => artifact'[a] = artifact[a]
           /\ a \in ids =>
                /\ artifact'[a].state = v
                /\ artifact'[a].authority = IF v # "valid" /\ artifact[a].authority = "authoritative"
                                            THEN "revoked" ELSE artifact[a].authority
                /\ artifact'[a].vouched = (v = "valid" /\ (artifact[a].vouched
                                                           \/ (artifact[a].phase = p /\ artifact[a].gen = g)))
  BY <1>1, <1>2, SetStatesFacts, SMT
<1>5. ASSUME NEW a \in DOMAIN artifact, artifact'[a].authority = "authoritative"
      PROVE  /\ artifact[a].vouched => artifact'[a].vouched
             /\ Consumable(artifact[a]) => Consumable(artifact'[a])
  BY <1>4, <1>5 DEF Consumable
<1> QED
  BY <1>1, <1>3, <1>4, <1>5, SMT DEF ArtifactsFade, Untouched

\* What fence_all_in_flight does to each phase and artifact.
LEMMA FencedFacts ==
  ASSUME NEW ph \in [Phases -> PhaseRecord], NEW arts \in Seq(Artifact)
  PROVE  /\ \A p \in Phases :
              /\ ph[p].state \in InFlight => Fenced(ph)[p].state = "fenced"
              /\ ph[p].state \notin InFlight => Fenced(ph)[p] = ph[p]
              /\ Turns(ph[p], Fenced(ph)[p])
              /\ Fenced(ph)[p].outputs = ph[p].outputs
         /\ DOMAIN FencedOutputs(arts, ph) = DOMAIN arts
         /\ \A i \in DOMAIN arts :
              /\ FencedOutputs(arts, ph)[i].phase = arts[i].phase
              /\ FencedOutputs(arts, ph)[i].gen = arts[i].gen
              /\ FencedOutputs(arts, ph)[i].vouched = arts[i].vouched
              /\ IF ph[arts[i].phase].state \in InFlight /\ ph[arts[i].phase].gen = arts[i].gen
                 THEN FencedOutputs(arts, ph)[i].authority = "revoked"
                 ELSE FencedOutputs(arts, ph)[i] = arts[i]
<1>1. ASSUME NEW p \in Phases
      PROVE  /\ ph[p].state \in InFlight => Fenced(ph)[p].state = "fenced"
             /\ ph[p].state \notin InFlight => Fenced(ph)[p] = ph[p]
             /\ Turns(ph[p], Fenced(ph)[p])
             /\ Fenced(ph)[p].outputs = ph[p].outputs
  <2>1. CASE ph[p].state \in InFlight
    <3>1. Fenced(ph)[p] = [ph[p] EXCEPT !.state = "fenced", !.failure = "invalidated", !.inv = 0]
      BY <2>1 DEF Fenced
    <3>2. ph[p] \in PhaseRecord
      OBVIOUS
    <3> DEFINE r == ph[p]
               s == Fenced(ph)[p]
    <3>3. s = [r EXCEPT !.state = "fenced", !.failure = "invalidated", !.inv = 0]
      BY <3>1
    <3> HIDE DEF r, s
    <3>4. /\ s.state = "fenced" /\ s.gen = r.gen /\ s.commit = r.commit /\ s.inputs = r.inputs
          /\ s.lease = r.lease /\ s.outputs = r.outputs
      BY <3>2, <3>3 DEF PhaseRecord, r
    <3>5. StateTurns(r.state, s.state)
      BY <2>1, <3>4 DEF StateTurns, InFlight, r
    <3> QED
      BY <2>1, <3>4, <3>5 DEF Turns, r, s
  <2>2. CASE ph[p].state \notin InFlight
    <3>1. Fenced(ph)[p] = ph[p]
      BY <2>2 DEF Fenced
    <3> QED
      BY <2>2, <3>1 DEF Turns, StateTurns
  <2> QED
    BY <2>1, <2>2
<1> DEFINE ended == {<<p, ph[p].gen>> : p \in {q \in Phases : ph[q].state \in InFlight}}
           b == FencedOutputs(arts, ph)
<1>2. \A i \in DOMAIN arts : arts[i].phase \in Phases
  BY ArtifactAt DEF Artifact
<1>3. \A i \in DOMAIN arts : <<arts[i].phase, arts[i].gen>> \in ended <=>
        ph[arts[i].phase].state \in InFlight /\ ph[arts[i].phase].gen = arts[i].gen
  BY <1>2
<1>4. b = RevokePhaseOutputs(arts, ended)
  BY DEF FencedOutputs
<1> HIDE DEF ended, b
<1>5. /\ DOMAIN b = DOMAIN arts
      /\ \A i \in DOMAIN arts :
           /\ b[i].phase = arts[i].phase /\ b[i].gen = arts[i].gen
           /\ b[i].vouched = arts[i].vouched
           /\ <<arts[i].phase, arts[i].gen>> \in ended => b[i].authority = "revoked"
           /\ <<arts[i].phase, arts[i].gen>> \notin ended => b[i] = arts[i]
  BY <1>4, RevokeFacts, SMT
<1>6. /\ DOMAIN b = DOMAIN arts
      /\ \A i \in DOMAIN arts :
           /\ b[i].phase = arts[i].phase /\ b[i].gen = arts[i].gen
           /\ b[i].vouched = arts[i].vouched
           /\ IF ph[arts[i].phase].state \in InFlight /\ ph[arts[i].phase].gen = arts[i].gen
              THEN b[i].authority = "revoked" ELSE b[i] = arts[i]
  BY <1>3, <1>5
<1> QED
  BY <1>1, <1>6 DEF b

\* A recovery rejects outputs of committed phases only.
LEMMA RecoverFade ==
  ASSUME TypeOK, Sound(phase), NEW bad, artifact' = Revalidate(artifact, bad),
         \A a \in bad : phase[artifact[a].phase].commit, PhasesTurn,
         \A q \in Phases : phase'[q].state = "fenced" => phase[q].state = "fenced"
  PROVE  ArtifactsFade /\ Untouched
<1>1. artifact \in Seq(Artifact) /\ \A a \in DOMAIN artifact : artifact[a].phase \in Phases
  BY ArtifactAt DEF TypeOK, Artifact
<1>2. /\ DOMAIN artifact' = DOMAIN artifact
      /\ \A a \in DOMAIN artifact :
           /\ artifact'[a].phase = artifact[a].phase /\ artifact'[a].gen = artifact[a].gen
           /\ a \in bad => artifact'[a].authority = "revoked"
           /\ a \notin bad => artifact'[a] = artifact[a]
  BY <1>1, RevalidateFacts, SMT
<1>3. \A p \in Phases : phase[p].commit => phase'[p].state \notin InFlight
  BY DEF Sound, PhasesTurn, Turns, StateTurns, InFlight
<1> QED
  BY <1>1, <1>2, <1>3 DEF ArtifactsFade, Untouched

\* A step that moves one phase on and changes nothing else is quiet;
LEMMA MoveQuiet ==
  ASSUME TypeOK, NEW p \in Phases, NEW st, NEW f, Updated(p, st, f, phase[p].inv, phase[p].outputs),
         StateTurns(phase[p].state, st), st = "fenced" => phase[p].state = "fenced",
         f = "invalidated" => phase[p].failure = "invalidated" \/ "invalidated" \in Failures,
         UNCHANGED <<artifact, held, nextId>>
  PROVE  /\ Quiet
         /\ st \notin InFlight => Calm
<1>1. PhasesTurn /\ OutputsSame
  BY OneTurns
<1>2. \A q \in Phases : phase'[q].state = "fenced" => phase[q].state = "fenced"
  BY DEF Updated
<1>3. ArtifactsFade
  BY <1>2, SameFade
<1>4. LeasesDrop
  BY DEF LeasesDrop
<1>5. ASSUME st \notin InFlight
      PROVE  Calm
  BY <1>5 DEF Calm, Steady, Untouched, Updated
<1> QED
  BY <1>1, <1>3, <1>4, <1>5 DEF Quiet

\* so is one that ends a phase, revokes what it produced and may drop its lease.
LEMMA EndQuiet ==
  ASSUME TypeOK, NEW p \in Phases, NEW st, NEW f, NEW i, Updated(p, st, f, i, phase[p].outputs),
         StateTurns(phase[p].state, st), st \notin InFlight,
         f = "invalidated" => st = "fenced" \/ phase[p].failure = "invalidated" \/ "invalidated" \in Failures,
         artifact' = RevokePhaseOutputs(artifact, {<<p, phase[p].gen>>}),
         held' = held \/ held' = held \ {phase[p].lease}, nextId' = nextId
  PROVE  Quiet /\ Calm
<1>1. PhasesTurn /\ OutputsSame
  BY OneTurns
<1>2. ArtifactsFade /\ Untouched
  BY EndFade
<1>3. phase'[p].state \notin InFlight
  BY DEF Updated
<1>4. LeasesDrop
  BY <1>3 DEF LeasesDrop
<1>5. Calm
  BY <1>2 DEF Calm, Steady, Updated
<1> QED
  BY <1>1, <1>2, <1>4, <1>5 DEF Quiet

\* record_execution moves the phase on and, on success, registers its output.
LEMMA RecordKind ==
  ASSUME TypeOK, NEW p \in Phases, NEW outcome \in Failures \cup {"ok"}, RecordExecution(p, outcome)
  PROVE  /\ Quiet \/ Produces(p)
         /\ outcome = "ok" \/ Calm
<1>1. phase \in [Phases -> PhaseRecord] /\ phase[p].state \in PhaseState
  BY DEF TypeOK, PhaseRecord
<1>2. CASE outcome = "ok"
  <2> DEFINE s1 == RecordTransition(phase[p].state, "produced")
             s  == RecordTransition(s1, "validating")
  <2>1. StateTurns(phase[p].state, s1) /\ s1 \in PhaseState /\ (s1 = "fenced" => phase[p].state = "fenced")
    BY <1>1, RunTurns
  <2> HIDE DEF s1
  <2>2. StateTurns(s1, s) /\ (s = "fenced" => s1 = "fenced")
    BY <2>1, RunTurns
  <2>3. /\ phase' = [phase EXCEPT ![p].state = s, ![p].outputs = @ \cup {Len(artifact) + 1}]
        /\ artifact' = Register(artifact, p, phase[p].gen)
        /\ UNCHANGED <<held, nextId>>
    BY <1>2 DEF RecordExecution, s1
  <2> HIDE DEF s
  <2>4. Updated(p, s, phase[p].failure, phase[p].inv, phase[p].outputs \cup {Len(artifact) + 1})
    BY <1>1, <2>3, UpdateOutputs
  <2>5. StateTurns(phase[p].state, s) /\ (s = "fenced" => phase[p].state = "fenced")
    BY <2>1, <2>2 DEF StateTurns
  <2>6. PhasesTurn
    BY <2>4, <2>5, OneTurns
  <2>7. /\ \A q \in Phases : q # p => phase'[q].outputs = phase[q].outputs
        /\ phase'[p].outputs = phase[p].outputs \cup {Len(artifact) + 1}
        /\ \A q \in Phases : phase'[q].state = "fenced" => phase[q].state = "fenced"
    BY <2>4, <2>5 DEF Updated
  <2>8. Produces(p)
    BY <2>3, <2>6, <2>7 DEF Produces
  <2> QED
    BY <1>2, <2>8
<1>3. CASE outcome # "ok"
  <2> DEFINE s == RecordTransition(phase[p].state, "failed")
  <2>1. StateTurns(phase[p].state, s) /\ (s = "fenced" => phase[p].state = "fenced")
    BY <1>1, RunTurns
  <2>2. /\ phase' = [phase EXCEPT ![p].state = s, ![p].failure = outcome]
        /\ UNCHANGED <<artifact, held, nextId>>
    BY <1>3 DEF RecordExecution
  <2> HIDE DEF s
  <2>3. Updated(p, s, outcome, phase[p].inv, phase[p].outputs)
    BY <1>1, <2>2, UpdateFailure
  <2>4. outcome \in Failures /\ s \notin InFlight
    BY <1>1, <1>3, FailedEnds DEF s
  <2> QED
    BY <2>1, <2>2, <2>3, <2>4, MoveQuiet
<1> QED
  BY <1>2, <1>3

\* So does a record that stops half way.
LEMMA StoppedKind ==
  ASSUME TypeOK, NEW p \in Phases, RecordStopped(p)
  PROVE  Quiet
<1>1. phase \in [Phases -> PhaseRecord] /\ phase[p].state \in PhaseState
  BY DEF TypeOK, PhaseRecord
<1>2. UNCHANGED <<artifact, held, nextId>>
  BY DEF RecordStopped
<1>3. CASE phase' = phase
  BY <1>2, <1>3, StillQuiet
<1>4. CASE phase' = [phase EXCEPT ![p].state = RecordTransition(@, "produced")]
  <2> DEFINE s == RecordTransition(phase[p].state, "produced")
  <2>1. StateTurns(phase[p].state, s) /\ (s = "fenced" => phase[p].state = "fenced")
    BY <1>1, RunTurns
  <2>2. phase' = [phase EXCEPT ![p].state = s]
    BY <1>4
  <2> HIDE DEF s
  <2>3. Updated(p, s, phase[p].failure, phase[p].inv, phase[p].outputs)
    BY <1>1, <2>2, UpdateState
  <2> QED
    BY <1>2, <2>1, <2>3, MoveQuiet
<1> QED
  BY <1>3, <1>4 DEF RecordStopped

\* Launching, recording, checking, reproducing and validating a phase.
LEMMA RunKind ==
  ASSUME TypeOK, OwnOutputs(phase, artifact), NEW t \in Threads,
         Launch(t) \/ Record(t) \/ Check(t) \/ Reproduce(t) \/ Validate(t)
  PROVE  /\ Quiet \/ Produces(thread[t].phase)
         /\ Calm \/ Advances(t)
<1> DEFINE p == thread[t].phase
           S(to) == RecordTransition(phase[p].state, to)
<1>1. phase \in [Phases -> PhaseRecord] /\ p \in Phases
  BY CallType DEF TypeOK
<1>2. phase[p].state \in PhaseState
  BY <1>1 DEF PhaseRecord
<1>3. \A to \in {"running", "produced", "commit_ready", "failed"} :
        StateTurns(phase[p].state, S(to)) /\ (S(to) = "fenced" => phase[p].state = "fenced")
  BY <1>2, RunTurns
<1>4. S("failed") \notin InFlight
  BY <1>2, FailedEnds
<1>5. CASE Launch(t)
  <2>1. UNCHANGED <<artifact, held, nextId>>
    BY <1>5 DEF Launch
  <2>2. CASE phase' = phase
    BY <2>1, <2>2, StillQuiet
  <2>3. CASE /\ phase' = [phase EXCEPT ![p].state = S("running")]
             /\ Current(t)
             /\ \E pc \in {"execute", "abort"} : Goto(t, pc)
    <3>2. Launches(t)
      BY <1>5, <2>1, <2>3 DEF Launches, Launch
    <3> HIDE DEF S, p
    <3>1. Updated(p, S("running"), phase[p].failure, phase[p].inv, phase[p].outputs)
      BY <1>1, <2>3, UpdateState
    <3> QED
      BY <1>1, <1>3, <2>1, <2>3, <3>1, <3>2, MoveQuiet DEF Advances
  <2> QED
    BY <1>5, <2>2, <2>3 DEF Launch
<1>6. CASE Record(t)
  <2>1. CASE UNCHANGED <<phase, artifact, held, nextId>>
    BY <2>1, StillQuiet
  <2>2. ASSUME NEW outcome \in Failures \cup {"ok"}, RecordExecution(p, outcome),
               outcome = "ok" => thread[t].pc = "execute", Current(t), Goto(t, "check") \/ Fail(t)
        PROVE  (Quiet \/ Produces(p)) /\ (Calm \/ Advances(t))
    <3>1. (Quiet \/ Produces(p)) /\ (outcome = "ok" \/ Calm)
      BY <1>1, <2>2, RecordKind
    <3>2. outcome = "ok" => Records(t)
      BY <2>2 DEF Records
    <3> QED
      BY <3>1, <3>2 DEF Advances
  <2>3. CASE Stops(t)
    <3>1. RecordStopped(p)
      BY <2>3 DEF Stops
    <3> QED
      BY <1>1, <2>3, <3>1, StoppedKind DEF Advances
  <2> QED
    BY <1>6, <2>1, <2>2, <2>3 DEF Record, Stops
<1>7. CASE Check(t)
  BY <1>7, StillQuiet DEF Check
<1>8. CASE Reproduce(t)
  <2>1. UNCHANGED <<held, nextId>>
    BY <1>8 DEF Reproduce
  <2>2. CASE UNCHANGED <<phase, artifact>>
    BY <2>1, <2>2, StillQuiet
  <2>3. CASE /\ phase' = [phase EXCEPT ![p].state = S("failed"), ![p].failure = "refused"]
             /\ artifact' = RevokePhaseOutputs(artifact, {<<p, phase[p].gen>>})
    <3> HIDE DEF S, p
    <3>1. Updated(p, S("failed"), "refused", phase[p].inv, phase[p].outputs)
      BY <1>1, <2>3, UpdateFailure
    <3> QED
      BY <1>1, <1>3, <1>4, <2>1, <2>3, <3>1, EndQuiet
  <2> QED
    BY <1>8, <2>2, <2>3 DEF Reproduce
<1>9. CASE Validate(t)
  <2>1. UNCHANGED <<held, nextId>>
    BY <1>9 DEF Validate
  <2>2. LeasesDrop
    BY <2>1 DEF LeasesDrop
  <2>3. CASE UNCHANGED <<phase, artifact>>
    BY <2>1, <2>3, StillQuiet
  <2>4. CASE /\ phase' = [phase EXCEPT ![p].state = S("commit_ready")]
             /\ artifact' = SetStates(artifact, phase[p].outputs, "valid", p, thread[t].gen)
             /\ Goto(t, "commit") \/ Fail(t)
    <3>5. Accepts(t)
      BY <1>9, <2>1, <2>4 DEF Accepts, Validate
    <3> HIDE DEF S, p
    <3>1. Updated(p, S("commit_ready"), phase[p].failure, phase[p].inv, phase[p].outputs)
      BY <1>1, <2>4, UpdateState
    <3>2. PhasesTurn /\ OutputsSame
      BY <1>1, <1>3, <3>1, OneTurns
    <3>3. \A q \in Phases : phase'[q].state = "fenced" => phase[q].state = "fenced"
      BY <1>3, <3>1 DEF Updated
    <3>4. ArtifactsFade
      BY <1>1, <2>4, <3>3, JudgeFade
    <3> QED
      BY <2>2, <3>2, <3>4, <3>5 DEF Quiet, Advances
  <2>5. ASSUME NEW f \in Failures,
               phase' = [phase EXCEPT ![p].state = S("failed"), ![p].failure = f],
               artifact' = SetStates(artifact, phase[p].outputs, "corrupt", p, thread[t].gen)
        PROVE  Quiet /\ Calm
    <3> HIDE DEF S, p
    <3>1. Updated(p, S("failed"), f, phase[p].inv, phase[p].outputs)
      BY <1>1, <2>5, UpdateFailure
    <3>2. PhasesTurn /\ OutputsSame
      BY <1>1, <1>3, <2>5, <3>1, OneTurns
    <3>3. /\ \A q \in Phases : phase'[q].state = "fenced" => phase[q].state = "fenced"
          /\ phase'[p].state \notin InFlight
      BY <1>3, <1>4, <3>1 DEF Updated
    <3>4. ArtifactsFade /\ Untouched
      BY <1>1, <2>5, <3>3, JudgeFade
    <3>5. Calm
      BY <1>4, <2>1, <3>1, <3>4 DEF Calm, Steady, Updated
    <3> QED
      BY <2>2, <3>2, <3>4, <3>5 DEF Quiet
  <2> QED
    BY <1>9, <2>3, <2>4, <2>5 DEF Validate
<1> QED
  BY <1>5, <1>6, <1>7, <1>8, <1>9

\* The outcomes of commit_reserved that refuse or fence are quiet; the others
\* grant authority to the outputs of a phase that is ready to commit.
LEMMA CommitKind ==
  ASSUME TypeOK, NEW t \in Threads
  PROVE  /\ CommitRefused(t) \/ CommitUnprobed(t) \/ CommitFenced(t) => Quiet /\ Calm
         /\ CommitUngranted(t) \/ CommitUnpersisted(t) =>
              Discards(t)
         /\ CommitPublished(t) => Publishes(thread[t].phase)
<1> DEFINE p == thread[t].phase
           s == RecordTransition(phase[p].state, "fenced")
<1>1. phase \in [Phases -> PhaseRecord] /\ p \in Phases
  BY CallType DEF TypeOK
<1>2. ASSUME CommitRefused(t)
      PROVE  Quiet /\ Calm
  BY <1>2, StillQuiet DEF CommitRefused
<1>3. ASSUME CommitUnprobed(t) \/ CommitFenced(t)
      PROVE  Quiet /\ Calm
  <2>1. phase[p].state = "commit_ready"
    BY <1>3 DEF CommitUnprobed, CommitFenced, Committable
  <2>2. s = "fenced"
    BY <2>1, InFlightEnds DEF InFlight
  <2>3. PICK f : phase' = [phase EXCEPT ![p].state = s, ![p].failure = f]
    BY <1>3 DEF CommitUnprobed, CommitFenced
  <2>4. /\ artifact' = RevokePhaseOutputs(artifact, {<<p, phase[p].gen>>})
        /\ held' = held \/ held' = held \ {phase[p].lease}
        /\ nextId' = nextId
    BY <1>3 DEF CommitUnprobed, CommitFenced
  <2> HIDE DEF p, s
  <2>5. Updated(p, s, f, phase[p].inv, phase[p].outputs)
    BY <1>1, <2>3, UpdateFailure
  <2>6. StateTurns(phase[p].state, s) /\ s \notin InFlight
    BY <2>1, <2>2 DEF StateTurns, InFlight
  <2> QED
    BY <1>1, <2>2, <2>4, <2>5, <2>6, EndQuiet
<1>4. ASSUME CommitUngranted(t) \/ CommitUnpersisted(t)
      PROVE  Discards(t)
  BY <1>4 DEF CommitUngranted, CommitUnpersisted, CommitGranted, Committable, Grants, Discards
<1>5. ASSUME CommitPublished(t)
      PROVE  Publishes(p)
  BY <1>5 DEF CommitPublished, CommitGranted, Committable, Grants, Publishes
<1> QED
  BY <1>2, <1>3, <1>4, <1>5

\* cancel_phase ends a phase that has not committed.
LEMMA CancelKind ==
  ASSUME TypeOK, NEW p \in Phases, phase[p].state # "committed", CancelPhaseBody(p)
  PROVE  Quiet /\ Calm
<1>1. phase \in [Phases -> PhaseRecord] /\ phase[p] \in PhaseRecord
  BY DEF TypeOK
<1>2. /\ artifact' = RevokePhaseOutputs(artifact, {<<p, phase[p].gen>>})
      /\ held' = held \ {phase[p].lease}
      /\ nextId' = nextId
  BY DEF CancelPhaseBody
<1>3. CASE phase[p].state \in RetainsCommitAuthority
  <2> DEFINE s == RecordTransition(phase[p].state, "cancelled")
             r == [phase[p] EXCEPT !.state = s, !.failure = "retryable", !.inv = 0]
  <2>1. s = "cancelled"
    BY <1>3 DEF RetainsCommitAuthority, InFlight, RecordTransition, IsLegal, Withdrawn
  <2>2. phase' = [phase EXCEPT ![p] = r]
    BY <1>3 DEF CancelPhaseBody
  <2> HIDE DEF s
  <2>3. Updated(p, s, "retryable", 0, phase[p].outputs)
    BY <1>1, <2>2 DEF Updated, PhaseRecord
  <2>4. StateTurns(phase[p].state, s) /\ s \notin InFlight
    BY <1>3, <2>1 DEF StateTurns, InFlight, RetainsCommitAuthority
  <2> QED
    BY <1>2, <2>3, <2>4, EndQuiet
<1>4. CASE phase[p].state \notin RetainsCommitAuthority
  <2> DEFINE r == [phase[p] EXCEPT !.inv = 0]
  <2>1. phase' = [phase EXCEPT ![p] = r]
    BY <1>4 DEF CancelPhaseBody
  <2>2. Updated(p, phase[p].state, phase[p].failure, 0, phase[p].outputs)
    BY <1>1, <2>1 DEF Updated, PhaseRecord
  <2>3. StateTurns(phase[p].state, phase[p].state) /\ phase[p].state \notin InFlight
    BY <1>4 DEF StateTurns, RetainsCommitAuthority
  <2> QED
    BY <1>2, <2>2, <2>3, EndQuiet
<1> QED
  BY <1>3, <1>4

\* So does fail_phase.
LEMMA FailKind ==
  ASSUME TypeOK, NEW p \in Phases, NEW f \in Failures, FailPhase(p, f)
  PROVE  Quiet /\ Calm
<1> DEFINE s == IF phase[p].state \in RetainsCommitAuthority
                THEN RecordTransition(phase[p].state, "failed") ELSE phase[p].state
<1>1. phase \in [Phases -> PhaseRecord] /\ phase[p].state \in PhaseState
  BY DEF TypeOK, PhaseRecord
<1>2. StateTurns(phase[p].state, s)
  BY <1>1, RunTurns DEF StateTurns
<1>3. s \notin InFlight
  BY <1>1, FailedEnds DEF RetainsCommitAuthority
<1>4. phase' = [phase EXCEPT ![p].state = s, ![p].failure = f]
  BY DEF FailPhase
<1>5. /\ artifact' = RevokePhaseOutputs(artifact, {<<p, phase[p].gen>>})
      /\ held' = held \ {phase[p].lease}
      /\ nextId' = nextId
  BY DEF FailPhase
<1> HIDE DEF s
<1>6. Updated(p, s, f, phase[p].inv, phase[p].outputs)
  BY <1>1, <1>4, UpdateFailure
<1> QED
  BY <1>2, <1>3, <1>5, <1>6, EndQuiet

\* retire_session retires every phase.
LEMMA RetireKind ==
  ASSUME TypeOK, RetireSession
  PROVE  Retires
<1>1. \A p \in Phases : phase[p] \in PhaseRecord /\ phase[p].state \in PhaseState
  BY DEF TypeOK, PhaseRecord
<1>2. /\ phase' = [p \in Phases |-> [phase[p] EXCEPT !.state = RecordTransition(@, "retired")]]
      /\ held' \subseteq held
      /\ UNCHANGED <<artifact, nextId>>
  BY DEF RetireSession
<1>3. session' = [session EXCEPT !.state = "retired"] /\ session \in Session
  BY DEF RetireSession, TypeOK
<1>4. session'.state = "retired"
  BY <1>3 DEF Session
<1>5. \A p \in Phases : phase'[p] = [phase[p] EXCEPT !.state = "retired"]
  BY <1>1, <1>2, AllRetire
<1>6. ASSUME NEW p \in Phases
      PROVE  /\ phase'[p].state = "retired" /\ phase'[p].failure = phase[p].failure
             /\ phase'[p].gen = phase[p].gen /\ phase'[p].commit = phase[p].commit
             /\ phase'[p].inputs = phase[p].inputs /\ phase'[p].lease = phase[p].lease
             /\ phase'[p].outputs = phase[p].outputs
  BY <1>1, <1>5 DEF PhaseRecord
<1> QED
  BY <1>2, <1>4, <1>6 DEF Retires

\* shutdown fences what is in flight.
LEMMA ShutdownKind ==
  ASSUME TypeOK, NEW t \in Threads, Shutdown(t)
  PROVE  Quiet /\ Calm
<1>1. CASE Finished
  BY <1>1, StillQuiet DEF Shutdown
<1>2. CASE ~Finished
  <2>1. phase \in [Phases -> PhaseRecord] /\ artifact \in Seq(Artifact)
    BY DEF TypeOK
  <2>2. /\ phase' = Fenced(phase) /\ artifact' = FencedOutputs(artifact, phase)
        /\ held' = held \ {phase[p].lease : p \in {q \in Phases : phase[q].state \in InFlight}}
        /\ nextId' = nextId
    BY <1>2 DEF Shutdown
  <2>3. \A p \in Phases :
          /\ phase[p].state \in InFlight => phase'[p].state = "fenced"
          /\ phase[p].state \notin InFlight => phase'[p] = phase[p]
          /\ Turns(phase[p], phase'[p]) /\ phase'[p].outputs = phase[p].outputs
    BY <2>1, <2>2, FencedFacts
  <2>4. /\ DOMAIN artifact' = DOMAIN artifact
        /\ \A a \in DOMAIN artifact :
             /\ artifact'[a].phase = artifact[a].phase /\ artifact'[a].gen = artifact[a].gen
             /\ IF phase[artifact[a].phase].state \in InFlight /\ phase[artifact[a].phase].gen = artifact[a].gen
                THEN artifact'[a].authority = "revoked" ELSE artifact'[a] = artifact[a]
    BY <2>1, <2>2, FencedFacts, SMT
  <2>5. \A a \in DOMAIN artifact : artifact[a].phase \in Phases
    BY <2>1, ArtifactAt DEF Artifact
  <2>6. ArtifactsFade
    BY <2>3, <2>4, <2>5 DEF ArtifactsFade, InFlight
  <2>7. LeasesDrop
    BY <2>2, <2>3 DEF LeasesDrop, InFlight
  <2>8. Calm
    BY <2>2, <2>3, <2>4, <2>5 DEF Calm, Steady, Untouched, Turns, InFlight
  <2> QED
    BY <2>3, <2>6, <2>7, <2>8 DEF Quiet, PhasesTurn, OutputsSame
<1> QED
  BY <1>1, <1>2

\* apply_recovery starts again what was in flight and retires what was fenced.
LEMMA RecoveryTurns ==
  ASSUME NEW r \in PhaseRecord
  PROVE  /\ Turns(r, Recovered(r)) /\ Recovered(r).outputs = r.outputs
         /\ Recovered(r).state = "fenced" => r.state = "fenced"
         /\ Recovered(r).state \notin InFlight
<1>1. CASE r.state \in {"committed", "failed", "cancelled", "retired"}
  <2>1. Recovered(r) = r
    BY <1>1 DEF Recovered
  <2> QED
    BY <1>1, <2>1 DEF Turns, StateTurns, InFlight
<1>2. CASE r.state \notin {"committed", "failed", "cancelled", "retired"}
  <2> DEFINE ready == RecordTransition(r.state, "ready")
             st == IF r.state \in RetainsCommitAuthority THEN ready
                   ELSE IF r.state = "fenced" THEN "retired" ELSE r.state
             x == Recovered(r)
  <2>1. x = [r EXCEPT !.state = st, !.failure = "none"]
    BY <1>2 DEF Recovered
  <2>2. ready \in {r.state, "ready"}
    BY TransitionResult
  <2>3. r.state \in InFlight => ready = "ready"
    BY InFlightEnds
  <2> HIDE DEF ready
  <2>4. StateTurns(r.state, st) /\ (st = "fenced" => r.state = "fenced") /\ st \notin InFlight
    BY <1>2, <2>2, <2>3 DEF StateTurns, RetainsCommitAuthority, InFlight
  <2> HIDE DEF st, x
  <2>5. /\ x.state = st /\ x.failure = "none" /\ x.gen = r.gen /\ x.commit = r.commit
        /\ x.inputs = r.inputs /\ x.lease = r.lease /\ x.outputs = r.outputs
    BY <2>1 DEF PhaseRecord
  <2>6. Turns(r, x) /\ x.outputs = r.outputs /\ (x.state = "fenced" => r.state = "fenced")
        /\ x.state \notin InFlight
    BY <2>4, <2>5 DEF Turns
  <2> QED
    BY <2>6 DEF x
<1> QED
  BY <1>1, <1>2

\* apply_recovery fences what was in flight and grants nothing: its step is quiet and calm.
LEMMA RecoverKind ==
  ASSUME TypeOK, CommitInv, AuthorityInv, NEW t \in Threads, ApplyRecovery(t)
  PROVE  Quiet /\ Calm
<1>1. \A p \in Phases : phase[p] \in PhaseRecord
  BY DEF TypeOK
<1>2. phase' = phase \/ phase' = [p \in Phases |-> Recovered(phase[p])]
  BY DEF ApplyRecovery
<1>3. UNCHANGED <<held, nextId>>
  BY DEF ApplyRecovery
<1>4. \A p \in Phases : /\ Turns(phase[p], phase'[p]) /\ phase'[p].outputs = phase[p].outputs
                        /\ phase'[p].state = "fenced" => phase[p].state = "fenced"
                        /\ Steady(p)
  <2>1. CASE phase' = phase
    BY <2>1 DEF Turns, StateTurns, Steady
  <2>2. CASE phase' = [p \in Phases |-> Recovered(phase[p])]
    BY <1>1, <2>2, RecoveryTurns DEF Steady, Turns
  <2> QED
    BY <1>2, <2>1, <2>2
<1>5. PhasesTurn /\ OutputsSame
  BY <1>4 DEF PhasesTurn, OutputsSame
<1>6. PICK bad \in SUBSET thread[t].suspects : artifact' = Revalidate(artifact, bad)
  BY DEF ApplyRecovery
<1>7. \A a \in bad : phase[artifact[a].phase].commit
  BY <1>6 DEF AuthorityInv, SuspectsCommitted, ApplyRecovery
<1>8. Sound(phase)
  BY DEF CommitInv
<1>9. ArtifactsFade /\ Untouched
  BY <1>4, <1>5, <1>6, <1>7, <1>8, RecoverFade
<1>10. LeasesDrop
  BY <1>3 DEF LeasesDrop
<1> QED
  BY <1>3, <1>4, <1>5, <1>9, <1>10 DEF Quiet, Calm

\* reserve starts a phase that is at rest.
LEMMA ReserveKind ==
  ASSUME TypeOK, NEW t \in Threads, NEW p \in Phases, NEW isRetry \in BOOLEAN,
         NEW driver \in BOOLEAN, Reserve(t, p, isRetry, driver)
  PROVE  Reserves(p)
<1>1. phase \in [Phases -> PhaseRecord]
  BY DEF TypeOK
<1>2. phase[p].state \in {"failed", "recovery_required", "pending", "ready"} /\ Ready(p)
  BY DEF Reserve, CanReserve
<1>3. /\ \A q \in Phases : q # p => phase'[q] = phase[q]
      /\ phase'[p].state = "preparing" /\ phase'[p].gen = phase[p].gen + 1
      /\ phase'[p].inv = nextId /\ phase'[p].lease = nextId /\ phase'[p].failure = "none"
      /\ phase'[p].inputs = InputsOf(p) /\ phase'[p].outputs = {} /\ phase'[p].commit = FALSE
  BY <1>1 DEF Reserve
<1>4. artifact' = artifact /\ held' = held \cup {nextId} /\ nextId' = nextId + 1
  BY DEF Reserve
<1> QED
  BY <1>2, <1>3, <1>4 DEF Reserves, InFlight

\* The driver, cancellation, shutdown and recovery steps of a call.
LEMMA DriverKind ==
  ASSUME TypeOK, CommitInv, AuthorityInv, NEW t \in Threads,
         \/ ReserveRefused(t) \/ Drive(t) \/ Report(t) \/ Halt(t) \/ CancelNext(t) \/ CancelDone(t)
         \/ ShutdownSave(t) \/ ApplyRecovery(t)
  PROVE  Quiet /\ Calm
<1>1. CASE ReserveRefused(t) \/ Drive(t) \/ Report(t) \/ Halt(t) \/ CancelDone(t) \/ ShutdownSave(t)
  <2>1. UNCHANGED <<phase, artifact, held, nextId>>
    BY ZenonT(60), <1>1 DEF ReserveRefused, Drive, Report, Halt, CancelDone, ShutdownSave
  <2> QED
    BY <2>1, StillQuiet
<1>2. CASE CancelNext(t)
  <2>1. Order[thread[t].step] \in Phases
    BY SMTT(30), <1>2, ConstantsAssumption, ElementOfSeq, LenProperties DEF CancelNext
  <2> QED
    BY SMTT(30), <1>2, <2>1, CancelKind, StillQuiet DEF CancelNext
<1>3. CASE ApplyRecovery(t)
  BY <1>3, RecoverKind
<1> QED
  BY <1>1, <1>2, <1>3

\* The calls and operations other than a reservation, retirement and a restart.
LEMMA OperationKind ==
  ASSUME TypeOK,
         \/ \E t \in Threads :
              \/ \E p \in Phases : RetryPhase(t, p) \/ CommitPhase(t, p)
              \/ RunSession(t) \/ CancelSession(t) \/ Shutdown(t) \/ PlanRecovery(t)
         \/ \E p \in Phases : ReportOutput(p) \/ CancelPhase(p) \/ \E f \in Failures : FailPhase(p, f)
         \/ Reopen
         \/ \E d \in Domains : MoveGeneration(d)
  PROVE  (Quiet /\ Calm) \/ \E p \in Phases : (Quiet \/ Produces(p)) /\ ReportOutput(p)
<1>1. ASSUME NEW t \in Threads,
             \/ \E p \in Phases : RetryPhase(t, p) \/ CommitPhase(t, p)
             \/ RunSession(t) \/ CancelSession(t) \/ PlanRecovery(t)
      PROVE  Quiet /\ Calm
  <2>1. UNCHANGED <<phase, artifact, held, nextId>>
    BY ZenonT(60), <1>1 DEF RetryPhase, CommitPhase, RunSession, CancelSession, PlanRecovery
  <2> QED
    BY <2>1, StillQuiet
<1>2. CASE Reopen \/ \E d \in Domains : MoveGeneration(d)
  BY <1>2, StillQuiet DEF Reopen, MoveGeneration
<1>3. ASSUME NEW t \in Threads, Shutdown(t)
      PROVE  Quiet /\ Calm
  BY <1>3, ShutdownKind
<1>4. ASSUME NEW p \in Phases, ReportOutput(p)
      PROVE  Quiet \/ Produces(p)
  BY <1>4, RecordKind, StoppedKind DEF ReportOutput
<1>5. ASSUME NEW p \in Phases, CancelPhase(p)
      PROVE  Quiet /\ Calm
  BY <1>5, CancelKind DEF CancelPhase
<1>6. ASSUME NEW p \in Phases, NEW f \in Failures, FailPhase(p, f)
      PROVE  Quiet /\ Calm
  BY <1>6, FailKind
<1> QED
  BY <1>1, <1>2, <1>3, <1>4, <1>5, <1>6

\* Every step is of one of the kinds, or a restart.
LEMMA StepKind ==
  ASSUME TypeOK, CommitInv, AuthorityInv, [Next]_vars
  PROVE  \/ Quiet \/ Retires \/ Restart
         \/ \E p \in Phases : Produces(p) \/ Reserves(p)
         \/ \E t \in Threads : Discards(t) \/ (CommitPublished(t) /\ Publishes(thread[t].phase))
<1>1. ASSUME NEW t \in Threads, Step(t)
      PROVE  \/ Quiet
             \/ \E p \in Phases : Produces(p) \/ Reserves(p)
             \/ Discards(t) \/ (CommitPublished(t) /\ Publishes(thread[t].phase))
  <2>1. thread[t].phase \in Phases
    BY CallType
  <2>2. OwnOutputs(phase, artifact)
    BY DEF AuthorityInv, Coherent
  <2>3. CASE ReserveDecided(t)
    BY <2>3, ReserveKind, CallType DEF ReserveDecided
  <2>4. CASE Launch(t) \/ Record(t) \/ Check(t) \/ Reproduce(t) \/ Validate(t)
    BY <2>1, <2>2, <2>4, RunKind
  <2>5. CASE \/ CommitRefused(t) \/ CommitUnprobed(t) \/ CommitFenced(t)
             \/ CommitUngranted(t) \/ CommitPublished(t) \/ CommitUnpersisted(t)
    BY <2>1, <2>5, CommitKind
  <2>6. CASE \/ ReserveRefused(t) \/ Drive(t) \/ Report(t) \/ Halt(t) \/ CancelNext(t)
             \/ CancelDone(t) \/ ShutdownSave(t) \/ ApplyRecovery(t)
    BY <2>6, DriverKind
  <2> QED
    BY <1>1, <2>3, <2>4, <2>5, <2>6 DEF Step
<1>2. ASSUME NEW t \in Threads, NEW p \in Phases, RunPhase(t, p)
      PROVE  Reserves(p)
  BY ZenonT(60), <1>2, ReserveKind DEF RunPhase
<1>3. CASE \/ \E t \in Threads :
                \/ \E p \in Phases : RetryPhase(t, p) \/ CommitPhase(t, p)
                \/ RunSession(t) \/ CancelSession(t) \/ Shutdown(t) \/ PlanRecovery(t)
           \/ \E p \in Phases : ReportOutput(p) \/ CancelPhase(p) \/ \E f \in Failures : FailPhase(p, f)
           \/ Reopen
           \/ \E d \in Domains : MoveGeneration(d)
  BY <1>3, OperationKind
<1>4. CASE RetireSession
  BY <1>4, RetireKind
<1>5. CASE UNCHANGED vars
  BY <1>5, StillQuiet DEF vars
<1> QED
  BY <1>1, <1>2, <1>3, <1>4, <1>5 DEF Next

\* The same, with what a discarded commit leaves behind.
LEMMA StepEffect ==
  ASSUME TypeOK, CommitInv, AuthorityInv, [Next]_vars
  PROVE  \/ Quiet \/ Retires \/ Restart
         \/ \E p \in Phases : \/ Produces(p) \/ Reserves(p) \/ Publishes(p)
                              \/ Grants(p) /\ UNCHANGED <<phase, held>>
<1>1. \A t \in Threads : thread[t].phase \in Phases
  BY CallType
<1>2. \A t \in Threads : Discards(t) => Grants(thread[t].phase) /\ UNCHANGED <<phase, held>>
  BY DEF Discards
<1> QED
  BY <1>1, <1>2, StepKind

-----------------------------------------------------------------------------
(* What a step does to the session, the journal and the calls.              *)

\* The session does not become committed and keeps its candidate; only a legal
\* retry is counted.
SessionTurns ==
  /\ session'.candidate = session.candidate
  /\ session'.state = "committed" => session.state = "committed"
  /\ session'.retries # session.retries =>
       /\ session'.retries = session.retries + 1
       /\ \E p \in Phases : RetryLegal(phase[p].state, phase[p].failure, phase[p].attempts,
                                       session.retries, MaxRetriesPerPhase, MaxRetriesPerSession)

\* A session that is left alone or only changes its state,
LEMMA SessionMoves ==
  ASSUME TypeOK,
         \/ session' = session
         \/ \E st \in SessionState \ {"committed"} : session' = [session EXCEPT !.state = st]
  PROVE  SessionTurns
<1>1. session \in Session
  BY DEF TypeOK
<1> QED
  BY <1>1 DEF SessionTurns, Session

\* and one that counts a retry.
LEMMA RetryMoves ==
  ASSUME TypeOK, NEW t \in Threads, NEW p \in Phases, RetryPhase(t, p)
  PROVE  SessionTurns
<1>1. session \in Session /\ session' = [session EXCEPT !.retries = @ + 1]
  BY DEF TypeOK, RetryPhase
<1>2. /\ session'.retries = session.retries + 1 /\ session'.state = session.state
      /\ session'.candidate = session.candidate
  BY <1>1 DEF Session
<1>3. RetryLegal(phase[p].state, phase[p].failure, phase[p].attempts,
                 session.retries, MaxRetriesPerPhase, MaxRetriesPerSession)
  BY DEF RetryPhase
<1> QED
  BY <1>2, <1>3 DEF SessionTurns

\* Only a published commit or a restart does anything else to the session.
LEMMA SessionStep ==
  ASSUME TypeOK, [Next]_vars
  PROVE  SessionTurns \/ Restart \/ \E p \in Phases : Publishes(p)
<1>1. {"active", "failed", "cancelled", "recovering", "retired"} \subseteq SessionState \ {"committed"}
  BY DEF SessionState
<1>2. ASSUME NEW t \in Threads, Step(t)
      PROVE  SessionTurns \/ \E p \in Phases : Publishes(p)
  <2>1. CASE CommitPublished(t)
    BY <2>1, CommitKind, CallType
  <2>2. CASE \/ ReserveDecided(t) \/ ReserveRefused(t) \/ Launch(t) \/ Record(t) \/ Check(t)
             \/ Reproduce(t) \/ Validate(t) \/ CommitRefused(t) \/ CommitUnprobed(t) \/ CommitFenced(t)
             \/ CommitUngranted(t) \/ CommitUnpersisted(t) \/ Report(t) \/ CancelNext(t)
    <3>1. session' = session
      BY ZenonT(60), <2>2
         DEF ReserveDecided, Reserve, ReserveRefused, Launch, Record, RecordExecution, RecordStopped, Check,
             Reproduce, Validate, CommitRefused, CommitUnprobed, CommitFenced, CommitUngranted,
             CommitUnpersisted, Report, CancelNext, CancelPhaseBody
    <3> QED
      BY <3>1, SessionMoves
  <2>3. CASE Drive(t)
    <3>1. \E st \in {"active", "failed"} : session' = [session EXCEPT !.state = st]
      BY ZenonT(60), <2>3 DEF Drive
    <3> QED
      BY <1>1, <3>1, SessionMoves
  <2>4. CASE Halt(t)
    <3>1. session' = session \/ session' = [session EXCEPT !.state = "failed"]
      BY <2>4 DEF Halt
    <3> QED
      BY <1>1, <3>1, SessionMoves
  <2>5. CASE CancelDone(t)
    <3>1. session' = [session EXCEPT !.state = "cancelled"]
      BY <2>5 DEF CancelDone
    <3> QED
      BY <1>1, <3>1, SessionMoves
  <2>6. CASE ShutdownSave(t)
    <3>1. session' = session \/ session' = [session EXCEPT !.state = "failed"]
      BY <2>6 DEF ShutdownSave, TypeOK, Session
    <3> QED
      BY <1>1, <3>1, SessionMoves
  <2>7. CASE ApplyRecovery(t)
    <3>1. \/ session' = session
          \/ \E st \in {"active", "recovering"} : session' = [session EXCEPT !.state = st]
      BY <2>7 DEF ApplyRecovery
    <3> QED
      BY <1>1, <3>1, SessionMoves
  <2> QED
    BY <1>2, <2>1, <2>2, <2>3, <2>4, <2>5, <2>6, <2>7 DEF Step
<1>3. ASSUME NEW t \in Threads, NEW p \in Phases, RetryPhase(t, p)
      PROVE  SessionTurns
  BY <1>3, RetryMoves
<1>4. CASE RetireSession
  <2>1. session' = [session EXCEPT !.state = "retired"]
    BY <1>4 DEF RetireSession
  <2> QED
    BY <1>1, <2>1, SessionMoves
<1>5. CASE \/ \E t \in Threads :
                \/ \E p \in Phases : RunPhase(t, p) \/ CommitPhase(t, p)
                \/ RunSession(t) \/ CancelSession(t) \/ Shutdown(t) \/ PlanRecovery(t)
           \/ \E p \in Phases : ReportOutput(p) \/ CancelPhase(p) \/ \E f \in Failures : FailPhase(p, f)
           \/ Reopen
           \/ \E d \in Domains : MoveGeneration(d)
           \/ UNCHANGED vars
  <2>1. session' = session
    BY ZenonT(60), <1>5
       DEF RunPhase, Reserve, CommitPhase, RunSession, CancelSession, Shutdown, PlanRecovery, ReportOutput,
           RecordExecution, RecordStopped, CancelPhase, CancelPhaseBody, FailPhase, Reopen,
           MoveGeneration, vars
  <2> QED
    BY <2>1, SessionMoves
<1> QED
  BY <1>2, <1>3, <1>4, <1>5 DEF Next

\* The journal reports an error for the commit of p and keeps it.
Saves(p) ==
  /\ Faults
  /\ Grants(p)
  /\ UNCHANGED <<session, phase, held>>
  /\ durable'.session = CommittedSession(p)
  /\ durable'.phase = CommittedPhases(p)
  /\ durable'.artifact = artifact'

\* Otherwise the journal holds what it held or what is in memory.
LEMMA JournalStep ==
  ASSUME TypeOK, [Next]_vars
  PROVE  durable' \in {durable, Bundle'} \/ \E p \in Phases : Saves(p)
<1>1. ASSUME NEW t \in Threads, Step(t)
      PROVE  durable' \in {durable, Bundle'} \/ \E p \in Phases : Saves(p)
  <2>1. CASE ReserveDecided(t)
    BY <2>1, PersistChoice DEF ReserveDecided, Reserve
  <2>2. CASE CommitPublished(t)
    BY <2>2 DEF CommitPublished
  <2>3. CASE CommitUnpersisted(t)
    <3> DEFINE p == thread[t].phase
               saved == [session  |-> CommittedSession(p), phase    |-> CommittedPhases(p),
                         artifact |-> artifact',          registry |-> registry']
    <3>1. durable' \in {durable, saved} /\ session' = session /\ Faults
      BY Zenon, <2>3 DEF CommitUnpersisted
    <3>2. p \in Phases /\ Grants(p) /\ UNCHANGED <<phase, held>>
      BY <2>3, CallType, CommitKind DEF Discards
    <3>3. saved.session = CommittedSession(p) /\ saved.phase = CommittedPhases(p) /\ saved.artifact = artifact'
      OBVIOUS
    <3> HIDE DEF saved, p
    <3> QED
      BY <3>1, <3>2, <3>3 DEF Saves
  <2>4. CASE Launch(t) \/ Record(t) \/ Check(t) \/ Reproduce(t) \/ Validate(t)
    BY <2>4, RunMoves
  <2>5. CASE CommitRefused(t) \/ CommitUnprobed(t) \/ CommitFenced(t) \/ CommitUngranted(t)
    BY <2>5, NoCommitMoves
  <2>6. CASE \/ ReserveRefused(t) \/ Drive(t) \/ Report(t) \/ Halt(t) \/ CancelNext(t)
             \/ CancelDone(t) \/ ShutdownSave(t) \/ ApplyRecovery(t)
    BY <2>6, DriverMoves
  <2> QED
    BY <1>1, <2>1, <2>2, <2>3, <2>4, <2>5, <2>6 DEF Step
<1>2. ASSUME NEW t \in Threads, NEW p \in Phases, RunPhase(t, p)
      PROVE  durable' \in {durable, Bundle'}
  BY ZenonT(60), <1>2, PersistChoice DEF RunPhase, Reserve
<1>3. CASE Restart
  BY <1>3 DEF Restart
<1>4. CASE \/ \E t \in Threads :
                \/ \E p \in Phases : RetryPhase(t, p) \/ CommitPhase(t, p)
                \/ RunSession(t) \/ CancelSession(t) \/ Shutdown(t) \/ PlanRecovery(t)
           \/ \E p \in Phases : ReportOutput(p) \/ CancelPhase(p) \/ \E f \in Failures : FailPhase(p, f)
           \/ RetireSession \/ Reopen
           \/ \E d \in Domains : MoveGeneration(d)
  BY <1>4, OperationMoves
<1>5. CASE UNCHANGED vars
  BY <1>5 DEF vars
<1> QED
  BY <1>1, <1>2, <1>3, <1>4, <1>5 DEF Next

\* The other callers' calls are left alone.
Elsewhere(t) == \A u \in Threads : u # t => thread'[u] = thread[u]

\* How a region moves its caller: on to another region,
LEMMA GotoFacts ==
  ASSUME TypeOK, NEW t \in Threads, NEW pc, Goto(t, pc)
  PROVE  /\ Elsewhere(t)
         /\ thread'[t].pc = pc /\ thread'[t].phase = thread[t].phase
         /\ thread'[t].gen = thread[t].gen /\ thread'[t].inv = thread[t].inv
         /\ thread'[t].suspects = thread[t].suspects
<1>1. thread \in [Threads -> Call]
  BY DEF TypeOK
<1>2. thread'[t] = [thread[t] EXCEPT !.pc = pc] /\ thread[t] \in Call
  BY <1>1 DEF Goto
<1>3. Elsewhere(t)
  BY <1>1 DEF Goto, Elsewhere
<1> QED
  BY <1>2, <1>3 DEF Call

\* out of the call,
LEMMA FailFacts ==
  ASSUME TypeOK, NEW t \in Threads, Fail(t)
  PROVE  Elsewhere(t) /\ thread'[t] = Idle /\ thread'[t].pc = "idle"
<1>1. thread \in [Threads -> Call]
  BY DEF TypeOK
<1>2. Elsewhere(t) /\ thread'[t] = Idle
  BY <1>1 DEF Fail, Elsewhere
<1> QED
  BY <1>2, SMT DEF Idle

\* or back to its driver.
LEMMA ReturnFacts ==
  ASSUME TypeOK, NEW t \in Threads, NEW pc, Return(t, pc)
  PROVE  Elsewhere(t) /\ thread'[t].pc \in {"idle", pc}
<1>1. thread \in [Threads -> Call]
  BY DEF TypeOK
<1>2. Elsewhere(t)
  BY <1>1 DEF Return, Elsewhere
<1> DEFINE ph == IF pc = "report" THEN thread[t].phase ELSE Idle.phase
           back == [Idle EXCEPT !.pc = pc, !.driver = TRUE, !.phase = ph]
<1>3. thread'[t] = IF thread[t].driver THEN back ELSE Idle
  BY <1>1 DEF Return
<1> HIDE DEF ph
<1>4. back.pc = pc /\ Idle.pc = "idle"
  BY DEF Idle
<1> HIDE DEF back
<1> QED
  BY <1>2, <1>3, <1>4

\* A caller that starts a region anew.
LEMMA StartFacts ==
  ASSUME TypeOK, NEW t \in Threads, NEW c, thread' = [thread EXCEPT ![t] = c]
  PROVE  Elsewhere(t) /\ thread'[t] = c
  BY DEF TypeOK, Elsewhere

\* reserve() hands its caller the reservation, unless the journal refused it.
LEMMA ReserveFacts ==
  ASSUME TypeOK, NEW t \in Threads, NEW p \in Phases, NEW isRetry \in BOOLEAN,
         NEW driver \in BOOLEAN, Reserve(t, p, isRetry, driver)
  PROVE  /\ Elsewhere(t)
         /\ \/ /\ thread'[t].pc = "launch" /\ thread'[t].phase = p
               /\ thread'[t].gen = phase[p].gen + 1 /\ thread'[t].inv = nextId
            \/ thread'[t].pc \in {"report", "idle"} /\ Faults
<1> DEFINE go == [Idle EXCEPT !.pc = "launch", !.phase = p, !.gen = phase[p].gen + 1,
                              !.inv = nextId, !.driver = driver]
           told == [Idle EXCEPT !.pc = "report", !.phase = p, !.driver = TRUE]
           back == IF driver THEN told ELSE Idle
<1>1. PICK ok \in BOOLEAN : Persist(ok) /\ thread' = [thread EXCEPT ![t] = IF ok THEN go ELSE back]
  BY Zenon DEF Reserve
<1>2. /\ go.pc = "launch" /\ go.phase = p /\ go.gen = phase[p].gen + 1 /\ go.inv = nextId
      /\ told.pc = "report" /\ Idle.pc = "idle"
  BY DEF Idle
<1> HIDE DEF go, told
<1>3. back.pc \in {"report", "idle"}
  BY <1>2
<1> HIDE DEF back
<1>4. Elsewhere(t) /\ thread'[t] = IF ok THEN go ELSE back
  BY <1>1, StartFacts
<1>5. ok \/ Faults
  BY <1>1 DEF Persist
<1> QED
  BY <1>2, <1>3, <1>4, <1>5

\* The operations of a single region are no steps of a call.
LEMMA SameCalls ==
  ASSUME \/ \E p \in Phases : ReportOutput(p) \/ CancelPhase(p) \/ \E f \in Failures : FailPhase(p, f)
         \/ RetireSession \/ Reopen
         \/ \E d \in Domains : MoveGeneration(d)
         \/ UNCHANGED vars
  PROVE  thread' = thread
  BY ZenonT(60) DEF ReportOutput, CancelPhase, FailPhase, RetireSession, Reopen, MoveGeneration, vars

\* A step of a call leaves the other calls alone, and only plan_recovery makes a
\* recovery plan.
LEMMA OneCall ==
  ASSUME TypeOK, NEW v \in Threads,
         \/ Step(v)
         \/ \E p \in Phases : RunPhase(v, p) \/ RetryPhase(v, p) \/ CommitPhase(v, p)
         \/ RunSession(v) \/ CancelSession(v) \/ Shutdown(v) \/ PlanRecovery(v)
  PROVE  Elsewhere(v) /\ (thread'[v].pc # "recover" \/ PlanRecovery(v))
<1> DEFINE Other(t) == Elsewhere(t) /\ thread'[t].pc # "recover"
<1>1. \A t \in Threads : \A pc : Goto(t, pc) /\ pc # "recover" => Other(t)
  BY GotoFacts
<1>2. \A t \in Threads : Fail(t) => Other(t)
  BY FailFacts
<1>3. \A t \in Threads : \A pc : Return(t, pc) /\ pc # "recover" => Other(t)
  BY ReturnFacts
<1>4. \A t \in Threads : \A c : thread' = [thread EXCEPT ![t] = c] /\ c.pc # "recover" => Other(t)
  BY StartFacts
<1>5. ASSUME NEW t \in Threads, Step(t)
      PROVE  Other(t)
  <2>1. CASE ReserveDecided(t)
    BY <2>1, ReserveFacts, CallType DEF ReserveDecided
  <2>2. CASE ReserveRefused(t) \/ Report(t)
    <3>1. \E pc \in {"report", "drive", "halt"} : Return(t, pc)
      BY <2>2 DEF ReserveRefused, Report
    <3> QED
      BY <1>3, <3>1
  <2>3. CASE \/ Launch(t) \/ Record(t) \/ Check(t) \/ Reproduce(t) \/ Validate(t)
             \/ CommitRefused(t) \/ CommitUnprobed(t) \/ CommitFenced(t)
             \/ CommitUngranted(t) \/ CommitPublished(t) \/ CommitUnpersisted(t)
    <3> DEFINE Ends == \/ Fail(t)
                       \/ \E pc \in {"execute", "abort", "check", "repro", "validate", "commit"} : Goto(t, pc)
                       \/ \E pc \in {"halt", "report", "drive"} : Return(t, pc)
    <3>a. ASSUME Launch(t)
          PROVE  Ends
      BY <3>a DEF Launch
    <3>b. ASSUME Record(t)
          PROVE  Ends
      BY <3>b DEF Record
    <3>c. ASSUME Check(t)
          PROVE  Ends
      BY <3>c DEF Check
    <3>d. ASSUME Reproduce(t)
          PROVE  Ends
      BY <3>d DEF Reproduce
    <3>e. ASSUME Validate(t)
          PROVE  Ends
      BY <3>e DEF Validate
    <3>f. ASSUME CommitRefused(t) \/ CommitUnprobed(t) \/ CommitUngranted(t) \/ CommitUnpersisted(t)
          PROVE  Ends
      BY <3>f DEF CommitRefused, CommitUnprobed, CommitUngranted, CommitUnpersisted
    <3>g. ASSUME CommitFenced(t) \/ CommitPublished(t)
          PROVE  Ends
      BY <3>g DEF CommitFenced, CommitPublished
    <3>1. Ends
      BY <2>3, <3>a, <3>b, <3>c, <3>d, <3>e, <3>f, <3>g
    <3> QED
      BY <1>1, <1>2, <1>3, <3>1
  <2>4. CASE Drive(t) \/ Halt(t) \/ CancelDone(t) \/ ShutdownSave(t) \/ ApplyRecovery(t)
    <3>1. \E c : thread' = [thread EXCEPT ![t] = c] /\ c.pc \in {"idle", "reserve"}
      <4>1. \A q : [Idle EXCEPT !.pc = "reserve", !.phase = q, !.driver = TRUE].pc = "reserve"
        BY DEF Idle
      <4>2. Idle.pc = "idle"
        BY DEF Idle
      <4>3. \/ thread' = [thread EXCEPT ![t] = Idle]
            \/ \E q : thread' = [thread EXCEPT ![t] =
                                   [Idle EXCEPT !.pc = "reserve", !.phase = q, !.driver = TRUE]]
        BY ZenonT(60), <2>4 DEF Drive, Halt, CancelDone, ShutdownSave, ApplyRecovery
      <4> QED
        BY ZenonT(60), <4>1, <4>2, <4>3
    <3> QED
      BY <1>4, <3>1
  <2>5. CASE CancelNext(t)
    <3>1. thread \in [Threads -> Call]
      BY DEF TypeOK
    <3>2. thread' = [thread EXCEPT ![t].step = @ + 1] /\ thread[t].pc = "cancelling"
      BY <2>5 DEF CancelNext
    <3>3. thread'[t] = [thread[t] EXCEPT !.step = @ + 1] /\ thread[t] \in Call
      BY <3>1, <3>2
    <3>4. thread'[t].pc = thread[t].pc
      BY <3>3 DEF Call
    <3> QED
      BY <3>1, <3>2, <3>4 DEF Elsewhere
  <2> QED
    BY <1>5, <2>1, <2>2, <2>3, <2>4, <2>5 DEF Step
<1>6. ASSUME NEW t \in Threads, NEW p \in Phases, RunPhase(t, p)
      PROVE  Other(t)
  BY ZenonT(60), <1>6, ReserveFacts DEF RunPhase
<1>7. ASSUME NEW t \in Threads,
             \/ \E p \in Phases : RetryPhase(t, p) \/ CommitPhase(t, p)
             \/ RunSession(t) \/ CancelSession(t) \/ Shutdown(t)
      PROVE  Other(t)
  <2>1. \A q : [Idle EXCEPT !.pc = "reserve", !.phase = q, !.retry = TRUE].pc = "reserve"
    BY DEF Idle
  <2>2. \A q, g, i : [Idle EXCEPT !.pc = "validate", !.phase = q, !.gen = g, !.inv = i].pc = "validate"
    BY DEF Idle
  <2>3. /\ [Idle EXCEPT !.pc = "drive", !.driver = TRUE].pc = "drive"
        /\ [Idle EXCEPT !.pc = "cancelling", !.step = 1].pc = "cancelling"
        /\ [Idle EXCEPT !.pc = "stopping"].pc = "stopping"
    BY DEF Idle
  <2>4. ASSUME NEW p \in Phases, RetryPhase(t, p)
        PROVE  Other(t)
    BY <1>4, <2>1, <2>4 DEF RetryPhase
  <2>5. ASSUME NEW p \in Phases, CommitPhase(t, p)
        PROVE  Other(t)
    BY <1>4, <2>2, <2>5 DEF CommitPhase
  <2>6. ASSUME RunSession(t) \/ CancelSession(t) \/ Shutdown(t)
        PROVE  Other(t)
    BY <1>4, <2>3, <2>6 DEF RunSession, CancelSession, Shutdown
  <2> QED
    BY <1>7, <2>4, <2>5, <2>6
<1>8. ASSUME NEW t \in Threads, PlanRecovery(t)
      PROVE  Elsewhere(t)
  BY <1>8, StartFacts DEF PlanRecovery
<1> QED
  BY <1>5, <1>6, <1>7, <1>8

\* So a plan is an old one or has just been made.
LEMMA PlanStep ==
  ASSUME TypeOK, [Next]_vars, NEW u \in Threads, thread'[u].pc = "recover"
  PROVE  (thread'[u] = thread[u] \/ PlanRecovery(u)) /\ ~Restart
<1>1. ~Restart
  BY SMT DEF Restart, Idle
<1>2. CASE \/ \E p \in Phases : ReportOutput(p) \/ CancelPhase(p) \/ \E f \in Failures : FailPhase(p, f)
           \/ RetireSession \/ Reopen
           \/ \E d \in Domains : MoveGeneration(d)
           \/ UNCHANGED vars
  <2>1. thread' = thread
    BY <1>2, SameCalls
  <2> QED
    BY <1>1, <2>1
<1>3. ASSUME NEW t \in Threads,
             \/ Step(t)
             \/ \E p \in Phases : RunPhase(t, p) \/ RetryPhase(t, p) \/ CommitPhase(t, p)
             \/ RunSession(t) \/ CancelSession(t) \/ Shutdown(t) \/ PlanRecovery(t)
      PROVE  thread'[u] = thread[u] \/ PlanRecovery(u)
  <2>1. Elsewhere(t) /\ (thread'[t].pc # "recover" \/ PlanRecovery(t))
    BY <1>3, OneCall
  <2> QED
    BY <2>1 DEF Elsewhere
<1> QED
  BY <1>1, <1>2, <1>3 DEF Next

-----------------------------------------------------------------------------
(* What a step does to each artifact, and a commit to each phase.            *)

\* A step that registers an output of p,
LEMMA RegisterStep ==
  ASSUME artifact \in Seq(Artifact), NEW p \in Phases, NEW g \in Nat,
         artifact' = Register(artifact, p, g)
  PROVE  /\ Len(artifact) + 1 \notin DOMAIN artifact
         /\ DOMAIN artifact' = DOMAIN artifact \cup {Len(artifact) + 1}
         /\ \A a \in DOMAIN artifact : artifact'[a] = artifact[a]
         /\ artifact'[Len(artifact) + 1].phase = p /\ artifact'[Len(artifact) + 1].gen = g
         /\ artifact'[Len(artifact) + 1].authority = "none"
<1> DEFINE b == Register(artifact, p, g)
           n == Len(artifact) + 1
<1>1. /\ n \notin DOMAIN artifact
      /\ DOMAIN b = DOMAIN artifact \cup {n}
      /\ \A i \in DOMAIN artifact : b[i] = artifact[i]
      /\ b[n].phase = p /\ b[n].gen = g /\ b[n].authority = "none" /\ ~b[n].vouched
  BY Zenon, RegisterFacts
<1>2. artifact' = b
  OBVIOUS
<1> HIDE DEF b, n
<1>3. /\ n \notin DOMAIN artifact
      /\ DOMAIN artifact' = DOMAIN artifact \cup {n}
      /\ \A i \in DOMAIN artifact : artifact'[i] = artifact[i]
      /\ artifact'[n].phase = p /\ artifact'[n].gen = g /\ artifact'[n].authority = "none"
  BY Zenon, <1>1, <1>2
<1> QED
  BY Zenon, <1>3 DEF n

\* and one that grants authority.
LEMMA GrantStep ==
  ASSUME artifact \in Seq(Artifact), NEW ids, artifact' = GrantAuthority(artifact, ids)
  PROVE  /\ DOMAIN artifact' = DOMAIN artifact
         /\ \A a \in DOMAIN artifact :
              /\ artifact'[a].phase = artifact[a].phase /\ artifact'[a].gen = artifact[a].gen
              /\ artifact'[a].state = artifact[a].state /\ artifact'[a].vouched = artifact[a].vouched
              /\ artifact'[a].authority = artifact[a].authority
                   \/ (a \in ids /\ artifact'[a].authority = "authoritative")
<1> DEFINE G == Grantable(artifact, ids)
           b == GrantAuthority(artifact, ids)
<1>1. /\ DOMAIN b = DOMAIN artifact
      /\ \A a \in DOMAIN artifact :
           /\ b[a].phase = artifact[a].phase /\ b[a].gen = artifact[a].gen
           /\ b[a].state = artifact[a].state /\ b[a].vouched = artifact[a].vouched
           /\ a \in G => b[a].authority = "authoritative"
           /\ ~(a \in G) => b[a].authority = artifact[a].authority
      /\ G \subseteq ids
  BY Zenon, GrantFacts
<1> HIDE DEF G
<1>2. \A a \in DOMAIN artifact :
        b[a].authority = artifact[a].authority \/ (a \in ids /\ b[a].authority = "authoritative")
  BY Zenon, <1>1
<1> QED
  BY Zenon, <1>1, <1>2

\* The committed projection of p.
LEMMA ProjectionFacts ==
  ASSUME TypeOK, NEW p \in Phases, phase[p].state = "commit_ready"
  PROVE  LET ph == CommittedPhases(p) IN
         /\ \A q \in Phases : q # p => ph[q] = phase[q]
         /\ ph[p].state = "committed" /\ ph[p].commit /\ ph[p].gen = phase[p].gen
         /\ ph[p].inputs = phase[p].inputs /\ ph[p].outputs = phase[p].outputs
         /\ ph[p].lease = phase[p].lease /\ ph[p].failure = phase[p].failure
<1>1. phase \in [Phases -> PhaseRecord]
  BY DEF TypeOK
<1>2. RecordTransition(phase[p].state, "committed") = "committed"
  BY DEF RecordTransition, IsLegal
<1>3. CommittedPhases(p) = [phase EXCEPT ![p].state = "committed", ![p].commit = TRUE]
  BY <1>2 DEF CommittedPhases
<1>4. /\ \A q \in Phases : q # p => CommittedPhases(p)[q] = phase[q]
      /\ CommittedPhases(p)[p] = [phase[p] EXCEPT !.state = "committed", !.commit = TRUE]
  BY ZenonT(60), <1>1, <1>3
<1>5. phase[p] \in PhaseRecord
  BY <1>1
<1> DEFINE ph == CommittedPhases(p)
<1> HIDE DEF ph
<1>6. /\ \A q \in Phases : q # p => ph[q] = phase[q]
      /\ ph[p] = [phase[p] EXCEPT !.state = "committed", !.commit = TRUE]
  BY <1>4 DEF ph
<1>7. /\ ph[p].state = "committed" /\ ph[p].commit /\ ph[p].gen = phase[p].gen
      /\ ph[p].inputs = phase[p].inputs /\ ph[p].outputs = phase[p].outputs
      /\ ph[p].lease = phase[p].lease /\ ph[p].failure = phase[p].failure
  BY <1>5, <1>6 DEF PhaseRecord
<1> QED
  BY <1>6, <1>7 DEF ph
=============================================================================
