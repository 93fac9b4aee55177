--------------------------- MODULE AuthorityProofs ---------------------------
(***************************************************************************)
(* Authority, inputs, sessions, leases and retries of the runtime, and whose *)
(* authority and a phase in flight are: the inductive invariants and the     *)
(* theorems that rest on them.                                               *)
(***************************************************************************)
EXTENDS CallProofs

\* Most leaves are first-order and go to Zenon; one that needs arithmetic or
\* typed records cites SMT.
USE Zenon

-----------------------------------------------------------------------------
(* Each kind of step keeps phases and registry coherent.                    *)

\* What ArtifactsFade says of a step, said of any two states of the phases and
\* the registry: a restart goes from those in the journal to those in memory.
Fades(ph, arts, ph2, arts2) ==
  /\ DOMAIN arts2 = DOMAIN arts
  /\ \A a \in DOMAIN arts :
       /\ arts2[a].phase = arts[a].phase
       /\ arts2[a].gen = arts[a].gen
       /\ arts2[a].authority \in {arts[a].authority, "revoked"}
       /\ arts2[a].authority # arts[a].authority => ph2[arts[a].phase].state \notin InFlight
       /\ /\ ph2[arts[a].phase].state = "fenced"
          /\ ph[arts[a].phase].state # "fenced"
          /\ ph[arts[a].phase].gen = arts[a].gen
          => arts2[a].authority # "authoritative"

\* A quiet step, or a restart.
LEMMA FadeKeeps ==
  ASSUME NEW ph, NEW arts, NEW ph2, NEW arts2, Coherent(ph, arts), Fades(ph, arts, ph2, arts2),
         \A a \in DOMAIN arts : arts[a].phase \in Phases,
         \A p \in Phases : Turns(ph[p], ph2[p]) /\ ph2[p].outputs = ph[p].outputs
  PROVE  Coherent(ph2, arts2)
<1>1. \A p \in Phases :
        /\ ph2[p].gen = ph[p].gen /\ ph2[p].commit = ph[p].commit /\ ph2[p].inputs = ph[p].inputs
        /\ ph2[p].outputs = ph[p].outputs
        /\ ph2[p].state = "committed" => ph[p].state = "committed"
        /\ ph2[p].state \in InFlight => ph[p].state \in InFlight
  BY DEF Turns, StateTurns
<1>2. OwnOutputs(ph2, arts2)
  BY <1>1, SMT DEF Coherent, OwnOutputs, Fades
<1>3. GoodInputs(ph2, arts2)
  <2> SUFFICES ASSUME NEW p \in Phases, ph2[p].state \in InFlight \cup {"committed"},
                      NEW a \in ph2[p].inputs
               PROVE  /\ a \in DOMAIN arts2 /\ arts2[a].phase \in Deps[p]
                      /\ arts2[a].gen = ph2[arts2[a].phase].gen /\ ph2[arts2[a].phase].commit
    BY DEF GoodInputs
  <2>1. ph[p].state \in InFlight \cup {"committed"} /\ a \in ph[p].inputs
    BY <1>1
  <2>2. /\ a \in DOMAIN arts /\ arts[a].phase \in Deps[p]
        /\ arts[a].gen = ph[arts[a].phase].gen /\ ph[arts[a].phase].commit
    BY <2>1 DEF Coherent, GoodInputs
  <2> QED
    BY <1>1, <2>2, SMT DEF Fades
<1>4. FenceHolds(ph2, arts2)
  BY <1>1, SMT DEF Coherent, FenceHolds, Fades
<1>5. NotRevoked(ph2, arts2)
  <2> SUFFICES ASSUME NEW p \in Phases, ph2[p].state \in InFlight, NEW a \in ph2[p].outputs
               PROVE  arts2[a].authority # "revoked"
    BY DEF NotRevoked
  <2>1. a \in ph[p].outputs /\ ph[p].state \in InFlight
    BY <1>1
  <2>2. a \in DOMAIN arts /\ arts[a].phase = p /\ arts[a].authority # "revoked"
    BY <2>1 DEF Coherent, OwnOutputs, NotRevoked
  <2> QED
    BY <2>2 DEF Fades
<1> QED
  BY <1>2, <1>3, <1>4, <1>5 DEF Coherent

\* A quiet step keeps the records of the phases and of their artifacts in agreement.
LEMMA QuietKeeps ==
  ASSUME TypeOK, Coherent(phase, artifact), Quiet
  PROVE  Coherent(phase', artifact')
<1>1. Fades(phase, artifact, phase', artifact')
  BY DEF Quiet, ArtifactsFade, Fades
<1>2. \A a \in DOMAIN artifact : artifact[a].phase \in Phases
  BY ArtifactAt DEF TypeOK, Artifact
<1>3. \A p \in Phases : Turns(phase[p], phase'[p]) /\ phase'[p].outputs = phase[p].outputs
  BY DEF Quiet, PhasesTurn, OutputsSame
<1> QED
  BY <1>1, <1>2, <1>3, FadeKeeps

\* An execution is recorded with its output.
LEMMA ProducesKeeps ==
  ASSUME TypeOK, Coherent(phase, artifact), NEW p \in Phases, Produces(p)
  PROVE  Coherent(phase', artifact')
<1> DEFINE n == Len(artifact) + 1
<1>1. artifact \in Seq(Artifact) /\ phase[p].gen \in Nat
  BY DEF TypeOK, PhaseRecord
<1>2. \A a \in DOMAIN artifact : artifact[a].phase \in Phases
  BY <1>1, ArtifactAt DEF Artifact
<1>r. artifact' = Register(artifact, p, phase[p].gen)
  BY DEF Produces
<1>3. /\ n \notin DOMAIN artifact
      /\ DOMAIN artifact' = DOMAIN artifact \cup {n}
      /\ \A i \in DOMAIN artifact : artifact'[i] = artifact[i]
      /\ artifact'[n].phase = p /\ artifact'[n].gen = phase[p].gen /\ artifact'[n].authority = "none"
  BY Zenon, <1>1, <1>r, RegisterStep
<1>4. \A q \in Phases :
        /\ phase'[q].gen = phase[q].gen /\ phase'[q].commit = phase[q].commit
        /\ phase'[q].inputs = phase[q].inputs
        /\ phase'[q].state = "committed" => phase[q].state = "committed"
        /\ phase'[q].state \in InFlight => phase[q].state \in InFlight
        /\ phase'[q].state = "fenced" => phase[q].state = "fenced"
  BY DEF Produces, PhasesTurn, Turns, StateTurns
<1>5. /\ \A q \in Phases : q # p => phase'[q].outputs = phase[q].outputs
      /\ phase'[p].outputs = phase[p].outputs \cup {n}
  BY DEF Produces
<1> HIDE DEF n
<1>6. OwnOutputs(phase', artifact')
  BY <1>3, <1>4, <1>5, SMT DEF Coherent, OwnOutputs
<1>7. GoodInputs(phase', artifact')
  <2> SUFFICES ASSUME NEW q \in Phases, phase'[q].state \in InFlight \cup {"committed"},
                      NEW a \in phase'[q].inputs
               PROVE  /\ a \in DOMAIN artifact' /\ artifact'[a].phase \in Deps[q]
                      /\ artifact'[a].gen = phase'[artifact'[a].phase].gen
                      /\ phase'[artifact'[a].phase].commit
    BY DEF GoodInputs
  <2>1. phase[q].state \in InFlight \cup {"committed"} /\ a \in phase[q].inputs
    BY <1>4
  <2>2. /\ a \in DOMAIN artifact /\ artifact[a].phase \in Deps[q]
        /\ artifact[a].gen = phase[artifact[a].phase].gen /\ phase[artifact[a].phase].commit
    BY <2>1 DEF Coherent, GoodInputs
  <2> QED
    BY <1>2, <1>3, <1>4, <2>2, SMT
<1>8. FenceHolds(phase', artifact')
  BY <1>2, <1>3, <1>4, SMT DEF Coherent, FenceHolds
<1>9. NotRevoked(phase', artifact')
  BY <1>3, <1>4, <1>5, SMT DEF Coherent, OwnOutputs, NotRevoked
<1> QED
  BY <1>6, <1>7, <1>8, <1>9 DEF Coherent

\* A reservation takes the outputs of dependencies that have committed.
LEMMA ReservesKeeps ==
  ASSUME TypeOK, CommitInv, Coherent(phase, artifact), NEW p \in Phases, Reserves(p)
  PROVE  Coherent(phase', artifact')
<1>1. /\ \A q \in Phases : q # p => phase'[q] = phase[q]
      /\ phase[p].state \notin InFlight \cup {"committed", "fenced", "retired"}
      /\ Ready(p) /\ artifact' = artifact
      /\ phase'[p].state = "preparing"
      /\ phase'[p].inputs = InputsOf(p) /\ phase'[p].outputs = {}
  BY DEF Reserves
<1>2. ~phase[p].commit
  BY <1>1 DEF CommitInv, Sound
<1>3. \A q \in Phases : Deps[q] \subseteq Phases
  BY ConstantsAssumption
<1>4. OwnOutputs(phase', artifact')
  BY <1>1, SMT DEF Coherent, OwnOutputs
<1>5. GoodInputs(phase', artifact')
  <2> SUFFICES ASSUME NEW q \in Phases, phase'[q].state \in InFlight \cup {"committed"},
                      NEW a \in phase'[q].inputs
               PROVE  /\ a \in DOMAIN artifact /\ artifact[a].phase \in Deps[q]
                      /\ artifact[a].gen = phase'[artifact[a].phase].gen
                      /\ phase'[artifact[a].phase].commit
    BY <1>1 DEF GoodInputs
  <2>1. CASE q = p
    <3>1. PICK d \in Deps[p] : a \in phase[d].outputs
      BY <1>1, <2>1, SMT DEF InputsOf
    <3>2. d \in Phases /\ phase[d].state = "committed"
      BY <1>1, <1>3 DEF Ready
    <3>3. d # p /\ phase[d].commit /\ phase'[d] = phase[d]
      BY <1>1, <3>2 DEF CommitInv, Sound
    <3>4. a \in DOMAIN artifact /\ artifact[a].phase = d /\ artifact[a].gen = phase[d].gen
      BY <3>1, <3>2 DEF Coherent, OwnOutputs
    <3> QED
      BY <2>1, <3>3, <3>4
  <2>2. CASE q # p
    <3>1. phase'[q] = phase[q]
      BY <1>1, <2>2
    <3>2. /\ a \in DOMAIN artifact /\ artifact[a].phase \in Deps[q]
          /\ artifact[a].gen = phase[artifact[a].phase].gen /\ phase[artifact[a].phase].commit
      BY <3>1 DEF Coherent, GoodInputs
    <3>3. artifact[a].phase \in Phases /\ artifact[a].phase # p
      BY <1>2, <1>3, <3>2
    <3> QED
      BY <1>1, <3>2, <3>3
  <2> QED
    BY <2>1, <2>2
<1>6. FenceHolds(phase', artifact')
  <2>1. \A a \in DOMAIN artifact : artifact[a].phase \in Phases
    BY ArtifactAt DEF TypeOK, Artifact
  <2> QED
    BY <1>1, <2>1 DEF Coherent, FenceHolds
<1>7. NotRevoked(phase', artifact')
  BY <1>1 DEF Coherent, NotRevoked
<1> QED
  BY <1>4, <1>5, <1>6, <1>7 DEF Coherent

\* Granting the outputs of p authority keeps the phases as they are, and the
\* phases with p committed, coherent with the registry.
LEMMA GrantsKeeps ==
  ASSUME TypeOK, Coherent(phase, artifact), NEW p \in Phases, Grants(p)
  PROVE  Coherent(phase, artifact') /\ Coherent(CommittedPhases(p), artifact')
<1>1. artifact \in Seq(Artifact) /\ phase[p].state = "commit_ready"
  BY DEF TypeOK, Grants
<1>2. artifact' = GrantAuthority(artifact, phase[p].outputs)
  BY DEF Grants
<1>3. /\ DOMAIN artifact' = DOMAIN artifact
      /\ \A a \in DOMAIN artifact :
           /\ artifact'[a].phase = artifact[a].phase /\ artifact'[a].gen = artifact[a].gen
           /\ artifact'[a].authority = artifact[a].authority
                \/ (a \in phase[p].outputs /\ artifact'[a].authority = "authoritative")
  BY Zenon, <1>1, <1>2, GrantStep
<1>4. \A a \in DOMAIN artifact : artifact[a].phase \in Phases
  BY <1>1, ArtifactAt DEF Artifact
<1>5. Coherent(phase, artifact')
  <2>1. OwnOutputs(phase, artifact')
    BY <1>3 DEF Coherent, OwnOutputs
  <2>2. GoodInputs(phase, artifact')
    BY <1>3, SMT DEF Coherent, GoodInputs
  <2>3. FenceHolds(phase, artifact')
    BY <1>1, <1>3, SMT DEF Coherent, FenceHolds, OwnOutputs
  <2>4. NotRevoked(phase, artifact')
    BY <1>3 DEF Coherent, NotRevoked, OwnOutputs
  <2> QED
    BY <2>1, <2>2, <2>3, <2>4 DEF Coherent
<1> DEFINE ph == CommittedPhases(p)
<1>6. /\ \A q \in Phases : q # p => ph[q] = phase[q]
      /\ ph[p].state = "committed" /\ ph[p].commit /\ ph[p].gen = phase[p].gen
      /\ ph[p].inputs = phase[p].inputs /\ ph[p].outputs = phase[p].outputs
  BY <1>1, ProjectionFacts
<1> HIDE DEF ph
<1>7. Coherent(ph, artifact')
  <2>1. OwnOutputs(ph, artifact')
    BY <1>5, <1>6, SMT DEF Coherent, OwnOutputs
  <2>2. GoodInputs(ph, artifact')
    <3> SUFFICES ASSUME NEW q \in Phases, ph[q].state \in InFlight \cup {"committed"},
                        NEW a \in ph[q].inputs
                 PROVE  /\ a \in DOMAIN artifact' /\ artifact'[a].phase \in Deps[q]
                        /\ artifact'[a].gen = ph[artifact'[a].phase].gen
                        /\ ph[artifact'[a].phase].commit
      BY DEF GoodInputs
    <3>1. phase[q].state \in InFlight \cup {"committed"} /\ a \in phase[q].inputs
      BY <1>1, <1>6 DEF InFlight
    <3>2. /\ a \in DOMAIN artifact' /\ artifact'[a].phase \in Deps[q]
          /\ artifact'[a].gen = phase[artifact'[a].phase].gen /\ phase[artifact'[a].phase].commit
      BY <1>5, <3>1 DEF Coherent, GoodInputs
    <3> QED
      BY <1>3, <1>4, <1>6, <3>2
  <2>3. FenceHolds(ph, artifact')
    BY <1>3, <1>4, <1>5, <1>6 DEF Coherent, FenceHolds
  <2>4. NotRevoked(ph, artifact')
    BY <1>5, <1>6 DEF Coherent, NotRevoked, InFlight
  <2> QED
    BY <2>1, <2>2, <2>3, <2>4 DEF Coherent
<1> QED
  BY <1>5, <1>7 DEF ph

\* retire_session.
LEMMA RetiresKeeps ==
  ASSUME TypeOK, Coherent(phase, artifact), Retires
  PROVE  Coherent(phase', artifact')
<1>1. /\ \A p \in Phases : /\ phase'[p].state = "retired" /\ phase'[p].gen = phase[p].gen
                           /\ phase'[p].outputs = phase[p].outputs
      /\ artifact' = artifact
  BY DEF Retires
<1>2. \A a \in DOMAIN artifact : artifact[a].phase \in Phases
  BY ArtifactAt DEF TypeOK, Artifact
<1> QED
  BY <1>1, <1>2, SMT DEF Coherent, OwnOutputs, GoodInputs, FenceHolds, NotRevoked, InFlight

\* Runtime::create takes phases and registry from the journal and fences what
\* was in flight.
LEMMA RestartKeepsCoherent ==
  ASSUME TypeOK, Coherent(durable.phase, durable.artifact), Restart
  PROVE  Coherent(phase', artifact')
<1> DEFINE ph == durable.phase
           arts == durable.artifact
<1>1. ph \in [Phases -> PhaseRecord] /\ arts \in Seq(Artifact)
  BY DEF TypeOK, BundleType
<1>2. phase' = Fenced(ph) /\ artifact' = FencedOutputs(arts, ph)
  BY DEF Restart
<1>3. Coherent(ph, arts)
  OBVIOUS
<1> HIDE DEF ph, arts
<1>4. \A a \in DOMAIN arts : arts[a].phase \in Phases
  BY <1>1, ArtifactAt DEF Artifact
<1>5. \A p \in Phases :
        /\ ph[p].state \in InFlight => phase'[p].state = "fenced"
        /\ ph[p].state \notin InFlight => phase'[p] = ph[p]
        /\ Turns(ph[p], phase'[p]) /\ phase'[p].outputs = ph[p].outputs
  BY <1>1, <1>2, FencedFacts
<1>6. /\ DOMAIN artifact' = DOMAIN arts
      /\ \A a \in DOMAIN arts :
           /\ artifact'[a].phase = arts[a].phase /\ artifact'[a].gen = arts[a].gen
           /\ IF ph[arts[a].phase].state \in InFlight /\ ph[arts[a].phase].gen = arts[a].gen
              THEN artifact'[a].authority = "revoked" ELSE artifact'[a] = arts[a]
  BY <1>1, <1>2, FencedFacts, SMT
<1>7. Fades(ph, arts, phase', artifact')
  BY <1>4, <1>5, <1>6 DEF Fades, InFlight
<1> QED
  BY <1>3, <1>4, <1>5, <1>7, FadeKeeps, SMT

\* A session that does not become committed stays sound while committed phases
\* stay committed.
LEMMA SessionKeeps ==
  ASSUME SessionSound(session, phase), SessionTurns,
         \A p \in Phases : phase[p].state = "committed" => phase'[p].state = "committed"
  PROVE  SessionSound(session', phase')
  BY ConstantsAssumption DEF SessionSound, SessionTurns, AllMandatoryCommitted

\* A session becomes committed with its last mandatory phase and a candidate.
LEMMA CommittedSessionSound ==
  ASSUME TypeOK, SessionSound(session, phase), NEW p \in Phases, phase[p].state = "commit_ready"
  PROVE  SessionSound(CommittedSession(p), CommittedPhases(p))
<1> DEFINE candidate == session.candidate \/ p \in ImagePhases
           all == AllMandatoryCommitted(CommittedPhases(p))
           s == [session EXCEPT !.candidate = candidate,
                               !.state = IF candidate /\ all THEN "committed" ELSE @]
<1>1. CommittedSession(p) = s
  BY DEF CommittedSession
<1>2. session \in Session
  BY DEF TypeOK
<1> HIDE DEF all
<1>3. /\ s.candidate = candidate
      /\ s.state = IF candidate /\ all THEN "committed" ELSE session.state
  BY <1>2 DEF Session
<1> HIDE DEF s
<1>4. CASE candidate /\ all
  BY <1>1, <1>3, <1>4 DEF SessionSound, all
<1>5. CASE ~(candidate /\ all) /\ session.state = "committed"
  <2>0. AllMandatoryCommitted(phase) /\ session.candidate
    BY <1>5 DEF SessionSound
  <2>1. \A q \in Mandatory : phase[q].state = "committed"
    BY <2>0 DEF AllMandatoryCommitted
  <2>2. \A q \in Mandatory : CommittedPhases(p)[q].state = "committed"
    <3>1. /\ CommittedPhases(p)[p].state = "committed"
          /\ \A q \in Phases : q # p => CommittedPhases(p)[q] = phase[q]
      BY ProjectionFacts
    <3>2. Mandatory \subseteq Phases
      BY ConstantsAssumption
    <3> QED
      BY <2>1, <3>1, <3>2
  <2> QED
    BY <1>5, <2>0, <2>2 DEF AllMandatoryCommitted, all
<1>6. CASE ~(candidate /\ all) /\ session.state # "committed"
  BY <1>1, <1>3, <1>6 DEF SessionSound
<1> QED
  BY <1>4, <1>5, <1>6

-----------------------------------------------------------------------------
(* The invariant is inductive.                                              *)

\* What is in memory stays coherent and sound.
LEMMA MemoryKeeps ==
  ASSUME TypeOK, CommitInv, AuthorityInv, [Next]_vars
  PROVE  Coherent(phase', artifact') /\ SessionSound(session', phase')
<1>1. Coherent(phase, artifact) /\ SessionSound(session, phase)
  BY DEF AuthorityInv
<1>2. CASE Restart
  <2>1. Coherent(phase', artifact')
    BY <1>2, RestartKeepsCoherent DEF AuthorityInv
  <2>2. durable.session \in Session /\ durable.phase \in [Phases -> PhaseRecord]
    BY DEF TypeOK, BundleType
  <2>3. session' = [durable.session EXCEPT
                      !.state = IF @ \in {"committed", "retired"} THEN @ ELSE "recovering"]
    BY <1>2 DEF Restart
  <2>4. /\ session'.candidate = durable.session.candidate
        /\ session'.state = "committed" => durable.session.state = "committed"
    BY <2>2, <2>3 DEF Session
  <2>5. phase' = Fenced(durable.phase)
    BY <1>2 DEF Restart
  <2>6. \A p \in Phases : durable.phase[p].state = "committed" => phase'[p].state = "committed"
    BY <2>2, <2>5 DEF Fenced, InFlight
  <2>7. SessionSound(session', phase')
    BY <2>4, <2>6, ConstantsAssumption DEF AuthorityInv, SessionSound, AllMandatoryCommitted
  <2> QED
    BY <2>1, <2>7
<1>3. ASSUME NEW p \in Phases, Publishes(p)
      PROVE  Coherent(phase', artifact') /\ SessionSound(session', phase')
  <2>1. /\ Grants(p) /\ phase[p].state = "commit_ready"
        /\ phase' = CommittedPhases(p) /\ session' = CommittedSession(p)
    BY <1>3 DEF Publishes, Grants
  <2> QED
    BY <1>1, <2>1, GrantsKeeps, CommittedSessionSound
<1>4. CASE Retires
  <2>1. Coherent(phase', artifact')
    BY <1>1, <1>4, RetiresKeeps
  <2>2. SessionSound(session', phase')
    BY <1>4 DEF Retires, SessionSound
  <2> QED
    BY <2>1, <2>2
<1>5. ASSUME SessionTurns,
             Quiet \/ \E p \in Phases : Produces(p) \/ Reserves(p) \/ (Grants(p) /\ UNCHANGED <<phase, held>>)
      PROVE  Coherent(phase', artifact') /\ SessionSound(session', phase')
  <2>1. CASE Quiet
    <3>1. \A p \in Phases : phase[p].state = "committed" => phase'[p].state = "committed"
      BY <2>1 DEF Quiet, PhasesTurn, Turns, StateTurns
    <3> QED
      BY <1>1, <1>5, <2>1, <3>1, QuietKeeps, SessionKeeps
  <2>2. ASSUME NEW p \in Phases, Produces(p)
        PROVE  Coherent(phase', artifact') /\ SessionSound(session', phase')
    <3>1. \A q \in Phases : phase[q].state = "committed" => phase'[q].state = "committed"
      BY <2>2 DEF Produces, PhasesTurn, Turns, StateTurns
    <3> QED
      BY <1>1, <1>5, <2>2, <3>1, ProducesKeeps, SessionKeeps
  <2>3. ASSUME NEW p \in Phases, Reserves(p)
        PROVE  Coherent(phase', artifact') /\ SessionSound(session', phase')
    <3>1. \A q \in Phases : phase[q].state = "committed" => phase'[q].state = "committed"
      BY <2>3 DEF Reserves
    <3> QED
      BY <1>1, <1>5, <2>3, <3>1, ReservesKeeps, SessionKeeps
  <2>4. ASSUME NEW p \in Phases, Grants(p), UNCHANGED <<phase, held>>
        PROVE  Coherent(phase', artifact') /\ SessionSound(session', phase')
    <3>1. Coherent(phase', artifact')
      BY <1>1, <2>4, GrantsKeeps
    <3>2. SessionSound(session', phase')
      BY <1>1, <1>5, <2>4, SessionKeeps
    <3> QED
      BY <3>1, <3>2
  <2> QED
    BY <1>5, <2>1, <2>2, <2>3, <2>4
<1> QED
  BY <1>2, <1>3, <1>4, <1>5, StepEffect, SessionStep

\* So does what is in the journal.
LEMMA JournalKeeps ==
  ASSUME TypeOK, CommitInv, AuthorityInv, [Next]_vars
  PROVE  Coherent(durable'.phase, durable'.artifact) /\ SessionSound(durable'.session, durable'.phase)
<1>1. CASE durable' = durable
  BY <1>1 DEF AuthorityInv
<1>2. CASE durable' = Bundle'
  <2>1. durable'.phase = phase' /\ durable'.artifact = artifact' /\ durable'.session = session'
    BY <1>2 DEF Bundle
  <2> QED
    BY <2>1, MemoryKeeps
<1>3. ASSUME NEW p \in Phases, Saves(p)
      PROVE  Coherent(durable'.phase, durable'.artifact) /\ SessionSound(durable'.session, durable'.phase)
  <2>1. Coherent(phase, artifact) /\ SessionSound(session, phase)
    BY DEF AuthorityInv
  <2>2. Grants(p) /\ phase[p].state = "commit_ready"
    BY <1>3 DEF Saves, Grants
  <2>3. Coherent(CommittedPhases(p), artifact') /\ SessionSound(CommittedSession(p), CommittedPhases(p))
    BY <2>1, <2>2, GrantsKeeps, CommittedSessionSound
  <2> QED
    BY <1>3, <2>3 DEF Saves
<1> QED
  BY <1>1, <1>2, <1>3, JournalStep

\* Artifacts keep their producer, and phases their commit, while the process
\* lives.
LEMMA ProducersKept ==
  ASSUME TypeOK, CommitInv, AuthorityInv, [Next]_vars, ~Restart
  PROVE  /\ \A a \in DOMAIN artifact : a \in DOMAIN artifact' /\ artifact'[a].phase = artifact[a].phase
         /\ \A p \in Phases : phase[p].commit => phase'[p].commit
<1>0. artifact \in Seq(Artifact)
  BY DEF TypeOK
<1>1. CASE Quiet
  BY <1>1 DEF Quiet, PhasesTurn, Turns, ArtifactsFade
<1>2. CASE Retires
  BY <1>2 DEF Retires
<1>3. ASSUME NEW p \in Phases, Produces(p)
      PROVE  /\ \A a \in DOMAIN artifact : a \in DOMAIN artifact' /\ artifact'[a].phase = artifact[a].phase
             /\ \A q \in Phases : phase[q].commit => phase'[q].commit
  <2>1. phase[p].gen \in Nat /\ artifact' = Register(artifact, p, phase[p].gen)
    BY <1>3 DEF TypeOK, PhaseRecord, Produces
  <2>2. \A a \in DOMAIN artifact : a \in DOMAIN artifact' /\ artifact'[a] = artifact[a]
    BY Zenon, <1>0, <2>1, RegisterStep
  <2>3. \A q \in Phases : phase[q].commit => phase'[q].commit
    BY <1>3 DEF Produces, PhasesTurn, Turns
  <2> QED
    BY <2>2, <2>3
<1>4. ASSUME NEW p \in Phases, Reserves(p)
      PROVE  /\ \A a \in DOMAIN artifact : a \in DOMAIN artifact' /\ artifact'[a].phase = artifact[a].phase
             /\ \A q \in Phases : phase[q].commit => phase'[q].commit
  BY <1>4 DEF Reserves, CommitInv, Sound
<1>5. ASSUME NEW p \in Phases, Grants(p)
      PROVE  \A a \in DOMAIN artifact : a \in DOMAIN artifact' /\ artifact'[a].phase = artifact[a].phase
  BY <1>0, <1>5, GrantStep DEF Grants
<1>6. ASSUME NEW p \in Phases, Publishes(p)
      PROVE  \A q \in Phases : phase[q].commit => phase'[q].commit
  <2>1. phase[p].state = "commit_ready" /\ phase' = CommittedPhases(p)
    BY <1>6 DEF Publishes, Grants
  <2> QED
    BY <2>1, ProjectionFacts
<1> QED
  BY <1>1, <1>2, <1>3, <1>4, <1>5, <1>6, StepEffect DEF Publishes

\* The artifacts that a plan suspects were produced by committed phases, and
\* stay so until the plan is applied.
LEMMA SuspectsKeep ==
  ASSUME TypeOK, CommitInv, AuthorityInv, [Next]_vars
  PROVE  SuspectsCommitted'
<1> SUFFICES ASSUME NEW t \in Threads, thread'[t].pc = "recover", NEW a \in thread'[t].suspects
             PROVE  a \in DOMAIN artifact' /\ phase'[artifact'[a].phase].commit
  BY DEF SuspectsCommitted
<1>1. (thread'[t] = thread[t] \/ PlanRecovery(t)) /\ ~Restart
  BY PlanStep
<1>2. \A i \in DOMAIN artifact : artifact[i].phase \in Phases
  BY ArtifactAt DEF TypeOK, Artifact
<1>3. a \in DOMAIN artifact /\ phase[artifact[a].phase].commit
  <2>1. CASE thread'[t] = thread[t]
    BY <2>1 DEF AuthorityInv, SuspectsCommitted
  <2>2. CASE PlanRecovery(t)
    <3> DEFINE made == {p \in Phases : phase[p].state = "committed"}
               all == UNION {phase[p].outputs : p \in made}
               doubtful == {i \in all : artifact[i].authority # "authoritative"}
    <3>1. \E m : thread' = [thread EXCEPT ![t] =
                              [Idle EXCEPT !.pc = "recover", !.suspects = doubtful, !.manual = m]]
      BY Zenon, <2>2 DEF PlanRecovery
    <3> HIDE DEF doubtful
    <3>2. PICK m : thread'[t] = [Idle EXCEPT !.pc = "recover", !.suspects = doubtful, !.manual = m]
      BY Zenon, <3>1, StartFacts
    <3>3. thread'[t].suspects = doubtful
      BY <3>2 DEF Idle
    <3>4. a \in all
      BY <3>3 DEF doubtful
    <3>5. PICK p \in Phases : phase[p].state = "committed" /\ a \in phase[p].outputs
      BY <3>4
    <3>6. a \in DOMAIN artifact /\ artifact[a].phase = p /\ phase[p].commit
      BY <3>5, SMT DEF AuthorityInv, Coherent, OwnOutputs, CommitInv, Sound
    <3> QED
      BY <3>6
  <2> QED
    BY <1>1, <2>1, <2>2
<1> QED
  BY <1>1, <1>2, <1>3, ProducersKept

\* At the start there are no outputs, inputs or plans.
LEMMA AuthorityStart ==
  ASSUME Init
  PROVE  AuthorityInv
<1>1. /\ durable.phase = phase /\ durable.artifact = artifact /\ durable.session = session
      /\ \A p \in Phases : /\ phase[p].state = "pending" /\ phase[p].inputs = {} /\ phase[p].outputs = {}
      /\ session.state = "active"
      /\ \A t \in Threads : thread[t].pc = "idle"
  BY SMTT(30) DEF Init, Bundle, Idle
<1>2. DOMAIN artifact = {}
  BY SMT DEF Init
<1>3. Coherent(phase, artifact)
  BY <1>1, <1>2 DEF Coherent, OwnOutputs, GoodInputs, FenceHolds, NotRevoked
<1>4. SessionSound(session, phase)
  BY <1>1 DEF SessionSound
<1> QED
  BY <1>1, <1>3, <1>4 DEF AuthorityInv, SuspectsCommitted

\* The inductive invariant of authority: in memory and in the journal, outputs
\* belong to the generation that lists them, inputs come from committed
\* dependencies, what is fenced has no authority, what is in flight has nothing
\* revoked, and a committed session is complete.
THEOREM AuthorityInvariant == Spec => []AuthorityInv
<1>1. Init => AuthorityInv
  BY AuthorityStart
<1>2. TypeOK /\ CommitInv /\ AuthorityInv /\ [Next]_vars => AuthorityInv'
  BY MemoryKeeps, JournalKeeps, SuspectsKeep DEF AuthorityInv
<1> QED
  BY <1>1, <1>2, TypeCorrect, CommitInvariant, PTL DEF Spec

\* Every input that a phase in flight or committed consumes comes from a
\* dependency, from the generation of it that committed, for any plan, callers,
\* bounds and faults: resolve_inputs takes the outputs of committed phases, and
\* no retry, failure, cancellation, restart or recovery gives such a phase
\* another generation.
THEOREM InputsAreCommitted == Spec => []InputsFromCommitted
<1>1. AuthorityInv => InputsFromCommitted
  BY DEF AuthorityInv, Coherent, GoodInputs, InputsFromCommitted
<1> QED
  BY <1>1, AuthorityInvariant, PTL

\* What is fenced has no authority, for any plan, callers, bounds and faults:
\* not even when the journal refused a commit after authority was granted, or
\* the process died at that point.
THEOREM FencedHasNoAuthority == Spec => []FencedLosesAuthority
<1>1. AuthorityInv => FencedLosesAuthority
  BY DEF AuthorityInv, Coherent, FenceHolds, FencedLosesAuthority
<1> QED
  BY <1>1, AuthorityInvariant, PTL

\* A committed session has every mandatory phase committed and a candidate, for
\* any plan, callers, bounds and faults: commit_reserved commits the session
\* with its last mandatory phase, and only retirement takes a phase from it.
THEOREM CommittedSessionComplete == Spec => []SessionCommitSound
<1>1. AuthorityInv => SessionCommitSound
  BY DEF AuthorityInv, SessionSound, SessionCommitSound
<1> QED
  BY <1>1, AuthorityInvariant, PTL

\* While the process lives no step gives back authority that was revoked.
LEMMA RevokedStays ==
  ASSUME TypeOK, CommitInv, AuthorityInv, [Next]_vars, epoch' = epoch
  PROVE  \A a \in DOMAIN artifact :
           artifact[a].authority = "revoked" => artifact'[a].authority = "revoked"
<1>0. artifact \in Seq(Artifact)
  BY DEF TypeOK
<1>1. ~Restart
  BY SMT DEF Restart, TypeOK
<1>2. CASE Quiet
  BY <1>2 DEF Quiet, ArtifactsFade
<1>3. CASE Retires
  BY <1>3 DEF Retires
<1>4. ASSUME NEW p \in Phases, Produces(p)
      PROVE  \A a \in DOMAIN artifact : artifact'[a] = artifact[a]
  <2>1. phase[p].gen \in Nat /\ artifact' = Register(artifact, p, phase[p].gen)
    BY <1>4 DEF TypeOK, PhaseRecord, Produces
  <2> QED
    BY Zenon, <1>0, <2>1, RegisterStep
<1>5. ASSUME NEW p \in Phases, Reserves(p)
      PROVE  artifact' = artifact
  BY <1>5 DEF Reserves
<1>6. ASSUME NEW p \in Phases, Grants(p)
      PROVE  \A a \in DOMAIN artifact :
               artifact[a].authority = "revoked" => artifact'[a].authority = "revoked"
  <2>1. \A a \in phase[p].outputs : artifact[a].authority # "revoked"
    BY <1>6 DEF AuthorityInv, Coherent, NotRevoked, Grants, InFlight
  <2> QED
    BY <1>0, <1>6, <2>1, GrantStep DEF Grants
<1> QED
  BY <1>1, <1>2, <1>3, <1>4, <1>5, <1>6, StepEffect DEF Publishes

\* Authority that was revoked is never restored while the process lives, for
\* any plan, callers, bounds and faults: commit_reserved grants authority only
\* to the outputs of a phase that is in flight, and whatever revokes one of
\* those ends the attempt (revoke_phase_outputs, set_state, revalidate).
THEOREM RevokedForGood == Spec => NoResurrection
<1>1. TypeOK /\ CommitInv /\ AuthorityInv /\ [Next]_vars =>
        [epoch' = epoch => \A a \in DOMAIN artifact :
           artifact[a].authority = "revoked" => artifact'[a].authority = "revoked"]_vars
  BY RevokedStays
<1> QED
  BY <1>1, TypeCorrect, CommitInvariant, AuthorityInvariant, PTL DEF Spec, NoResurrection

-----------------------------------------------------------------------------
(* Leases.                                                                  *)

\* The inductive invariant of the leases of the first life of the process.  A
\* lease is an identity that was handed out, no two phases have the same one,
\* and a phase in flight holds its own.  After a restart identities are handed
\* out again while phase records keep old ones.
LeaseInv ==
  /\ epoch # 0
  /\ epoch = 1 =>
       /\ nextId # 0
       /\ \A x \in held : x # 0 /\ x < nextId
       /\ \A p \in Phases : phase[p].lease < nextId
       /\ \A p, q \in Phases : p # q /\ phase[p].lease = phase[q].lease => phase[p].lease = 0
       /\ \A p \in Phases : phase[p].state \in InFlight => phase[p].lease \in held

\* Only a restart begins another life.
LEMMA EpochStep ==
  ASSUME [Next]_vars
  PROVE  Restart \/ epoch' = epoch
<1>1. ASSUME NEW t \in Threads, Step(t)
      PROVE  epoch' = epoch
  BY ZenonT(60), <1>1
     DEF Step, ReserveDecided, Reserve, ReserveRefused, Launch, Record, RecordExecution, RecordStopped, Check,
         Reproduce, Validate, CommitRefused, CommitUnprobed, CommitFenced, CommitUngranted, CommitPublished,
         CommitUnpersisted, CommitGranted, Drive, Report, Halt, CancelNext, CancelPhaseBody, CancelDone,
         ShutdownSave, ApplyRecovery
<1>2. CASE \/ \E t \in Threads :
                \/ \E p \in Phases : RunPhase(t, p) \/ RetryPhase(t, p) \/ CommitPhase(t, p)
                \/ RunSession(t) \/ CancelSession(t) \/ Shutdown(t) \/ PlanRecovery(t)
           \/ \E p \in Phases : ReportOutput(p) \/ CancelPhase(p) \/ \E f \in Failures : FailPhase(p, f)
           \/ RetireSession \/ Reopen
           \/ \E d \in Domains : MoveGeneration(d)
           \/ UNCHANGED vars
  BY ZenonT(60), <1>2
     DEF RunPhase, Reserve, RetryPhase, CommitPhase, RunSession, CancelSession, Shutdown, PlanRecovery,
         ReportOutput, RecordExecution, RecordStopped, CancelPhase, CancelPhaseBody, FailPhase,
         RetireSession, Reopen, MoveGeneration, vars
<1> QED
  BY <1>1, <1>2 DEF Next

\* Every kind of step keeps it.
LEMMA LeaseStep ==
  ASSUME TypeOK, CommitInv, AuthorityInv, LeaseInv, [Next]_vars
  PROVE  LeaseInv'
<1>1. /\ nextId \in Nat /\ epoch \in Nat /\ held \subseteq Nat
      /\ \A p \in Phases : phase[p].lease \in Nat
  BY DEF TypeOK, PhaseRecord
<1>2. CASE Restart
  BY <1>1, <1>2, SMT DEF Restart, LeaseInv
<1>3. CASE epoch' = epoch /\ epoch # 1
  BY <1>3 DEF LeaseInv
<1>4. CASE epoch' = epoch /\ epoch = 1 /\ ~Restart
  <2>1. /\ nextId # 0
        /\ \A x \in held : x # 0 /\ x < nextId
        /\ \A p \in Phases : phase[p].lease < nextId
        /\ \A p, q \in Phases : p # q /\ phase[p].lease = phase[q].lease => phase[p].lease = 0
        /\ \A p \in Phases : phase[p].state \in InFlight => phase[p].lease \in held
    BY <1>4 DEF LeaseInv
  <2>2. ASSUME PhasesTurn, LeasesDrop
        PROVE  LeaseInv'
    <3>1. \A p \in Phases : /\ phase'[p].lease = phase[p].lease
                            /\ phase'[p].state \in InFlight => phase[p].state \in InFlight
      BY <2>2 DEF PhasesTurn, Turns, StateTurns
    <3>2. /\ nextId' = nextId /\ held' \subseteq held
          /\ \A x \in held \ held' : \E p \in Phases : x = phase[p].lease /\ phase'[p].state \notin InFlight
      BY <2>2 DEF LeasesDrop
    <3>3. ASSUME NEW p \in Phases, phase'[p].state \in InFlight
          PROVE  phase'[p].lease \in held'
      <4>1. phase[p].lease \in held /\ phase[p].lease # 0
        BY <2>1, <3>1, <3>3
      <4>2. \A q \in Phases : phase[q].lease = phase[p].lease => q = p
        BY <2>1, <4>1
      <4> QED
        BY <3>1, <3>2, <3>3, <4>1, <4>2
    <3> QED
      BY <1>4, <2>1, <3>1, <3>2, <3>3, SMT DEF LeaseInv
  <2>3. CASE Quiet
    BY <2>2, <2>3 DEF Quiet
  <2>4. ASSUME NEW p \in Phases, Produces(p)
        PROVE  LeaseInv'
    <3>1. PhasesTurn /\ LeasesDrop
      BY <2>4 DEF Produces, LeasesDrop
    <3> QED
      BY <2>2, <3>1
  <2>5. ASSUME NEW p \in Phases, Reserves(p)
        PROVE  LeaseInv'
    <3>1. /\ \A q \in Phases : q # p => phase'[q] = phase[q]
          /\ phase'[p].lease = nextId /\ held' = held \cup {nextId} /\ nextId' = nextId + 1
      BY <2>5 DEF Reserves
    <3>2. nextId' # 0 /\ \A x \in held' : x # 0 /\ x < nextId'
      <4>1. nextId' # 0 /\ nextId < nextId'
        BY <1>1, <3>1, SMT
      <4>2. \A x \in held : x < nextId'
        BY <1>1, <2>1, <3>1, SMT
      <4> QED
        BY <2>1, <3>1, <4>1, <4>2
    <3>3. \A q \in Phases : phase'[q].lease < nextId'
      BY <1>1, <2>1, <3>1, SMT
    <3>4. \A q \in Phases : q # p => phase[q].lease # nextId
      BY <1>1, <2>1, SMT
    <3>5. ASSUME NEW q \in Phases, NEW r \in Phases, q # r, phase'[q].lease = phase'[r].lease
          PROVE  phase'[q].lease = 0
      <4>1. CASE q = p
        BY <3>1, <3>4, <3>5, <4>1
      <4>2. CASE r = p
        BY <3>1, <3>4, <3>5, <4>2
      <4>3. CASE q # p /\ r # p
        <5>1. phase'[q] = phase[q] /\ phase'[r] = phase[r]
          BY <3>1, <4>3
        <5> QED
          BY <2>1, <3>5, <5>1
      <4> QED
        BY <4>1, <4>2, <4>3
    <3>6. \A q \in Phases : phase'[q].state \in InFlight => phase'[q].lease \in held'
      BY <2>1, <3>1
    <3> QED
      BY <1>4, <3>2, <3>3, <3>5, <3>6 DEF LeaseInv
  <2>6. ASSUME NEW p \in Phases, Grants(p), UNCHANGED <<phase, held>>
        PROVE  LeaseInv'
    <3>1. UNCHANGED <<phase, held, nextId>>
      BY <2>6 DEF Grants
    <3> QED
      BY <1>4, <2>1, <3>1 DEF LeaseInv
  <2>7. ASSUME NEW p \in Phases, Publishes(p)
        PROVE  LeaseInv'
    <3>1. /\ phase[p].state = "commit_ready" /\ phase' = CommittedPhases(p)
          /\ held' = held \ {phase[p].lease} /\ nextId' = nextId
      BY <2>7 DEF Publishes, Grants
    <3>2. /\ \A q \in Phases : q # p => phase'[q] = phase[q]
          /\ phase'[p].state = "committed" /\ phase'[p].lease = phase[p].lease
      BY <3>1, ProjectionFacts
    <3>3. \A q \in Phases : phase'[q].state \in InFlight => phase'[q].lease \in held'
      <4> SUFFICES ASSUME NEW q \in Phases, phase'[q].state \in InFlight
                   PROVE  phase'[q].lease \in held'
        OBVIOUS
      <4>1. q # p /\ phase'[q] = phase[q]
        BY <3>2 DEF InFlight
      <4>2. phase[q].lease \in held /\ phase[q].lease # 0
        BY <2>1, <4>1
      <4> QED
        BY <2>1, <3>1, <4>1, <4>2
    <3> QED
      BY <1>4, <2>1, <3>1, <3>2, <3>3, SMT DEF LeaseInv
  <2>8. CASE Retires
    <3>1. /\ \A p \in Phases : phase'[p].state = "retired" /\ phase'[p].lease = phase[p].lease
          /\ nextId' = nextId /\ held' \subseteq held
      BY <2>8 DEF Retires
    <3> QED
      BY <1>4, <2>1, <3>1 DEF LeaseInv, InFlight
  <2> QED
    BY <1>4, <2>3, <2>4, <2>5, <2>6, <2>7, <2>8, StepEffect
<1> QED
  BY <1>2, <1>3, <1>4, EpochStep

\* A phase in flight holds exactly one lease of its own, for any plan, callers,
\* bounds and faults, until the process is restarted for the first time: reserve
\* grants a new lease, and failing, cancelling, fencing or committing a phase
\* revokes that phase's lease alone (LeaseTable).
THEOREM LeasesAreOwn == Spec => [](epoch = 1 => InFlightHoldsLease)
<1>1. Init => LeaseInv
  <2> SUFFICES ASSUME Init
               PROVE  LeaseInv
    OBVIOUS
  <2>1. /\ nextId = 1 /\ epoch = 1 /\ held = {}
        /\ \A p \in Phases : phase[p].lease = 0 /\ phase[p].state = "pending"
    BY DEF Init
  <2> QED
    BY <2>1, SMT DEF LeaseInv, InFlight
<1>2. TypeOK /\ CommitInv /\ AuthorityInv /\ LeaseInv /\ [Next]_vars => LeaseInv'
  BY LeaseStep
<1>3. LeaseInv => (epoch = 1 => InFlightHoldsLease)
  BY DEF LeaseInv, InFlightHoldsLease
<1> QED
  BY <1>1, <1>2, <1>3, TypeCorrect, CommitInvariant, AuthorityInvariant, PTL DEF Spec

-----------------------------------------------------------------------------
(* Retries.                                                                 *)

\* A phase has the failure class that is retried without a ceiling only when it
\* has been fenced, and then it cannot be retried.
OnlyFencedInvalidated(ph) ==
  \A p \in Phases : ph[p].failure = "invalidated" => ph[p].state \in {"fenced", "retired"}

\* The inductive invariant of the retries, in memory and in the journal.
RetryInv ==
  /\ OnlyFencedInvalidated(phase) /\ session.retries <= MaxRetriesPerSession
  /\ OnlyFencedInvalidated(durable.phase) /\ durable.session.retries <= MaxRetriesPerSession

\* Turning phases keep it.
LEMMA TurnsInvalidated ==
  ASSUME "invalidated" \notin Failures, NEW ph, NEW ph2, OnlyFencedInvalidated(ph),
         \A p \in Phases : Turns(ph[p], ph2[p])
  PROVE  OnlyFencedInvalidated(ph2)
  BY DEF OnlyFencedInvalidated, Turns, StateTurns

\* So does every step, in memory,
LEMMA RetryMemory ==
  ASSUME "invalidated" \notin Failures, TypeOK, CommitInv, AuthorityInv, RetryInv, [Next]_vars
  PROVE  OnlyFencedInvalidated(phase') /\ session'.retries <= MaxRetriesPerSession
<1>1. OnlyFencedInvalidated(phase) /\ session.retries <= MaxRetriesPerSession
  BY DEF RetryInv
<1>2. session \in Session /\ session.retries \in Nat /\ MaxRetriesPerSession \in Nat
  BY ConstantsAssumption DEF TypeOK, Session
<1>3. CASE Restart
  <2>1. durable.session \in Session /\ durable.phase \in [Phases -> PhaseRecord] /\ durable.artifact \in Seq(Artifact)
    BY DEF TypeOK, BundleType
  <2>2. phase' = Fenced(durable.phase)
    BY <1>3 DEF Restart
  <2>3. \A p \in Phases : Turns(durable.phase[p], phase'[p])
    BY <2>1, <2>2, FencedFacts
  <2>4. OnlyFencedInvalidated(phase')
    BY <2>3, TurnsInvalidated DEF RetryInv
  <2>5. session' = [durable.session EXCEPT
                      !.state = IF @ \in {"committed", "retired"} THEN @ ELSE "recovering"]
    BY <1>3 DEF Restart
  <2>6. session'.retries = durable.session.retries
    BY <2>1, <2>5 DEF Session
  <2> QED
    BY <2>4, <2>6 DEF RetryInv
<1>4. ASSUME NEW p \in Phases, Publishes(p)
      PROVE  OnlyFencedInvalidated(phase') /\ session'.retries <= MaxRetriesPerSession
  <2>1. phase[p].state = "commit_ready" /\ phase' = CommittedPhases(p) /\ session' = CommittedSession(p)
    BY <1>4 DEF Publishes, Grants
  <2>2. /\ \A q \in Phases : q # p => phase'[q] = phase[q]
        /\ phase'[p].failure = phase[p].failure
    BY <2>1, ProjectionFacts
  <2>3. CommittedSession(p).retries = session.retries
    BY <1>2 DEF CommittedSession, Session
  <2>4. OnlyFencedInvalidated(phase')
    BY <1>1, <2>1, <2>2 DEF OnlyFencedInvalidated
  <2> QED
    BY <1>1, <2>1, <2>3, <2>4
<1>5. ASSUME SessionTurns
      PROVE  session'.retries <= MaxRetriesPerSession
  <2>1. ASSUME NEW p \in Phases,
               RetryLegal(phase[p].state, phase[p].failure, phase[p].attempts,
                          session.retries, MaxRetriesPerPhase, MaxRetriesPerSession)
        PROVE  session.retries < MaxRetriesPerSession
    BY <1>1, <2>1 DEF RetryLegal, OnlyFencedInvalidated
  <2> QED
    BY <1>1, <1>2, <1>5, <2>1, SMT DEF SessionTurns
<1>6. ASSUME ~Restart, \A p \in Phases : ~Publishes(p)
      PROVE  OnlyFencedInvalidated(phase')
  <2>1. CASE Quiet
    BY <1>1, <2>1, TurnsInvalidated DEF Quiet, PhasesTurn
  <2>2. CASE Retires
    BY <2>2 DEF Retires, OnlyFencedInvalidated
  <2>3. ASSUME NEW p \in Phases, Produces(p)
        PROVE  OnlyFencedInvalidated(phase')
    BY <1>1, <2>3, TurnsInvalidated DEF Produces, PhasesTurn
  <2>4. ASSUME NEW p \in Phases, Reserves(p)
        PROVE  OnlyFencedInvalidated(phase')
    BY <1>1, <2>4 DEF Reserves, OnlyFencedInvalidated
  <2>5. ASSUME UNCHANGED <<phase, held>>
        PROVE  OnlyFencedInvalidated(phase')
    BY <1>1, <2>5
  <2> QED
    BY <1>6, <2>1, <2>2, <2>3, <2>4, <2>5, StepEffect
<1> QED
  BY <1>3, <1>4, <1>5, <1>6, SessionStep

\* and in the journal.
LEMMA RetryStep ==
  ASSUME "invalidated" \notin Failures, TypeOK, CommitInv, AuthorityInv, RetryInv, [Next]_vars
  PROVE  RetryInv'
<1>1. OnlyFencedInvalidated(phase') /\ session'.retries <= MaxRetriesPerSession
  BY RetryMemory
<1>2. CASE durable' = durable
  BY <1>1, <1>2 DEF RetryInv
<1>3. CASE durable' = Bundle'
  <2>1. durable'.phase = phase' /\ durable'.session = session'
    BY <1>3 DEF Bundle
  <2> QED
    BY <1>1, <2>1 DEF RetryInv
<1>4. ASSUME NEW p \in Phases, Saves(p)
      PROVE  RetryInv'
  <2>1. /\ phase[p].state = "commit_ready"
        /\ durable'.phase = CommittedPhases(p) /\ durable'.session = CommittedSession(p)
    BY <1>4 DEF Saves, Grants
  <2>2. /\ \A q \in Phases : q # p => CommittedPhases(p)[q] = phase[q]
        /\ CommittedPhases(p)[p].failure = phase[p].failure
    BY <2>1, ProjectionFacts
  <2>3. OnlyFencedInvalidated(CommittedPhases(p))
    BY <2>1, <2>2 DEF RetryInv, OnlyFencedInvalidated
  <2>4. CommittedSession(p).retries = session.retries
    BY DEF CommittedSession, Session, TypeOK
  <2> QED
    BY <1>1, <2>1, <2>3, <2>4 DEF RetryInv
<1> QED
  BY <1>2, <1>3, <1>4, JournalStep

\* The retries of a session never exceed its ceiling, for any plan, callers,
\* bounds and faults, however many callers retry at once and however often the
\* process restarts, provided nobody reports an execution as ended by moved
\* authority: evaluate_retry lets that failure class pass both ceilings.
THEOREM SessionRetriesBounded ==
  ASSUME "invalidated" \notin Failures
  PROVE  Spec => []SessionRetryCeiling
<1>1. Init => RetryInv
  <2> SUFFICES ASSUME Init
               PROVE  RetryInv
    OBVIOUS
  <2>1. /\ durable.phase = phase /\ durable.session = session /\ session.retries = 0
        /\ \A p \in Phases : phase[p].failure = "none"
    BY SMTT(30) DEF Init, Bundle
  <2> QED
    BY <2>1, ConstantsAssumption, SMT DEF RetryInv, OnlyFencedInvalidated
<1>2. TypeOK /\ CommitInv /\ AuthorityInv /\ RetryInv /\ [Next]_vars => RetryInv'
  BY RetryStep
<1>3. RetryInv => SessionRetryCeiling
  BY DEF RetryInv, SessionRetryCeiling
<1> QED
  BY <1>1, <1>2, <1>3, TypeCorrect, CommitInvariant, AuthorityInvariant, PTL DEF Spec

-----------------------------------------------------------------------------
(* Ownership: what follows from the calls keeping in step with their phases. *)

\* The inductive invariant.  Without report_output an attempt has one execution
\* and its record; with it, outputs can be added after they were accepted.
THEOREM CallInvariant ==
  ASSUME "report" \notin Ops
  PROVE  Spec => []CallInv
<1>1. Init => CallInv
  BY CallStart
<1>2. TypeOK /\ CommitInv /\ AuthorityInv /\ CallInv /\ [Next]_vars => CallInv'
  BY CallKeeps
<1> QED
  BY <1>1, <1>2, TypeCorrect, CommitInvariant, AuthorityInvariant, PTL DEF Spec

\* Whatever is authoritative was accepted by a validation made for the generation
\* that produced it, for any plan, callers, bounds and faults, where executions
\* are recorded by the call that ran them: validate_phase_outputs may apply
\* evidence to another generation, but commit_reserved then refuses the call
\* that brought it.
THEOREM AuthorityVouchedFor ==
  ASSUME "report" \notin Ops
  PROVE  Spec => []AuthorityIsVouched
<1>1. CallInv => AuthorityIsVouched
  BY DEF CallInv, Vouched, AuthorityIsVouched
<1> QED
  BY <1>1, CallInvariant, PTL

-----------------------------------------------------------------------------
(* Without journal and store errors: authority is that of a commit, and what *)
(* is in flight is some caller's.                                           *)

\* What AuthorityNeedsCommit says.
AuthorityCommitted(ph, arts) ==
  \A a \in DOMAIN arts : arts[a].authority = "authoritative" =>
    /\ Consumable(arts[a])
    /\ arts[a].gen = ph[arts[a].phase].gen
    /\ a \in ph[arts[a].phase].outputs
    /\ ph[arts[a].phase].commit

OwnedInv ==
  /\ AuthorityCommitted(phase, artifact)
  /\ AuthorityCommitted(durable.phase, durable.artifact)
  /\ InFlightIsOwned

\* No commit stops half way.
LEMMA NothingDiscarded ==
  ASSUME CallsOwn, ~Faults, NEW t \in Threads
  PROVE  ~Discards(t)
<1>1. ~CommitUnpersisted(t)
  BY DEF CommitUnpersisted
<1>2. ~CommitUngranted(t)
  <2> SUFFICES ASSUME CommitUngranted(t)
               PROVE  FALSE
    OBVIOUS
  <2>1. CommitGranted(t) /\ Grantable(artifact, phase[thread[t].phase].outputs) # phase[thread[t].phase].outputs
    BY DEF CommitUngranted
  <2>2. \A a \in phase[thread[t].phase].outputs : Consumable(artifact[a])
    BY <2>1, CommitPassed DEF Passed
  <2> QED
    BY <2>1, <2>2 DEF Grantable
<1> QED
  BY <1>1, <1>2 DEF Discards

\* Authority stays with the generations that committed.
LEMMA CommittedAuthority ==
  ASSUME TypeOK, CommitInv, AuthorityInv, CallsOwn, ~Faults, [Next]_vars,
         AuthorityCommitted(phase, artifact), AuthorityCommitted(durable.phase, durable.artifact)
  PROVE  AuthorityCommitted(phase', artifact')
<1>1. artifact \in Seq(Artifact) /\ phase \in [Phases -> PhaseRecord] /\ durable.artifact \in Seq(Artifact)
      /\ durable.phase \in [Phases -> PhaseRecord]
  BY DEF TypeOK, BundleType
<1>2. /\ \A a \in DOMAIN artifact : artifact[a].phase \in Phases
      /\ \A a \in DOMAIN durable.artifact : durable.artifact[a].phase \in Phases
  BY <1>1, ArtifactAt DEF Artifact
<1>3. CASE Quiet
  BY <1>2, <1>3, SMTT(30) DEF Quiet, ArtifactsFade, PhasesTurn, OutputsSame, Turns, AuthorityCommitted
<1>4. CASE Retires
  BY <1>2, <1>4, SMT DEF Retires, AuthorityCommitted
<1>5. CASE Restart
  <2> DEFINE ph == durable.phase
             arts == durable.artifact
  <2>1. /\ phase' = Fenced(ph) /\ artifact' = FencedOutputs(arts, ph)
        /\ ph \in [Phases -> PhaseRecord] /\ arts \in Seq(Artifact) /\ AuthorityCommitted(ph, arts)
        /\ \A a \in DOMAIN arts : arts[a].phase \in Phases
    BY <1>1, <1>2, <1>5 DEF Restart
  <2> HIDE DEF ph, arts
  <2>2. \A p \in Phases : Turns(ph[p], phase'[p]) /\ phase'[p].outputs = ph[p].outputs
    BY <2>1, FencedFacts
  <2>3. /\ DOMAIN artifact' = DOMAIN arts
        /\ \A a \in DOMAIN arts : artifact'[a].authority = "revoked" \/ artifact'[a] = arts[a]
    BY <2>1, FencedFacts, SMT
  <2> QED
    BY <2>1, <2>2, <2>3, SMT DEF AuthorityCommitted, Turns
<1>6. ASSUME NEW p \in Phases, Produces(p)
      PROVE  AuthorityCommitted(phase', artifact')
  <2>1. artifact' = Register(artifact, p, phase[p].gen) /\ phase[p].gen \in Nat
    BY <1>1, <1>6 DEF Produces, PhaseRecord
  <2>2. /\ DOMAIN artifact' = DOMAIN artifact \cup {Len(artifact) + 1}
        /\ \A a \in DOMAIN artifact : artifact'[a] = artifact[a]
        /\ artifact'[Len(artifact) + 1].authority = "none"
    BY Zenon, <1>1, <2>1, RegisterStep
  <2>3. \A q \in Phases : /\ phase'[q].gen = phase[q].gen /\ phase'[q].commit = phase[q].commit
                          /\ phase[q].outputs \subseteq phase'[q].outputs
    BY <1>6 DEF Produces, PhasesTurn, Turns
  <2> QED
    BY <1>2, <2>2, <2>3, SMTT(30) DEF AuthorityCommitted
<1>7. ASSUME NEW p \in Phases, Reserves(p)
      PROVE  AuthorityCommitted(phase', artifact')
  <2>1. /\ artifact' = artifact /\ \A q \in Phases : q # p => phase'[q] = phase[q]
        /\ phase[p].state \notin {"committed", "retired"}
    BY <1>7 DEF Reserves
  <2>2. ~phase[p].commit
    BY <2>1 DEF CommitInv, Sound
  <2> QED
    BY <1>2, <2>1, <2>2, SMT DEF AuthorityCommitted
<1>8. ASSUME NEW t \in Threads, CommitPublished(t), Publishes(thread[t].phase)
      PROVE  AuthorityCommitted(phase', artifact')
  <2> DEFINE p == thread[t].phase
  <2>1. /\ p \in Phases /\ phase[p].state = "commit_ready" /\ phase' = CommittedPhases(p)
        /\ artifact' = GrantAuthority(artifact, phase[p].outputs) /\ Passed(p)
    BY <1>8, CallType, CommitPassed DEF Publishes, Grants, CommitPublished
  <2>2. OwnOutputs(phase, artifact)
    BY DEF AuthorityInv, Coherent
  <2> HIDE DEF p
  <2>3. /\ \A q \in Phases : q # p => phase'[q] = phase[q]
        /\ phase'[p].commit /\ phase'[p].gen = phase[p].gen /\ phase'[p].outputs = phase[p].outputs
    BY <2>1, ProjectionFacts
  <2>4. /\ DOMAIN artifact' = DOMAIN artifact
        /\ \A a \in DOMAIN artifact :
             /\ artifact'[a].phase = artifact[a].phase /\ artifact'[a].gen = artifact[a].gen
             /\ artifact'[a].state = artifact[a].state
             /\ artifact'[a].authority = artifact[a].authority
                  \/ (a \in phase[p].outputs /\ artifact'[a].authority = "authoritative")
    BY Zenon, <1>1, <2>1, GrantStep
  <2>5. ASSUME NEW a \in DOMAIN artifact, artifact[a].authority = "authoritative"
        PROVE  /\ Consumable(artifact'[a]) /\ artifact'[a].gen = phase'[artifact'[a].phase].gen
               /\ a \in phase'[artifact'[a].phase].outputs /\ phase'[artifact'[a].phase].commit
    BY <1>2, <2>3, <2>4, <2>5, SMT DEF AuthorityCommitted, Consumable
  <2>6. ASSUME NEW a \in DOMAIN artifact, a \in phase[p].outputs
        PROVE  /\ Consumable(artifact'[a]) /\ artifact'[a].gen = phase'[artifact'[a].phase].gen
               /\ a \in phase'[artifact'[a].phase].outputs /\ phase'[artifact'[a].phase].commit
    <3>1. artifact[a].phase = p /\ artifact[a].gen = phase[p].gen
      BY <2>1, <2>2, <2>6 DEF OwnOutputs
    <3>2. artifact[a].state = "valid"
      BY <2>1, <2>6 DEF Passed, Consumable
    <3> QED
      BY <2>3, <2>4, <2>6, <3>1, <3>2 DEF Consumable
  <2> QED
    BY <2>4, <2>5, <2>6 DEF AuthorityCommitted
<1> QED
  BY <1>3, <1>4, <1>5, <1>6, <1>7, <1>8, NothingDiscarded, StepKind

\* Without errors a call that records, reproduces, validates or commits keeps
\* its reservation until its phase is no longer in flight.
LEMMA CallStays ==
  ASSUME TypeOK, CallsOwn, ~Faults, NEW t \in Threads, Step(t), thread[t].pc \in Working, Current(t),
         phase'[thread[t].phase].state \in InFlight
  PROVE  \E pc \in Working : Goto(t, pc)
<1> DEFINE p == thread[t].phase
           S(to) == RecordTransition(phase[p].state, to)
<1>1. phase \in [Phases -> PhaseRecord] /\ p \in Phases /\ phase[p].state \in PhaseState
  BY CallType DEF TypeOK, PhaseRecord
<1>2. \A ok \in BOOLEAN : Persist(ok) => ok
  BY DEF Persist
<1>3. S("failed") \notin InFlight
  BY <1>1, FailedEnds
<1>4. \A f : phase' # [phase EXCEPT ![p].state = S("failed"), ![p].failure = f]
  <2> SUFFICES ASSUME NEW f, phase' = [phase EXCEPT ![p].state = S("failed"), ![p].failure = f]
               PROVE  FALSE
    OBVIOUS
  <2> HIDE DEF S, p
  <2>1. Updated(p, S("failed"), f, phase[p].inv, phase[p].outputs)
    BY <1>1, UpdateFailure
  <2> QED
    BY <1>3, <2>1 DEF Updated, p
<1>5. {"execute", "abort", "check", "repro", "validate", "commit"} \subseteq Working
  BY DEF Working, Executing, Judging
<1>6. CASE Launch(t)
  BY <1>5, <1>6 DEF Launch
<1>7. CASE Record(t)
  <2>1. ~RecordStopped(p)
    BY DEF RecordStopped
  <2> QED
    BY <1>2, <1>5, <1>7, <2>1 DEF Record
<1>8. CASE Check(t)
  <2>1. phase[p].state # "failed"
    BY <1>8 DEF Check, InFlight
  <2> QED
    BY <1>5, <1>8, <2>1 DEF Check
<1>9. CASE Reproduce(t)
  BY <1>4, <1>5, <1>9 DEF Reproduce
<1>10. CASE Validate(t)
  BY <1>2, <1>4, <1>5, <1>10 DEF Validate
<1>11. CASE CommitRefused(t)
  <2>1. thread[t].pc = "commit" /\ phase' = phase /\ phase[p].state # "commit_ready"
    BY <1>11 DEF CommitRefused, Committable
  <2>2. OnStage(t)
    BY DEF CallsOwn
  <2> QED
    BY <2>1, <2>2 DEF OnStage
<1>12. CASE CommitUnprobed(t) \/ CommitFenced(t)
  <2>1. phase[p].state = "commit_ready"
    BY <1>12 DEF CommitUnprobed, CommitFenced, Committable
  <2>2. S("fenced") \notin InFlight
    BY <2>1, InFlightEnds DEF InFlight
  <2>3. PICK f : phase' = [phase EXCEPT ![p].state = S("fenced"), ![p].failure = f]
    BY <1>12 DEF CommitUnprobed, CommitFenced
  <2> HIDE DEF S, p
  <2>4. Updated(p, S("fenced"), f, phase[p].inv, phase[p].outputs)
    BY <1>1, <2>3, UpdateFailure
  <2> QED
    BY <2>2, <2>4 DEF Updated, p
<1>13. CASE CommitUngranted(t) \/ CommitUnpersisted(t)
  BY <1>13, NothingDiscarded, CommitKind
<1>14. CASE CommitPublished(t)
  <2>1. phase' = CommittedPhases(p) /\ phase[p].state = "commit_ready"
    BY <1>14 DEF CommitPublished, CommitGranted, Committable
  <2>2. phase'[p].state = "committed"
    BY <1>1, <2>1, ProjectionFacts
  <2> QED
    BY <2>2 DEF InFlight
<1>15. CASE \/ ReserveDecided(t) \/ ReserveRefused(t) \/ Drive(t) \/ Report(t) \/ Halt(t) \/ CancelNext(t)
            \/ CancelDone(t) \/ ShutdownSave(t) \/ ApplyRecovery(t)
  <2>1. thread[t].pc \in {"reserve", "drive", "report", "halt", "cancelling", "stopping", "recover"}
    BY ZenonT(60), <1>15 DEF ReserveDecided, ReserveRefused, Drive, Report, Halt, CancelNext, CancelDone,
                             ShutdownSave, ApplyRecovery
  <2> QED
    BY <2>1 DEF Working, Executing, Judging
<1> QED
  BY <1>6, <1>7, <1>8, <1>9, <1>10, <1>11, <1>12, <1>13, <1>14, <1>15 DEF Step

\* So every call that works on a phase in flight goes on doing so.
LEMMA OwnersStay ==
  ASSUME TypeOK, CallsOwn, ~Faults, [Next]_vars, ~Restart, NEW u \in Threads, thread[u].pc \in Working,
         Current(u), phase'[thread[u].phase].state \in InFlight
  PROVE  /\ thread'[u].pc \in Working /\ thread'[u].phase = thread[u].phase
         /\ thread'[u].gen = thread[u].gen /\ thread'[u].inv = thread[u].inv
<1>1. CASE \/ \E p \in Phases : ReportOutput(p) \/ CancelPhase(p) \/ \E f \in Failures : FailPhase(p, f)
           \/ RetireSession \/ Reopen
           \/ \E d \in Domains : MoveGeneration(d)
           \/ UNCHANGED vars
  BY <1>1, SameCalls
<1>2. ASSUME NEW t \in Threads, t # u,
             \/ Step(t)
             \/ \E p \in Phases : RunPhase(t, p) \/ RetryPhase(t, p) \/ CommitPhase(t, p)
             \/ RunSession(t) \/ CancelSession(t) \/ Shutdown(t) \/ PlanRecovery(t)
      PROVE  thread'[u] = thread[u]
  BY <1>2, OneCall DEF Elsewhere
<1>3. CASE Step(u)
  <2>1. PICK pc \in Working : Goto(u, pc)
    BY <1>3, CallStays
  <2> QED
    BY <2>1, GotoFacts
<1>4. CASE \/ \E p \in Phases : RunPhase(u, p) \/ RetryPhase(u, p) \/ CommitPhase(u, p)
           \/ RunSession(u) \/ CancelSession(u) \/ Shutdown(u) \/ PlanRecovery(u)
  <2>1. thread[u].pc = "idle"
    BY ZenonT(60), <1>4 DEF RunPhase, RetryPhase, CommitPhase, RunSession, CancelSession, Shutdown, PlanRecovery
  <2> QED
    BY <2>1 DEF Working, Executing, Judging
<1>5. \/ \E t \in Threads :
           \/ Step(t)
           \/ \E p \in Phases : RunPhase(t, p) \/ RetryPhase(t, p) \/ CommitPhase(t, p)
           \/ RunSession(t) \/ CancelSession(t) \/ Shutdown(t) \/ PlanRecovery(t)
      \/ \E p \in Phases : ReportOutput(p) \/ CancelPhase(p) \/ \E f \in Failures : FailPhase(p, f)
      \/ RetireSession \/ Reopen
      \/ \E d \in Domains : MoveGeneration(d)
      \/ UNCHANGED vars
  BY Zenon DEF Next
<1> QED
  BY <1>1, <1>2, <1>3, <1>4, <1>5

\* What a call takes on keeps its reservation.
LEMMA AdvanceKeeps ==
  ASSUME TypeOK, NEW t \in Threads, Advances(t)
  PROVE  \A q \in Phases : /\ phase'[q].gen = phase[q].gen /\ phase'[q].inv = phase[q].inv
                           /\ phase'[q].state \in InFlight => phase[q].state \in InFlight
<1> DEFINE p == thread[t].phase
           S(to) == RecordTransition(phase[p].state, to)
           V == RecordTransition(S("produced"), "validating")
           o == phase[p].outputs \cup {Len(artifact) + 1}
<1>1. phase \in [Phases -> PhaseRecord] /\ p \in Phases /\ phase[p].state \in PhaseState
  BY CallType DEF TypeOK, PhaseRecord
<1>2. /\ S("running") \in InFlight => phase[p].state \in InFlight
      /\ S("produced") \in InFlight => phase[p].state \in InFlight
      /\ S("commit_ready") \in InFlight => phase[p].state \in InFlight
      /\ S("produced") \in PhaseState
  BY <1>1, RunTurns DEF StateTurns
<1>3. V \in InFlight => phase[p].state \in InFlight
  BY <1>2, RunTurns, SMT DEF StateTurns
<1>4. \/ phase' = phase
      \/ \E to \in {"running", "produced", "commit_ready"} : phase' = [phase EXCEPT ![p].state = S(to)]
      \/ phase' = [phase EXCEPT ![p].state = V, ![p].outputs = @ \cup {Len(artifact) + 1}]
  BY DEF Advances, Launches, Records, Stops, Accepts, RecordExecution, RecordStopped
<1> HIDE DEF S, V, p, o
<1>5. \/ phase' = phase
      \/ \E to \in {"running", "produced", "commit_ready"} :
           Updated(p, S(to), phase[p].failure, phase[p].inv, phase[p].outputs)
      \/ Updated(p, V, phase[p].failure, phase[p].inv, o)
  BY <1>1, <1>4, UpdateState, UpdateOutputs DEF o
<1> QED
  BY <1>1, <1>2, <1>3, <1>5 DEF Updated

\* Whatever is in flight after a step has a caller.
LEMMA OwnedStep ==
  ASSUME TypeOK, CommitInv, AuthorityInv, CallsOwn, ~Faults, "report" \notin Ops, InFlightIsOwned, [Next]_vars
  PROVE  InFlightIsOwned'
<1> DEFINE Owns(t, p) == thread[t].pc \in Working /\ thread[t].phase = p /\ Current(t)
<1>1. Working = {"launch", "execute", "abort", "check", "repro", "validate", "commit"}
  BY DEF Working, Executing, Judging
<1>2. ASSUME NEW p \in Phases, phase[p].state \in InFlight
      PROVE  \E u \in Threads : Owns(u, p)
  BY <1>1, <1>2 DEF InFlightIsOwned
<1> SUFFICES ASSUME NEW p \in Phases, phase'[p].state \in InFlight
             PROVE  \E u \in Threads : /\ thread'[u].pc \in Working /\ thread'[u].phase = p
                                       /\ phase'[p].gen = thread'[u].gen /\ phase'[p].inv = thread'[u].inv
  BY <1>1, SMT DEF InFlightIsOwned, Current
<1>3. ~Restart
  <2> SUFFICES ASSUME Restart
               PROVE  FALSE
    OBVIOUS
  <2>1. /\ phase' = Fenced(durable.phase) /\ durable.phase \in [Phases -> PhaseRecord]
        /\ durable.artifact \in Seq(Artifact)
    BY DEF Restart, TypeOK, BundleType
  <2> QED
    BY <2>1, FencedFacts DEF InFlight
<1>4. ASSUME NEW t \in Threads, NEW q \in Phases, NEW r \in BOOLEAN, NEW d \in BOOLEAN,
             thread[t].pc \in {"idle", "reserve"}, Reserve(t, q, r, d)
      PROVE  \E u \in Threads : /\ thread'[u].pc \in Working /\ thread'[u].phase = p
                                /\ phase'[p].gen = thread'[u].gen /\ phase'[p].inv = thread'[u].inv
  <2>1. /\ Elsewhere(t)
        /\ thread'[t].pc = "launch" /\ thread'[t].phase = q
        /\ thread'[t].gen = phase[q].gen + 1 /\ thread'[t].inv = nextId
    BY <1>4, ReserveFacts, SMT
  <2>2. /\ \A s \in Phases : s # q => phase'[s] = phase[s]
        /\ phase'[q].gen = phase[q].gen + 1 /\ phase'[q].inv = nextId
    <3>1. Reserves(q)
      BY <1>4, ReserveKind
    <3> QED
      BY <3>1 DEF Reserves
  <2>3. CASE p = q
    BY <1>1, <2>1, <2>2, <2>3
  <2>4. CASE p # q
    <3>1. phase'[p] = phase[p]
      BY <2>2, <2>4
    <3>2. PICK u \in Threads : Owns(u, p)
      BY <1>2, <3>1
    <3>3. u # t
      BY <1>1, <1>4, <3>2
    <3>4. thread'[u] = thread[u]
      BY <2>1, <3>3 DEF Elsewhere
    <3> QED
      BY <3>1, <3>2, <3>4 DEF Current
  <2> QED
    BY <2>3, <2>4
<1>5. ASSUME /\ phase'[p].gen = phase[p].gen /\ phase'[p].inv = phase[p].inv
             /\ phase[p].state \in InFlight
      PROVE  \E u \in Threads : /\ thread'[u].pc \in Working /\ thread'[u].phase = p
                                /\ phase'[p].gen = thread'[u].gen /\ phase'[p].inv = thread'[u].inv
  <2>1. PICK u \in Threads : Owns(u, p)
    BY <1>2, <1>5
  <2>2. /\ thread'[u].pc \in Working /\ thread'[u].phase = thread[u].phase
        /\ thread'[u].gen = thread[u].gen /\ thread'[u].inv = thread[u].inv
    BY <1>3, <2>1, OwnersStay
  <2> QED
    BY <1>5, <2>1, <2>2 DEF Current
<1>6. CASE \E t \in Threads : Advances(t)
  BY <1>5, <1>6, AdvanceKeeps
<1>7. CASE Calm
  BY <1>5, <1>7 DEF Calm, Steady
<1> HIDE DEF Owns
<1> QED
  BY <1>3, <1>4, <1>6, <1>7, CallStep

\* Every step keeps the invariant.
LEMMA OwnedKeeps ==
  ASSUME TypeOK, CommitInv, AuthorityInv, CallInv, OwnedInv, ~Faults, "report" \notin Ops, [Next]_vars
  PROVE  OwnedInv'
<1>1. CallsOwn
  BY DEF CallInv, CallsOwn
<1>2. AuthorityCommitted(phase', artifact')
  BY <1>1, CommittedAuthority DEF OwnedInv
<1>3. InFlightIsOwned'
  BY <1>1, OwnedStep DEF OwnedInv
<1>4. AuthorityCommitted(durable'.phase, durable'.artifact)
  <2>1. durable' \in {durable, Bundle'}
    BY JournalStep DEF Saves
  <2>2. Bundle'.phase = phase' /\ Bundle'.artifact = artifact'
    BY DEF Bundle
  <2> QED
    BY <1>2, <2>1, <2>2 DEF OwnedInv
<1> QED
  BY <1>2, <1>3, <1>4 DEF OwnedInv

\* The inductive invariant of a runtime whose journal and store do not fail.
THEOREM OwnedInvariant ==
  ASSUME "report" \notin Ops, ~Faults
  PROVE  Spec => []OwnedInv
<1>1. Init => OwnedInv
  <2> SUFFICES ASSUME Init
               PROVE  OwnedInv
    OBVIOUS
  <2>1. /\ durable.artifact = artifact /\ \A p \in Phases : phase[p].state = "pending"
    BY SMTT(30) DEF Init, Bundle
  <2>2. DOMAIN artifact = {}
    BY SMT DEF Init
  <2> QED
    BY <2>1, <2>2 DEF OwnedInv, AuthorityCommitted, InFlightIsOwned, InFlight
<1>2. TypeOK /\ CommitInv /\ AuthorityInv /\ CallInv /\ OwnedInv /\ [Next]_vars => OwnedInv'
  BY OwnedKeeps
<1> QED
  BY <1>1, <1>2, TypeCorrect, CommitInvariant, AuthorityInvariant, CallInvariant, PTL DEF Spec

\* An authoritative artifact is valid and an output of the generation of its
\* phase that committed, for any plan, callers and bounds, restarts included,
\* where no append fails and executions are recorded by the call that ran them:
\* with a journal error commit_reserved has granted authority before it persists.
THEOREM AuthorityOfCommit ==
  ASSUME "report" \notin Ops, ~Faults
  PROVE  Spec => []AuthorityNeedsCommit
<1>1. OwnedInv => AuthorityNeedsCommit
  BY DEF OwnedInv, AuthorityCommitted, AuthorityNeedsCommit
<1> QED
  BY <1>1, OwnedInvariant, PTL

\* Every phase in flight has a caller with its current reservation, which will
\* conclude it, for any plan, callers and bounds, under the same assumptions:
\* with a journal error reserve leaves a phase reserved that no call works on.
THEOREM InFlightHasCaller ==
  ASSUME "report" \notin Ops, ~Faults
  PROVE  Spec => []InFlightIsOwned
<1>1. OwnedInv => InFlightIsOwned
  BY DEF OwnedInv
<1> QED
  BY <1>1, OwnedInvariant, PTL
=============================================================================
