--------------------------- MODULE ExecutionProofs ---------------------------
(***************************************************************************)
(* Any number of invocations, collecting threads and calls of shutdown:      *)
(* one thread collects each child, outcomes are honest and complete, and a    *)
(* shutdown accounts for every child that still runs.                        *)
(***************************************************************************)
EXTENDS LocalExecution, FiniteSetTheorems, TLAPS

\* Most leaves are first-order and go to Zenon; one that needs arithmetic or
\* typed records cites SMT.
USE Zenon

HandleType ==
  [terminate_requested : BOOLEAN, collecting : BOOLEAN, finished : BOOLEAN,
   outcome : {"none", "killed", "exited", "unknown"}]

\* Places in ProcessHandle::wait.
Waiting == {Idle} \cup [at : {"child", "observe", "join", "returned"}, of : Children]

\* The type of the variables that the argument reads.
ExecutionTypeOK ==
  /\ child \in [Children -> {"none", "running", "ended", "stopped"}]
  /\ readers \in [Children -> {"none", "reading", "done"}]
  /\ handle \in [Children -> HandleType]
  /\ waiting \in [Collectors -> Waiting]
  /\ live \subseteq Children /\ handed \subseteq Children
  /\ toStop \in [Closers -> SUBSET Children]
  /\ pc \in [Children -> {"idle", "enter", "check", "refused", "launch", "supervise", "readers",
                         "poll", "waiting", "reap", "done"}]
  /\ closer \in [Closers -> {"idle", "terminate_all", "terminating", "close", "closing", "done"}]
  /\ session_cancel \in [Sessions -> BOOLEAN]

\* Before the child exists nobody knows of it: not the supervisor, not the executor, no
\* closer and no thread in wait; and its readers are there once its thread polls.
Begun(c) == child[c] # "none"

ThreadInv ==
  /\ \A c \in Children : pc[c] \in {"idle", "enter", "check", "launch"} => ~Begun(c)
  /\ \A c \in Children :
       pc[c] \in {"idle", "enter", "check", "launch", "supervise", "readers"} => readers[c] = "none"
  /\ \A c \in Children : pc[c] \in {"supervise", "readers", "poll"} => Begun(c)
  /\ \A c \in Children : pc[c] = "poll" => readers[c] # "none"
  /\ \A c \in Children : child[c] = "running" => pc[c] \in {"supervise", "readers", "poll"}
  /\ \A c \in live \cup handed : Begun(c)
  /\ \A t \in Closers : \A c \in toStop[t] : Begun(c)
  /\ \A t \in Collectors : waiting[t] # Idle => Begun(waiting[t].of)

\* Threads that wait for the child c and have not got its outcome.
Waits(t, c) == waiting[t] = At("child", c) \/ waiting[t] = At("observe", c) \/ waiting[t] = At("join", c)

\* A thread that joins is the only one and holds the flag; a termination is asked for, or an
\* outcome there, only once the child is over; a thread waits for a child that has its
\* readers or that was told to stop.
HandleInv ==
  /\ \A t, u \in Collectors : \A c \in Children :
       waiting[t] = At("join", c) /\ waiting[u] = At("join", c) => t = u
  /\ \A t \in Collectors : \A c \in Children :
       waiting[t] = At("join", c) => handle[c].collecting /\ ~handle[c].finished /\ Over(c)
  /\ \A c \in Children : handle[c].finished \/ handle[c].terminate_requested => Over(c)
  /\ \A c \in Children : handle[c].finished =>
       /\ handle[c].outcome = "killed" => handle[c].terminate_requested
       /\ handle[c].terminate_requested => handle[c].outcome \in {"killed", "unknown"}
  /\ \A t \in Collectors : \A c \in Children :
       Waits(t, c) => handle[c].terminate_requested \/ handle[c].finished \/ readers[c] # "none"
  /\ \A c \in Children : handle[c].finished /\ ~handle[c].terminate_requested => readers[c] = "done"

\* A call of shutdown that has begun has flagged the sessions, and one that goes through the
\* handles or has returned found the supervisor closed or closed it.
ShutdownInv ==
  /\ shutting_down => \A s \in Sessions : session_cancel[s]
  /\ \A t \in Closers : closer[t] # "idle" => shutting_down
  /\ \A t \in Closers : closer[t] \in {"closing", "done"} => closed

ExecutionInv == ExecutionTypeOK /\ ThreadInv /\ HandleInv /\ ShutdownInv

-----------------------------------------------------------------------------
(* The properties follow from the invariant. *)

\* A set without two members has at most one.
LEMMA AtMostOne ==
  ASSUME NEW S, \A x, y \in S : x = y
  PROVE  Cardinality(S) <= 1
<1>1. CASE S = {}
  BY <1>1, FS_EmptySet, SMT
<1>2. CASE S # {}
  <2>1. PICK x \in S : TRUE
    BY <1>2
  <2>2. S = {x}
    BY <2>1
  <2>. QED  BY <2>2, FS_Singleton, SMT
<1>. QED  BY <1>1, <1>2

\* The properties of LocalExecution that hold in every state of the invariant.
LEMMA InvImplies ==
  ASSUME ExecutionInv
  PROVE  OneCollector /\ OutcomeHonest /\ CaptureWhole /\ ShutdownAccounts
<1>1. OneCollector
  <2>1. SUFFICES ASSUME NEW c \in Children
                 PROVE  /\ Cardinality({t \in Collectors : waiting[t] = At("join", c)}) <= 1
                        /\ (\E t \in Collectors : waiting[t] = At("join", c))
                             => handle[c].collecting /\ ~handle[c].finished
    BY DEF OneCollector
  <2>2. Cardinality({t \in Collectors : waiting[t] = At("join", c)}) <= 1
    <3>1. \A t, u \in {v \in Collectors : waiting[v] = At("join", c)} : t = u
      BY DEF ExecutionInv, HandleInv
    <3>. QED  BY <3>1, AtMostOne
  <2>3. (\E t \in Collectors : waiting[t] = At("join", c)) => handle[c].collecting /\ ~handle[c].finished
    BY DEF ExecutionInv, HandleInv
  <2>. QED  BY <2>2, <2>3
<1>2. OutcomeHonest
  BY DEF ExecutionInv, HandleInv, OutcomeHonest
<1>3. CaptureWhole
  BY DEF ExecutionInv, HandleInv, CaptureWhole
<1>4. ShutdownAccounts
  BY ExecutionAssumption DEF ExecutionInv, ShutdownInv, ThreadInv, ShutdownAccounts
<1>. QED  BY <1>1, <1>2, <1>3, <1>4

\* No child, no handle in use and no call of shutdown: the runtime as it was created.
LEMMA InitInv == Init => ExecutionInv
<1>. SUFFICES ASSUME Init PROVE ExecutionInv
  OBVIOUS
<1>. USE DEF Init, SupervisorInit
<1>1. ExecutionTypeOK
  <2>1. Fresh \in HandleType
    BY DEF Fresh, HandleType
  <2>2. Idle \in Waiting
    BY DEF Waiting
  <2>3. handle \in [Children -> HandleType] /\ waiting \in [Collectors -> Waiting]
    BY <2>1, <2>2
  <2>4. child \in [Children -> {"none", "running", "ended", "stopped"}]
    OBVIOUS
  <2>5. readers \in [Children -> {"none", "reading", "done"}]
    OBVIOUS
  <2>6. live \subseteq Children /\ handed \subseteq Children /\ toStop \in [Closers -> SUBSET Children]
    OBVIOUS
  <2>. QED  BY <2>3, <2>4, <2>5, <2>6 DEF ExecutionTypeOK
<1>2. ThreadInv
  BY DEF ThreadInv, Begun
<1>3. HandleInv
  BY DEF HandleInv, Fresh, Idle, At, Waits, Over
<1>4. ShutdownInv
  BY DEF ShutdownInv
<1>. QED  BY <1>1, <1>2, <1>3, <1>4 DEF ExecutionInv

-----------------------------------------------------------------------------
(* What the steps of the supervisor do to one child and leave of the others. *)

\* ProcessHandle::terminate of a child that exists leaves it over, changes nothing of an
\* outcome, and reaches no other child.
LEMMA TerminatedEffect ==
  ASSUME ExecutionInv, NEW c \in Children, Begun(c), Terminated(c)
  PROVE  /\ child' \in [Children -> {"none", "running", "ended", "stopped"}]
         /\ handle' \in [Children -> HandleType]
         /\ child'[c] \in {"ended", "stopped"}
         /\ Over(c) => child'[c] = child[c]
         /\ handle'[c].terminate_requested \/ handle'[c].finished
         /\ handle[c].finished => handle'[c].terminate_requested = handle[c].terminate_requested
         /\ handle[c].terminate_requested => handle'[c].terminate_requested
         /\ handle'[c].finished = handle[c].finished
         /\ handle'[c].collecting = handle[c].collecting
         /\ handle'[c].outcome = handle[c].outcome
         /\ \A d \in Children \ {c} : child'[d] = child[d] /\ handle'[d] = handle[d]
<1>. USE DEF ExecutionInv, ExecutionTypeOK, HandleType, Terminated, Refuses
<1>1. child' \in [Children -> {"none", "running", "ended", "stopped"}]
  OBVIOUS
<1>2. handle' \in [Children -> HandleType]
  <2>1. [handle[c] EXCEPT !.terminate_requested = @ \/ ~Refuses(c)] \in HandleType
    BY Zenon, SMT
  <2>. QED  BY <2>1
<1>3. child'[c] \in {"ended", "stopped"}
  BY SMT DEF HandleInv, Over, Begun
<1>4. Over(c) => child'[c] = child[c]
  BY DEF Over
<1>5. /\ handle'[c].terminate_requested = (handle[c].terminate_requested \/ ~handle[c].finished)
      /\ handle'[c].finished = handle[c].finished
      /\ handle'[c].collecting = handle[c].collecting
      /\ handle'[c].outcome = handle[c].outcome
  BY SMT
<1>6. \A d \in Children \ {c} : child'[d] = child[d] /\ handle'[d] = handle[d]
  OBVIOUS
<1>. QED  BY <1>1, <1>2, <1>3, <1>4, <1>5, <1>6

\* A step that touches no child, no handle and no wait keeps what is said of them.
LEMMA Untouched ==
  ASSUME ExecutionInv, UNCHANGED <<child, readers, handle, waiting, live, pc, handed, toStop>>
  PROVE  ThreadInv' /\ HandleInv'
<1>1. ThreadInv'
  BY DEF ExecutionInv, ThreadInv, Begun
<1>2. HandleInv'
  BY DEF ExecutionInv, HandleInv, Waits, Over
<1>. QED  BY <1>1, <1>2

-----------------------------------------------------------------------------
(* The steps of an invocation that the supervisor does not see. *)

\* Prepare, Enter, SpawnCheck, SpawnFails, Forget and Reap move the thread of an invocation
\* and leave children, handles and waits alone.
LEMMA ThreadStep ==
  ASSUME ExecutionInv, NEW c \in Children,
         Prepare(c) \/ Enter(c) \/ SpawnCheck(c) \/ SpawnFails(c) \/ Forget(c) \/ Reap(c)
  PROVE  ExecutionInv'
<1>. USE DEF ExecutionInv, Prepare, Enter, SpawnCheck, SpawnFails, Forget, Forgotten, Reap, reap,
             Goes, supervisorVars, cancelVars, shutdownVars
<1>1. ExecutionTypeOK'
  BY SMT DEF ExecutionTypeOK, Waiting
<1>2. ThreadInv'
  <2>1. child[c] = "running" => pc[c] \in {"supervise", "readers", "poll"}
    BY DEF ThreadInv
  <2>. QED  BY <2>1, SMT DEF ThreadInv, Begun, ExecutionTypeOK
<1>3. HandleInv'
  BY SMT DEF HandleInv, Waits, Over
<1>4. ShutdownInv'
  BY SMT DEF ShutdownInv
<1>. QED  BY <1>1, <1>2, <1>3, <1>4

\* The three steps of spawn.
LEMMA SpawnStep ==
  ASSUME ExecutionInv, NEW c \in Children,
         SpawnLaunch(c) \/ SpawnSupervise(c) \/ SpawnReaders(c)
  PROVE  ExecutionInv'
<1>. USE DEF ExecutionInv, SpawnLaunch, SpawnSupervise, SpawnReaders, Launch, Supervise, StartReaders,
             Goes, cancelVars, shutdownVars
<1>1. ExecutionTypeOK'
  BY SMT DEF ExecutionTypeOK, Waiting
<1>2. ThreadInv'
  <2>1. CASE SpawnLaunch(c)
    BY <2>1, SMT DEF ThreadInv, Begun, ExecutionTypeOK
  <2>2. CASE SpawnSupervise(c)
    BY <2>2, SMT DEF ThreadInv, Begun, ExecutionTypeOK
  <2>3. CASE SpawnReaders(c)
    BY <2>3, SMT DEF ThreadInv, Begun, ExecutionTypeOK
  <2>. QED  BY <2>1, <2>2, <2>3
<1>3. HandleInv'
  <2>1. CASE SpawnLaunch(c)
    BY <2>1, SMT DEF HandleInv, ThreadInv, Waits, Over, Begun, ExecutionTypeOK
  <2>2. CASE SpawnSupervise(c)
    BY <2>2 DEF HandleInv, Waits, Over
  <2>3. CASE SpawnReaders(c)
    BY <2>3, SMT DEF HandleInv, ThreadInv, Waits, Over, ExecutionTypeOK
  <2>. QED  BY <2>1, <2>2, <2>3
<1>4. ShutdownInv'
  BY SMT DEF ShutdownInv
<1>. QED  BY <1>1, <1>2, <1>3, <1>4

\* A child ends, its helper ends, or its readers see the end of the streams.
LEMMA ChildStep ==
  ASSUME ExecutionInv, NEW c \in Children, Child(c) \/ Read(c)
  PROVE  ExecutionInv'
<1>. USE DEF ExecutionInv, Child, Read, Exit, HelperExits, Drain, threadVars, cancelVars, shutdownVars
<1>1. ExecutionTypeOK'
  BY SMT DEF ExecutionTypeOK, Waiting
<1>2. ThreadInv'
  <2>1. CASE Exit(c)
    BY <2>1, SMT DEF ThreadInv, Begun, ExecutionTypeOK
  <2>2. CASE HelperExits(c)
    BY <2>2 DEF ThreadInv, Begun
  <2>3. CASE Drain(c)
    BY <2>3 DEF ThreadInv, Begun, ExecutionTypeOK
  <2>. QED  BY <2>1, <2>2, <2>3
<1>3. HandleInv'
  BY SMT DEF HandleInv, Waits, Over, ExecutionTypeOK
<1>4. ShutdownInv'
  BY SMT DEF ShutdownInv
<1>. QED  BY <1>1, <1>2, <1>3, <1>4

-----------------------------------------------------------------------------
(* Termination and wait. *)

\* A place in wait tells the child and the step.
LEMMA AtFields ==
  ASSUME NEW p, NEW q, NEW c, NEW d, At(p, c) = At(q, d)
  PROVE  p = q /\ c = d
<1>1. At(p, c).at = p /\ At(p, c).of = c /\ At(q, d).at = q /\ At(q, d).of = d
  BY DEF At
<1>. QED  BY <1>1

\* A call of wait puts a thread in front of the child or finds the outcome there.
LEMMA WaitBeginsEffect ==
  ASSUME ExecutionInv, NEW c \in Children, NEW t \in Collectors, WaitBegins(t, c)
  PROVE  /\ waiting' \in [Collectors -> Waiting]
         /\ waiting'[t] # Idle /\ waiting'[t].of = c
         /\ waiting'[t] = At("child", c) \/ waiting'[t] = At("returned", c)
         /\ handle[c].finished => waiting'[t] = At("returned", c)
         /\ \A u \in Collectors \ {t} : waiting'[u] = waiting[u]
BY DEF ExecutionInv, ExecutionTypeOK, Waiting, WaitBegins, At, Idle

\* A child that is over or is stopped here may be waited for: nobody joins who did not
\* before, and who waits for it will get the outcome of a stopped child or all of its output.
LEMMA StopHandle ==
  ASSUME ExecutionInv, NEW c \in Children, NEW t \in Collectors, Begun(c), Terminated(c),
         readers' = readers, waiting' = waiting \/ WaitBegins(t, c)
  PROVE  HandleInv'
<1>. DEFINE Joins(u, d) == waiting[u] = At("join", d)
<1>1. /\ Over(c)' /\ (handle'[c].terminate_requested \/ handle'[c].finished)
      /\ handle[c].finished => handle'[c].terminate_requested = handle[c].terminate_requested
      /\ handle[c].terminate_requested => handle'[c].terminate_requested
      /\ handle'[c].finished = handle[c].finished
      /\ handle'[c].collecting = handle[c].collecting
      /\ handle'[c].outcome = handle[c].outcome
      /\ \A d \in Children \ {c} : child'[d] = child[d] /\ handle'[d] = handle[d]
  BY TerminatedEffect DEF Over
<1>2. \A u \in Collectors : \A d \in Children : Joins(u, d)' => Joins(u, d)
  <2>1. CASE waiting' = waiting
    BY <2>1
  <2>2. CASE WaitBegins(t, c)
    <3>1. \A d \in Children : waiting'[t] # At("join", d)
      <4>1. waiting'[t] = At("child", c) \/ waiting'[t] = At("returned", c)
        BY <2>2, WaitBeginsEffect
      <4>. QED  BY <4>1, AtFields
    <3>2. \A u \in Collectors \ {t} : waiting'[u] = waiting[u]
      BY <2>2, WaitBeginsEffect
    <3>. QED  BY <3>1, <3>2
  <2>. QED  BY <2>1, <2>2
<1>3. \A u \in Collectors : \A d \in Children : Waits(u, d)' => Waits(u, d) \/ d = c
  <2>1. CASE waiting' = waiting
    BY <2>1 DEF Waits
  <2>2. CASE WaitBegins(t, c)
    <3>1. \A d \in Children : Waits(t, d)' => d = c
      <4>1. waiting'[t] = At("child", c) \/ waiting'[t] = At("returned", c)
        BY <2>2, WaitBeginsEffect
      <4>. QED  BY <4>1, AtFields DEF Waits
    <3>2. \A u \in Collectors \ {t} : waiting'[u] = waiting[u]
      BY <2>2, WaitBeginsEffect
    <3>. QED  BY <3>1, <3>2 DEF Waits
  <2>. QED  BY <2>1, <2>2
<1>4. \A u, v \in Collectors : \A d \in Children : Joins(u, d)' /\ Joins(v, d)' => u = v
  BY <1>2 DEF ExecutionInv, HandleInv
<1>5. \A u \in Collectors : \A d \in Children :
        Joins(u, d)' => handle'[d].collecting /\ ~handle'[d].finished /\ Over(d)'
  BY <1>1, <1>2, SMT DEF ExecutionInv, HandleInv, Over
<1>6. \A d \in Children : handle'[d].finished \/ handle'[d].terminate_requested => Over(d)'
  BY <1>1 DEF ExecutionInv, HandleInv, Over
<1>7. \A d \in Children : handle'[d].finished =>
        /\ handle'[d].outcome = "killed" => handle'[d].terminate_requested
        /\ handle'[d].terminate_requested => handle'[d].outcome \in {"killed", "unknown"}
        /\ ~handle'[d].terminate_requested => readers'[d] = "done"
  BY <1>1 DEF ExecutionInv, HandleInv
<1>8. \A u \in Collectors : \A d \in Children :
        Waits(u, d)' => handle'[d].terminate_requested \/ handle'[d].finished \/ readers'[d] # "none"
  BY <1>1, <1>3 DEF ExecutionInv, HandleInv
<1>. HIDE DEF Joins
<1>. QED  BY <1>4, <1>5, <1>6, <1>7, <1>8 DEF HandleInv, Joins

\* The thread of an invocation leaves the polling loop: the child is over, or is stopped now.
LEMMA PollStep ==
  ASSUME ExecutionInv, NEW c \in Children, Poll(c)
  PROVE  ExecutionInv'
<1>1. c \in Collectors /\ Begun(c) /\ readers[c] # "none" /\ WaitBegins(c, c)
  BY ExecutionAssumption DEF Poll, Goes, ExecutionInv, ThreadInv
<1>2. \/ UNCHANGED <<child, handle>> /\ child[c] # "running"
      \/ Terminated(c)
  BY DEF Poll, running, ExecutionInv, HandleInv, Over
<1>3. /\ child' \in [Children -> {"none", "running", "ended", "stopped"}]
      /\ handle' \in [Children -> HandleType]
      /\ child'[c] \notin {"none", "running"}
      /\ \A d \in Children \ {c} : child'[d] = child[d]
  <2>1. CASE UNCHANGED <<child, handle>> /\ child[c] # "running"
    BY <1>1, <2>1 DEF ExecutionInv, ExecutionTypeOK, Begun
  <2>2. CASE Terminated(c)
    BY <1>1, <2>2, TerminatedEffect
  <2>. QED  BY <1>2, <2>1, <2>2
<1>4. ExecutionTypeOK'
  BY <1>1, <1>3, WaitBeginsEffect, Zenon
     DEF ExecutionInv, ExecutionTypeOK, Poll, Goes, shutdownVars, cancelVars, Waiting
<1>5. ThreadInv'
  <2>1. \A d \in Children : Begun(d) => Begun(d)'
    BY <1>1, <1>3 DEF Begun
  <2>2. \A d \in Children : Begun(d)' => Begun(d)
    BY <1>1, <1>3 DEF Begun
  <2>3. /\ waiting'[c].of = c
        /\ \A u \in Collectors \ {c} : waiting'[u] = waiting[u]
    BY <1>1, WaitBeginsEffect
  <2>4. \A u \in Collectors : (waiting[u] # Idle => Begun(waiting[u].of))'
    <3>1. \A u \in Collectors \ {c} : waiting[u] # Idle => waiting[u].of \in Children
      BY DEF ExecutionInv, ExecutionTypeOK, Waiting
    <3>2. \A u \in Collectors \ {c} : waiting[u] # Idle => Begun(waiting[u].of)
      BY DEF ExecutionInv, ThreadInv
    <3>. QED  BY <1>1, <2>1, <2>3, <3>1, <3>2 DEF Begun
  <2>5. /\ \A d \in live \cup handed : Begun(d)'
        /\ \A t \in Closers : \A d \in toStop[t] : Begun(d)'
    BY <2>1 DEF ExecutionInv, ThreadInv, ExecutionTypeOK
  <2>6. pc' = [pc EXCEPT ![c] = "waiting"] /\ UNCHANGED <<readers, live, handed, toStop>>
    BY DEF Poll, Goes, shutdownVars
  <2>7. \A d \in Children : child'[d] = "running" => pc'[d] \in {"supervise", "readers", "poll"}
    BY <1>3, <2>6, SMT DEF ExecutionInv, ThreadInv, ExecutionTypeOK
  <2>8. \A d \in Children : pc'[d] = pc[d] \/ pc'[d] = "waiting"
    BY <2>6 DEF ExecutionInv, ExecutionTypeOK
  <2>9. /\ \A d \in Children : pc'[d] \in {"idle", "enter", "check", "launch"} => ~Begun(d)'
        /\ \A d \in Children : pc'[d] \in {"supervise", "readers", "poll"} => Begun(d)'
    BY <2>1, <2>2, <2>8 DEF ExecutionInv, ThreadInv
  <2>10. /\ \A d \in Children :
             pc'[d] \in {"idle", "enter", "check", "launch", "supervise", "readers"} => readers'[d] = "none"
         /\ \A d \in Children : pc'[d] = "poll" => readers'[d] # "none"
    BY <2>6, <2>8 DEF ExecutionInv, ThreadInv
  <2>. QED  BY <2>4, <2>5, <2>6, <2>7, <2>9, <2>10 DEF ThreadInv
<1>6. HandleInv'
  <2>1. CASE Terminated(c)
    BY <1>1, <2>1, StopHandle DEF Poll
  <2>2. CASE UNCHANGED <<child, handle>>
    <3>1. \A d \in Children : waiting'[c] # At("join", d)
      <4>1. waiting'[c] = At("child", c) \/ waiting'[c] = At("returned", c)
        BY <1>1, WaitBeginsEffect
      <4>. QED  BY <4>1, AtFields
    <3>2. \A d \in Children : Waits(c, d)' => d = c
      <4>1. waiting'[c] = At("child", c) \/ waiting'[c] = At("returned", c)
        BY <1>1, WaitBeginsEffect
      <4>. QED  BY <4>1, AtFields DEF Waits
    <3>3. \A u \in Collectors \ {c} : waiting'[u] = waiting[u]
      BY <1>1, WaitBeginsEffect
    <3>4. readers' = readers
      BY DEF Poll
    <3>. QED  BY <1>1, <2>2, <3>1, <3>2, <3>3, <3>4, SMTT(30) DEF ExecutionInv, HandleInv, Waits, Over
  <2>. QED  BY <1>2, <2>1, <2>2
<1>7. ShutdownInv'
  BY DEF ExecutionInv, ShutdownInv, Poll, cancelVars, shutdownVars
<1>. QED  BY <1>4, <1>5, <1>6, <1>7 DEF ExecutionInv

\* A termination by another thread, which may wait for the child next.
LEMMA StopThreads ==
  ASSUME ExecutionInv, NEW c \in Children, NEW t \in Collectors, Begun(c), Terminated(c),
         readers' = readers, waiting' = waiting \/ WaitBegins(t, c),
         UNCHANGED threadVars, live' = live, \A u \in Closers : toStop'[u] \subseteq toStop[u]
  PROVE  ThreadInv'
<1>1. /\ child'[c] \in {"ended", "stopped"}
      /\ \A d \in Children \ {c} : child'[d] = child[d]
  BY TerminatedEffect
<1>2. \A d \in Children : Begun(d)' <=> Begun(d)
  BY <1>1 DEF Begun
<1>3. \A u \in Collectors : (waiting[u] # Idle => Begun(waiting[u].of))'
  <2>1. \A u \in Collectors : waiting[u] # Idle => waiting[u].of \in Children /\ Begun(waiting[u].of)
    BY DEF ExecutionInv, ExecutionTypeOK, ThreadInv, Waiting
  <2>2. CASE waiting' = waiting
    BY <1>2, <2>1, <2>2 DEF Begun
  <2>3. CASE WaitBegins(t, c)
    <3>1. waiting'[t].of = c /\ \A u \in Collectors \ {t} : waiting'[u] = waiting[u]
      BY <2>3, WaitBeginsEffect
    <3>. QED  BY <1>1, <1>2, <2>1, <3>1 DEF Begun
  <2>. QED  BY <2>2, <2>3
<1>4. /\ \A d \in live' \cup handed' : Begun(d)'
      /\ \A u \in Closers : \A d \in toStop'[u] : Begun(d)'
  BY <1>2 DEF ExecutionInv, ThreadInv, ExecutionTypeOK, threadVars
<1>5. \A d \in Children : child'[d] = "running" => pc'[d] \in {"supervise", "readers", "poll"}
  BY <1>1 DEF ExecutionInv, ThreadInv, threadVars
<1>6. /\ \A d \in Children : pc'[d] \in {"idle", "enter", "check", "launch"} => ~Begun(d)'
      /\ \A d \in Children : pc'[d] \in {"supervise", "readers", "poll"} => Begun(d)'
  BY <1>2 DEF ExecutionInv, ThreadInv, threadVars
<1>7. /\ \A d \in Children :
           pc'[d] \in {"idle", "enter", "check", "launch", "supervise", "readers"} => readers'[d] = "none"
      /\ \A d \in Children : pc'[d] = "poll" => readers'[d] # "none"
  BY DEF ExecutionInv, ThreadInv, threadVars
<1>. QED  BY <1>3, <1>4, <1>5, <1>6, <1>7 DEF ThreadInv

\* Cancelling a phase: the flag, and the child if the executor has its handle.
LEMMA CancelStep ==
  ASSUME ExecutionInv, NEW c \in Children, cancel_phase(c)
  PROVE  ExecutionInv'
<1>1. CASE c \in handed
  <2>1. Begun(c) /\ c \in Collectors /\ terminate(c)
    BY <1>1, ExecutionAssumption DEF ExecutionInv, ThreadInv, cancel_phase
  <2>2. /\ Terminated(c) /\ UNCHANGED <<readers, waiting, live, closed>>
        /\ UNCHANGED <<session_cancel, threadVars, shutdownVars>>
    BY <2>1 DEF terminate, cancel_phase
  <2>3. ExecutionTypeOK'
    BY <2>1, <2>2, TerminatedEffect, SMTT(30) DEF ExecutionInv, ExecutionTypeOK, threadVars, shutdownVars, Waiting
  <2>4. ThreadInv'
    BY <2>1, <2>2, StopThreads DEF shutdownVars
  <2>5. HandleInv'
    BY <2>1, <2>2, StopHandle
  <2>6. ShutdownInv'
    BY <2>2 DEF ExecutionInv, ShutdownInv, shutdownVars
  <2>. QED  BY <2>3, <2>4, <2>5, <2>6 DEF ExecutionInv
<1>2. CASE c \notin handed
  <2>1. UNCHANGED <<supervisorVars, session_cancel, threadVars, shutdownVars>>
    BY <1>2 DEF cancel_phase
  <2>2. ExecutionTypeOK'
    BY <2>1 DEF ExecutionInv, ExecutionTypeOK, Waiting, supervisorVars, threadVars, shutdownVars
  <2>3. ThreadInv' /\ HandleInv'
    BY <2>1, Untouched DEF supervisorVars, threadVars, shutdownVars
  <2>4. ShutdownInv'
    BY <2>1 DEF ExecutionInv, ShutdownInv, supervisorVars, shutdownVars
  <2>. QED  BY <2>2, <2>3, <2>4 DEF ExecutionInv
<1>. QED  BY <1>1, <1>2

\* A step of wait: the first thread back from the child takes the flag, and with the outcome
\* it gives the flag up.
LEMMA CollectStep ==
  ASSUME ExecutionInv, NEW t \in Collectors, Collect(t)
  PROVE  ExecutionInv'
<1>1. /\ UNCHANGED <<child, readers, live, closed, threadVars, session_cancel, shutdownVars>>
      /\ WaitStep(t)
  BY Zenon DEF Collect, WaitStep, WaitChild, WaitObserve, WaitJoin, cancelVars
<1>2. PICK c \in Children : waiting[t].of = c /\ waiting[t] # Idle /\ waiting[t] = At(waiting[t].at, c) /\ Begun(c)
  <2>1. waiting[t].at \in {"child", "observe", "join"}
    BY <1>1, Zenon DEF WaitStep, WaitChild, WaitObserve, WaitJoin
  <2>2. waiting[t] # Idle
    BY <2>1, SMT DEF Idle
  <2>3. waiting[t] \in [at : {"child", "observe", "join", "returned"}, of : Children]
    BY <2>2 DEF ExecutionInv, ExecutionTypeOK, Waiting
  <2>. QED  BY <2>2, <2>3 DEF At, ExecutionInv, ThreadInv
<1>3. PICK p \in {"observe", "join", "returned"} : waiting' = [waiting EXCEPT ![t] = At(p, c)]
  BY <1>1, <1>2, Zenon DEF WaitStep, WaitChild, WaitObserve, WaitJoin, HandOff
<1>4. /\ waiting'[t] = At(p, c)
      /\ \A u \in Collectors \ {t} : waiting'[u] = waiting[u]
  BY <1>3 DEF ExecutionInv, ExecutionTypeOK
<1>5. waiting' \in [Collectors -> Waiting]
  <2>1. At(p, c) \in Waiting
    BY <1>2 DEF At, Waiting
  <2>. QED  BY <1>3, <2>1 DEF ExecutionInv, ExecutionTypeOK
<1>6. ThreadInv'
  <2>1. \A u \in Collectors : (waiting[u] # Idle => Begun(waiting[u].of))'
    <3>1. At(p, c).of = c
      BY DEF At
    <3>. QED  BY <1>1, <1>2, <1>4, <3>1, SMT DEF ExecutionInv, ThreadInv, Begun
  <2>. QED  BY <1>1, <2>1 DEF ExecutionInv, ThreadInv, Begun, threadVars, shutdownVars
<1>7. ShutdownInv'
  BY <1>1 DEF ExecutionInv, ShutdownInv, shutdownVars
<1>8. \A u \in Collectors : \A d \in Children : Waits(u, d)' => Waits(u, d)
  <2>1. \A d \in Children : Waits(t, d)' => d = c
    BY <1>4, AtFields, SMT DEF Waits
  <2>2. Waits(t, c)
    BY <1>1, <1>2, Zenon DEF Waits, WaitStep, WaitChild, WaitObserve, WaitJoin
  <2>. QED  BY <1>4, <2>1, <2>2 DEF Waits
<1>9. CASE WaitChild(t)
  <2>1. /\ waiting[t].at = "child" /\ Over(c) /\ waiting'[t] = At(HandOff(handle[c]), c)
        /\ handle' = [handle EXCEPT ![c].collecting = @ \/ HandOff(handle[c]) = "join"]
    BY <1>2, <1>9 DEF WaitChild, ExecutionInv, ExecutionTypeOK
  <2>2. /\ handle' \in [Children -> HandleType]
        /\ HandOff(handle[c]) = "join" => handle'[c].collecting
        /\ handle[c].collecting => handle'[c].collecting
        /\ handle'[c].finished = handle[c].finished
        /\ handle'[c].terminate_requested = handle[c].terminate_requested
        /\ handle'[c].outcome = handle[c].outcome
        /\ \A d \in Children \ {c} : handle'[d] = handle[d]
    <3>. DEFINE joins == HandOff(handle[c]) = "join"
                h == [handle[c] EXCEPT !.collecting = @ \/ joins]
    <3>1. handle[c] \in HandleType
      BY <1>2 DEF ExecutionInv, ExecutionTypeOK
    <3>2. joins \in BOOLEAN
      OBVIOUS
    <3>3. handle' = [handle EXCEPT ![c] = h]
      BY <2>1
    <3>. HIDE DEF joins
    <3>4. /\ h \in HandleType /\ (joins => h.collecting) /\ (handle[c].collecting => h.collecting)
          /\ h.finished = handle[c].finished /\ h.terminate_requested = handle[c].terminate_requested
          /\ h.outcome = handle[c].outcome
      BY <3>1, <3>2 DEF HandleType
    <3>. HIDE DEF h
    <3>5. handle'[c] = h /\ handle' \in [Children -> HandleType] /\ \A d \in Children \ {c} : handle'[d] = handle[d]
      BY <1>2, <3>3, <3>4 DEF ExecutionInv, ExecutionTypeOK
    <3>. QED  BY <3>4, <3>5 DEF joins
  <2>3. waiting'[t] = At("join", c) => ~handle[c].finished /\ ~handle[c].collecting
    BY <2>1, AtFields, SMT DEF HandOff
  <2>4. \A d \in Children : waiting'[t] = At("join", d) => d = c
    BY <1>4, AtFields, Zenon, SMT
  <2>5. \A u, v \in Collectors : \A d \in Children :
          waiting'[u] = At("join", d) /\ waiting'[v] = At("join", d) => u = v
    BY <1>4, <2>3, <2>4, SMT DEF ExecutionInv, HandleInv
  <2>6. \A u \in Collectors : \A d \in Children :
          waiting'[u] = At("join", d) => handle'[d].collecting /\ ~handle'[d].finished /\ Over(d)'
    <3>1. waiting'[t] = At("join", c) => handle'[c].collecting
      <4>1. waiting'[t] = At("join", c) => HandOff(handle[c]) = "join"
        BY <2>1, AtFields, Zenon
      <4>. QED  BY <2>2, <4>1
    <3>2. \A d \in Children : handle[d].collecting => handle'[d].collecting
      BY <2>2
    <3>. QED  BY <1>1, <1>4, <2>1, <2>2, <2>3, <2>4, <3>1, <3>2, SMT DEF ExecutionInv, HandleInv, Over
  <2>7. HandleInv'
    <3>1. \A d \in Children : handle'[d].finished \/ handle'[d].terminate_requested => Over(d)'
      BY <1>1, <2>2 DEF ExecutionInv, HandleInv, Over
    <3>2. \A d \in Children : handle'[d].finished =>
            /\ handle'[d].outcome = "killed" => handle'[d].terminate_requested
            /\ handle'[d].terminate_requested => handle'[d].outcome \in {"killed", "unknown"}
            /\ ~handle'[d].terminate_requested => readers'[d] = "done"
      BY <1>1, <2>2, Zenon DEF ExecutionInv, HandleInv
    <3>3. \A u \in Collectors : \A d \in Children :
            Waits(u, d)' => handle'[d].terminate_requested \/ handle'[d].finished \/ readers'[d] # "none"
      BY <1>1, <1>8, <2>2, Zenon DEF ExecutionInv, HandleInv
    <3>. QED  BY <2>5, <2>6, <3>1, <3>2, <3>3 DEF HandleInv
  <2>8. ExecutionTypeOK'
    BY <1>1, <1>5, <2>2 DEF ExecutionInv, ExecutionTypeOK, threadVars, shutdownVars, Waiting
  <2>. QED  BY <1>6, <1>7, <2>7, <2>8 DEF ExecutionInv
<1>10. CASE WaitObserve(t)
  <2>1. handle' = handle /\ waiting'[t] = At("returned", c)
    BY <1>2, <1>10 DEF WaitObserve, ExecutionInv, ExecutionTypeOK
  <2>2. \A d \in Children : waiting'[t] # At("join", d)
    BY <2>1, AtFields
  <2>3. HandleInv'
    <3>1. \A d \in Children : handle'[d].finished \/ handle'[d].terminate_requested => Over(d)'
      BY <1>1, <2>1 DEF ExecutionInv, HandleInv, Over
    <3>2. \A d \in Children : handle'[d].finished =>
            /\ handle'[d].outcome = "killed" => handle'[d].terminate_requested
            /\ handle'[d].terminate_requested => handle'[d].outcome \in {"killed", "unknown"}
            /\ ~handle'[d].terminate_requested => readers'[d] = "done"
      BY <1>1, <2>1 DEF ExecutionInv, HandleInv
    <3>3. \A u \in Collectors : \A d \in Children :
            Waits(u, d)' => handle'[d].terminate_requested \/ handle'[d].finished \/ readers'[d] # "none"
      BY <1>1, <1>8, <2>1, Zenon DEF ExecutionInv, HandleInv
    <3>4. \A u \in Collectors : \A d \in Children : waiting'[u] = At("join", d) => waiting[u] = At("join", d)
      BY <1>4, <2>2
    <3>5. /\ \A u, v \in Collectors : \A d \in Children :
               waiting'[u] = At("join", d) /\ waiting'[v] = At("join", d) => u = v
          /\ \A u \in Collectors : \A d \in Children :
               waiting'[u] = At("join", d) => handle'[d].collecting /\ ~handle'[d].finished /\ Over(d)'
      BY <1>1, <2>1, <3>4 DEF ExecutionInv, HandleInv, Over
    <3>. QED  BY <3>1, <3>2, <3>3, <3>5, Zenon DEF HandleInv
  <2>4. ExecutionTypeOK'
    BY <1>1, <1>5, <2>1 DEF ExecutionInv, ExecutionTypeOK, threadVars, shutdownVars, Waiting
  <2>. QED  BY <1>6, <1>7, <2>3, <2>4 DEF ExecutionInv
<1>11. CASE WaitJoin(t)
  <2>1. /\ waiting[t] = At("join", c) /\ readers[c] # "reading" /\ waiting'[t] = At("returned", c)
        /\ \E termination \in Classified(c) :
             handle' = [handle EXCEPT ![c] = [@ EXCEPT !.outcome = termination, !.finished = TRUE, !.collecting = FALSE]]
    BY <1>2, <1>11, Zenon DEF WaitJoin, Joined, ExecutionInv, ExecutionTypeOK
  <2>2. /\ handle' \in [Children -> HandleType]
        /\ handle'[c].finished /\ handle'[c].outcome \in Classified(c)
        /\ handle'[c].terminate_requested = handle[c].terminate_requested
        /\ \A d \in Children \ {c} : handle'[d] = handle[d]
    <3>1. handle[c] \in HandleType
      BY <1>2 DEF ExecutionInv, ExecutionTypeOK
    <3>2. PICK termination \in Classified(c) :
            handle' = [handle EXCEPT ![c] = [@ EXCEPT !.outcome = termination, !.finished = TRUE, !.collecting = FALSE]]
      BY <2>1, Zenon
    <3>. DEFINE h == [handle[c] EXCEPT !.outcome = termination, !.finished = TRUE, !.collecting = FALSE]
    <3>3. handle' = [handle EXCEPT ![c] = h]
      BY <3>2
    <3>4. termination \in {"killed", "exited", "unknown"}
      BY DEF Classified
    <3>5. /\ h \in HandleType /\ h.finished /\ h.outcome = termination
          /\ h.terminate_requested = handle[c].terminate_requested
      BY <3>1, <3>4, Zenon DEF HandleType
    <3>. HIDE DEF h
    <3>6. handle'[c] = h /\ handle' \in [Children -> HandleType] /\ \A d \in Children \ {c} : handle'[d] = handle[d]
      BY <1>2, <3>3, <3>5 DEF ExecutionInv, ExecutionTypeOK
    <3>. QED  BY <3>5, <3>6
  <2>3. \A u \in Collectors : waiting'[u] # At("join", c)
    <3>1. \A u \in Collectors \ {t} : waiting[u] # At("join", c)
      BY <1>2, <2>1, SMT DEF ExecutionInv, HandleInv
    <3>. QED  BY <1>4, <2>1, <3>1, AtFields, SMT
  <2>4. \A d \in Children : waiting'[t] # At("join", d)
    BY <2>1, AtFields, SMT
  <2>5. /\ \A u, v \in Collectors : \A d \in Children :
             waiting'[u] = At("join", d) /\ waiting'[v] = At("join", d) => u = v
        /\ \A u \in Collectors : \A d \in Children :
             waiting'[u] = At("join", d) => handle'[d].collecting /\ ~handle'[d].finished /\ Over(d)'
    <3>1. \A u \in Collectors : \A d \in Children :
            waiting'[u] = At("join", d) => d # c /\ waiting[u] = At("join", d)
      BY <1>4, <2>3, <2>4, Zenon
    <3>2. \A d \in Children \ {c} : handle'[d] = handle[d] /\ child'[d] = child[d]
      BY <1>1, <2>2
    <3>. QED  BY <3>1, <3>2, SMT DEF ExecutionInv, HandleInv, Over
  <2>6. Over(c)' /\ (handle'[c].terminate_requested \/ readers'[c] = "done")
    <3>1. Over(c) /\ ~handle[c].finished
      BY <1>2, <2>1 DEF ExecutionInv, HandleInv
    <3>2. handle[c].terminate_requested \/ readers[c] # "none"
      BY <1>2, <2>1, <3>1 DEF ExecutionInv, HandleInv, Waits
    <3>3. readers[c] \in {"none", "reading", "done"}
      BY <1>2 DEF ExecutionInv, ExecutionTypeOK
    <3>. QED  BY <1>1, <2>1, <2>2, <3>1, <3>2, <3>3 DEF Over
  <2>7. /\ handle'[c].outcome = "killed" => handle'[c].terminate_requested
        /\ handle'[c].terminate_requested => handle'[c].outcome \in {"killed", "unknown"}
    BY <2>2 DEF Classified
  <2>8. \A u \in Collectors : \A d \in Children :
          Waits(u, d)' => handle'[d].terminate_requested \/ handle'[d].finished \/ readers'[d] # "none"
    BY <1>1, <1>8, <2>2, Zenon DEF ExecutionInv, HandleInv
  <2>9. HandleInv'
    <3>1. \A d \in Children : handle'[d].finished \/ handle'[d].terminate_requested => Over(d)'
      BY <1>1, <2>2, <2>6 DEF ExecutionInv, HandleInv, Over
    <3>2. \A d \in Children : handle'[d].finished =>
            /\ handle'[d].outcome = "killed" => handle'[d].terminate_requested
            /\ handle'[d].terminate_requested => handle'[d].outcome \in {"killed", "unknown"}
            /\ ~handle'[d].terminate_requested => readers'[d] = "done"
      BY <1>1, <2>2, <2>6, <2>7, Zenon DEF ExecutionInv, HandleInv
    <3>. QED  BY <2>5, <2>8, <3>1, <3>2 DEF HandleInv
  <2>10. ExecutionTypeOK'
    BY <1>1, <1>5, <2>2 DEF ExecutionInv, ExecutionTypeOK, threadVars, shutdownVars, Waiting
  <2>. QED  BY <1>6, <1>7, <2>9, <2>10 DEF ExecutionInv
<1>. QED  BY <1>1, <1>9, <1>10, <1>11 DEF WaitStep

-----------------------------------------------------------------------------
(* Sessions and shutdown. *)

\* A flag of a session, the begin and the end of a call of shutdown, and the handles a
\* closer takes.
LEMMA ShutdownStepInv ==
  ASSUME ExecutionInv,
         \/ \E s \in Sessions : FlagSession(s)
         \/ \E t \in Closers : Shutdown(t) \/ terminate_all(t) \/ close(t) \/ ShutdownEnds(t)
  PROVE  ExecutionInv'
<1>1. UNCHANGED <<child, job, helper, readers, handle, waiting, threadVars>>
  BY DEF FlagSession, Shutdown, terminate_all, close, Close, ShutdownEnds, supervisorVars
<1>2. /\ live' \in {live, {}}
      /\ toStop' = toStop \/ \E t \in Closers : toStop' = [toStop EXCEPT ![t] = live]
  BY DEF FlagSession, Shutdown, terminate_all, close, Close, ShutdownEnds, supervisorVars, shutdownVars
<1>3. ExecutionTypeOK'
  <2>1. session_cancel' \in [Sessions -> BOOLEAN]
    BY Zenon DEF ExecutionInv, ExecutionTypeOK, FlagSession, Shutdown, FlagsOnShutdown, terminate_all, close,
           ShutdownEnds, cancelVars
  <2>2. closer' \in [Closers -> {"idle", "terminate_all", "terminating", "close", "closing", "done"}]
    BY SMT DEF ExecutionInv, ExecutionTypeOK, FlagSession, Shutdown, terminate_all, close, ShutdownEnds, shutdownVars
  <2>. QED  BY <1>1, <1>2, <2>1, <2>2 DEF ExecutionInv, ExecutionTypeOK, threadVars, Waiting
<1>4. ThreadInv'
  <2>1. \A t \in Closers : toStop'[t] \subseteq toStop[t] \cup live
    BY <1>2 DEF ExecutionInv, ExecutionTypeOK
  <2>. QED  BY <1>1, <1>2, <2>1, Zenon DEF ExecutionInv, ThreadInv, Begun, threadVars
<1>5. HandleInv'
  BY <1>1 DEF ExecutionInv, HandleInv, Waits, Over
<1>6. ShutdownInv'
  <2>1. CASE \E s \in Sessions : FlagSession(s)
    BY <2>1, SMT DEF ExecutionInv, ExecutionTypeOK, ShutdownInv, FlagSession, supervisorVars, shutdownVars
  <2>2. CASE \E t \in Closers : Shutdown(t)
    BY <2>2, SMT DEF ExecutionInv, ExecutionTypeOK, ShutdownInv, Shutdown, FlagsOnShutdown, supervisorVars
  <2>3. CASE \E t \in Closers : terminate_all(t)
    BY <2>3, SMT DEF ExecutionInv, ExecutionTypeOK, ShutdownInv, terminate_all, supervisorVars, cancelVars
  <2>4. CASE \E t \in Closers : close(t)
    BY <2>4, SMT DEF ExecutionInv, ExecutionTypeOK, ShutdownInv, close, Close, supervisorVars, cancelVars
  <2>5. CASE \E t \in Closers : ShutdownEnds(t)
    BY <2>5, SMT DEF ExecutionInv, ExecutionTypeOK, ShutdownInv, ShutdownEnds, supervisorVars, cancelVars
  <2>. QED  BY <2>1, <2>2, <2>3, <2>4, <2>5
<1>. QED  BY <1>3, <1>4, <1>5, <1>6 DEF ExecutionInv

\* A closer terminates one of its handles, and in close waits for it as well.
LEMMA StopStep ==
  ASSUME ExecutionInv, NEW t \in Closers, TerminateNext(t) \/ CloseNext(t)
  PROVE  ExecutionInv'
<1>1. CASE /\ UNCHANGED <<supervisorVars, threadVars, cancelVars, shutting_down, toStop>>
           /\ closer[t] = "terminating" /\ closer' = [closer EXCEPT ![t] = "close"]
  <2>1. ExecutionTypeOK'
    BY <1>1 DEF ExecutionInv, ExecutionTypeOK, Waiting, supervisorVars, threadVars, cancelVars
  <2>2. ThreadInv' /\ HandleInv'
    BY <1>1, Untouched DEF supervisorVars, threadVars
  <2>3. ShutdownInv'
    BY <1>1 DEF ExecutionInv, ExecutionTypeOK, ShutdownInv, supervisorVars, cancelVars
  <2>. QED  BY <2>1, <2>2, <2>3 DEF ExecutionInv
<1>2. CASE \E c \in toStop[t] :
             /\ Terminated(c) /\ toStop' = [toStop EXCEPT ![t] = @ \ {c}]
             /\ waiting' = waiting \/ WaitBegins(t, c)
             /\ UNCHANGED <<readers, live, closed, closer, threadVars, cancelVars, shutting_down>>
  <2>1. PICK c \in toStop[t] :
             /\ Terminated(c) /\ toStop' = [toStop EXCEPT ![t] = @ \ {c}]
             /\ waiting' = waiting \/ WaitBegins(t, c)
             /\ UNCHANGED <<readers, live, closed, closer, threadVars, cancelVars, shutting_down>>
    BY <1>2, Zenon
  <2>2. c \in Children /\ t \in Collectors /\ Begun(c)
    BY ExecutionAssumption DEF ExecutionInv, ExecutionTypeOK, ThreadInv
  <2>3. toStop' \in [Closers -> SUBSET Children] /\ \A u \in Closers : toStop'[u] \subseteq toStop[u]
    BY <2>1 DEF ExecutionInv, ExecutionTypeOK
  <2>4. ExecutionTypeOK'
    <3>1. waiting' \in [Collectors -> Waiting]
      BY <2>1, <2>2, WaitBeginsEffect DEF ExecutionInv, ExecutionTypeOK
    <3>. QED  BY <2>1, <2>2, <2>3, <3>1, TerminatedEffect
              DEF ExecutionInv, ExecutionTypeOK, threadVars, cancelVars, Waiting
  <2>5. ThreadInv'
    BY <2>1, <2>2, <2>3, StopThreads
  <2>6. HandleInv'
    BY <2>1, <2>2, StopHandle
  <2>7. ShutdownInv'
    BY <2>1 DEF ExecutionInv, ShutdownInv, cancelVars
  <2>. QED  BY <2>4, <2>5, <2>6, <2>7 DEF ExecutionInv
<1>. QED  BY <1>1, <1>2, Zenon DEF TerminateNext, CloseNext, Stopped, terminate

-----------------------------------------------------------------------------
(* The invariant is inductive. *)

\* Every step of a thread, of a child and of a call of shutdown keeps the invariant.
LEMMA NextInv == ExecutionInv /\ [Next]_vars => ExecutionInv'
<1>. SUFFICES ASSUME ExecutionInv, [Next]_vars PROVE ExecutionInv'
  OBVIOUS
<1>1. CASE UNCHANGED vars
  <2>. USE DEF vars, supervisorVars, threadVars, cancelVars, shutdownVars
  <2>1. ExecutionTypeOK'
    BY <1>1 DEF ExecutionInv, ExecutionTypeOK, Waiting
  <2>2. ThreadInv' /\ HandleInv'
    BY <1>1, Untouched
  <2>3. ShutdownInv'
    BY <1>1 DEF ExecutionInv, ShutdownInv
  <2>. QED  BY <2>1, <2>2, <2>3 DEF ExecutionInv
<1>2. ASSUME NEW c \in Children, Prepare(c) \/ Execute(c) \/ Child(c) \/ Read(c) \/ cancel_phase(c)
      PROVE  ExecutionInv'
  <2>1. CASE Collect(c)
    BY <2>1, CollectStep, ExecutionAssumption
  <2>. QED  BY <1>2, <2>1, ThreadStep, SpawnStep, PollStep, ChildStep, CancelStep DEF Execute
<1>3. CASE \E s \in Sessions : FlagSession(s)
  BY <1>3, ShutdownStepInv
<1>4. ASSUME NEW t \in Closers, Shutdown(t) \/ ShutdownStep(t)
      PROVE  ExecutionInv'
  <2>1. CASE Collect(t)
    BY <2>1, CollectStep, ExecutionAssumption
  <2>. QED  BY <1>4, <2>1, ShutdownStepInv, StopStep DEF ShutdownStep
<1>. QED  BY <1>1, <1>2, <1>3, <1>4 DEF Next

\* The invariant holds in every state of every behaviour, with or without fairness.
LEMMA AlwaysInv == Spec => []ExecutionInv
BY InitInv, NextInv, PTL DEF Spec

-----------------------------------------------------------------------------
(* For every number of invocations, sessions and calls of shutdown. *)

\* No two threads join the readers of one child, however many wait for it (the hand-off in
\* ProcessHandle::wait).
THEOREM OneCollectorAlways == Spec => []OneCollector
BY AlwaysInv, InvImplies, PTL

\* ProcessHandle::terminate and the outcome of ProcessHandle::wait never contradict each
\* other, and an outcome is that of a child that is over.
THEOREM OutcomeHonestAlways == Spec => []OutcomeHonest
BY AlwaysInv, InvImplies, PTL

\* An outcome that nobody forced comes after the end of the captured output.
THEOREM CaptureWholeAlways == Spec => []CaptureWhole
BY AlwaysInv, InvImplies, PTL

\* After any call of Runtime::shutdown has returned the supervisor is closed, and a child
\* that still runs belongs to a thread that will see the flag of its session.
THEOREM ShutdownAccountsAlways == Spec => []ShutdownAccounts
BY AlwaysInv, InvImplies, PTL
=============================================================================
