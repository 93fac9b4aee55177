---------------------------- MODULE LocalExecution ----------------------------
(***************************************************************************)
(* The threads around the supervisor of a runtime: each runs one invocation  *)
(* with LocalPhaseExecutor, while phases and sessions are cancelled, sessions *)
(* are retired and the runtime is shut down, possibly twice at once.         *)
(***************************************************************************)
EXTENDS ProcessSupervisor

CONSTANTS
  Sessions,
  SessionOf,   \* the session of each invocation
  Closers      \* the threads that shut the runtime down

ASSUME ExecutionAssumption ==
  /\ SessionOf \in [Children -> Sessions]
  /\ Collectors = Children \cup Closers /\ Children \cap Closers = {}

VARIABLES
  pc,             \* where the thread of each invocation is
  active,         \* active_: the invocations that the executor's cancel finds
  handed,         \* those whose entry holds the handle
  cancellation,   \* the flags of the entries
  session_cancel, \* the flags of the sessions
  asked,          \* the invocations that were cancelled and are not over
  shutting_down,
  closer,         \* where each call of shutdown is
  lock,           \* the closer that holds the runtime's mutex while it closes, or "free"
  toStop          \* the handles a closer took and has still to go through

threadVars == <<pc, active, handed>>
cancelVars == <<cancellation, session_cancel, asked>>
shutdownVars == <<shutting_down, closer, lock, toStop>>
vars == <<supervisorVars, threadVars, cancelVars, shutdownVars>>

Init ==
  /\ SupervisorInit
  /\ pc = [c \in Children |-> "idle"]
  /\ active = {} /\ handed = {} /\ asked = {}
  /\ cancellation = [c \in Children |-> FALSE]
  /\ session_cancel = [s \in Sessions |-> FALSE]
  /\ shutting_down = FALSE
  /\ closer = [t \in Closers |-> "idle"]
  /\ lock = "free"
  /\ toStop = [t \in Closers |-> {}]

Goes(c, from, to) == pc[c] = from /\ pc' = [pc EXCEPT ![c] = to]

----------------------------------------------------------------------------
(* The thread of an invocation. *)

\* prepare_phase, which refuses once the runtime shuts down, and the critical section of
\* run_execution: the phase records the invocation and is running.
Prepare(c) ==
  /\ lock = "free" /\ ~shutting_down
  /\ Goes(c, "idle", "enter")
  /\ UNCHANGED <<supervisorVars, active, handed, cancelVars, shutdownVars>>

\* LocalPhaseExecutor::execute, up to spawn.
Enter(c) ==
  /\ Goes(c, "enter", "check")
  /\ active' = active \cup {c}
  /\ UNCHANGED <<supervisorVars, handed, cancelVars, shutdownVars>>

SpawnCheck(c) ==
  /\ SpawnAllowed /\ Goes(c, "check", "launch")
  /\ UNCHANGED <<supervisorVars, active, handed, cancelVars, shutdownVars>>

\* LocalPhaseExecutor::forget: the entry goes with its flag.
Forgotten(c) ==
  /\ active' = active \ {c} /\ handed' = handed \ {c} /\ asked' = asked \ {c}
  /\ cancellation' = [cancellation EXCEPT ![c] = FALSE]

\* The supervisor is closed or nothing can be launched.
SpawnFails(c) ==
  /\ \/ ~SpawnAllowed /\ Goes(c, "check", "refused")
     \/ Goes(c, "launch", "refused")
  /\ Forgotten(c)
  /\ UNCHANGED <<supervisorVars, session_cancel, shutdownVars>>

SpawnLaunch(c) ==
  /\ Launch(c) /\ Goes(c, "launch", "supervise")
  /\ UNCHANGED <<active, handed, cancelVars, shutdownVars>>

SpawnSupervise(c) ==
  /\ Supervise(c) /\ Goes(c, "supervise", "readers")
  /\ UNCHANGED <<active, handed, cancelVars, shutdownVars>>

\* The entry gets the handle once spawn has returned; nobody tells the two apart.
SpawnReaders(c) ==
  /\ StartReaders(c) /\ Goes(c, "readers", "poll")
  /\ handed' = handed \cup {c}
  /\ UNCHANGED <<active, cancelVars, shutdownVars>>

\* Mutant: only the flag of the session is looked at.
CancelSeen_session(c) == session_cancel[SessionOf[c]]

CancelSeen(c) == cancellation[c] \/ session_cancel[SessionOf[c]]

\* The turn that ends the polling loop; wait is called next.
Poll(c) ==
  /\ Goes(c, "poll", "waiting") /\ WaitBegins(c, c)
  /\ \/ ~running(c) /\ UNCHANGED <<child, helper, handle>>
     \/ running(c) /\ CancelSeen(c) /\ Terminated(c)
  /\ UNCHANGED <<job, readers, live, closed, active, handed, cancelVars, shutdownVars>>

Collect(t) ==
  /\ WaitStep(t)
  /\ UNCHANGED <<threadVars, cancelVars, shutdownVars>>

Forget(c) ==
  /\ WaitReturned(c, c) /\ Goes(c, "waiting", "reap")
  /\ Forgotten(c)
  /\ UNCHANGED <<supervisorVars, session_cancel, shutdownVars>>

Reap(c) ==
  /\ reap(c) /\ Goes(c, "reap", "done")
  /\ UNCHANGED <<active, handed, cancelVars, shutdownVars>>

Execute(c) ==
  \/ Enter(c) \/ SpawnCheck(c) \/ SpawnFails(c) \/ SpawnLaunch(c) \/ SpawnSupervise(c)
  \/ SpawnReaders(c) \/ Poll(c) \/ Collect(c) \/ Forget(c) \/ Reap(c)

\* The child, its helper and its readers go on by themselves.
Child(c) ==
  /\ Exit(c) \/ HelperExits(c)
  /\ UNCHANGED <<threadVars, cancelVars, shutdownVars>>

Read(c) ==
  /\ Drain(c)
  /\ UNCHANGED <<threadVars, cancelVars, shutdownVars>>

----------------------------------------------------------------------------
(* Cancellation and retirement. *)

\* Runtime::cancel_phase of a phase that runs, and LocalPhaseExecutor::cancel in it.  The
\* phase then has no active invocation that a second call would find.
cancel_phase(c) ==
  /\ lock = "free"
  /\ pc[c] \notin {"idle", "refused", "reap", "done"} /\ c \notin asked
  /\ asked' = asked \cup {c}
  /\ cancellation' = [cancellation EXCEPT ![c] = c \in active]
  /\ IF c \in handed THEN terminate(c) ELSE UNCHANGED supervisorVars
  /\ UNCHANGED <<session_cancel, threadVars, shutdownVars>>

\* The flag that cancel_session sets before it cancels each phase, and that
\* retire_session sets.  The process a phase records has ended by then.
FlagSession(s) ==
  /\ lock = "free" /\ ~session_cancel[s]
  /\ session_cancel' = [session_cancel EXCEPT ![s] = TRUE]
  /\ UNCHANGED <<supervisorVars, threadVars, cancellation, asked, shutdownVars>>

----------------------------------------------------------------------------
(* Runtime::shutdown, in thread t. *)

\* Mutant: the sessions are not told.
FlagsOnShutdown_none == session_cancel

FlagsOnShutdown == [s \in Sessions |-> TRUE]

\* The first call flags every session and leaves the mutex; a later one keeps it and closes.
Shutdown(t) ==
  /\ closer[t] = "idle" /\ lock = "free"
  /\ shutting_down' = TRUE
  /\ IF shutting_down
     THEN /\ closer' = [closer EXCEPT ![t] = "close"] /\ lock' = t
          /\ UNCHANGED session_cancel
     ELSE /\ closer' = [closer EXCEPT ![t] = "terminate_all"] /\ lock' = lock
          /\ session_cancel' = FlagsOnShutdown
  /\ UNCHANGED <<supervisorVars, threadVars, cancellation, asked, toStop>>

terminate_all(t) ==
  /\ closer[t] = "terminate_all"
  /\ closer' = [closer EXCEPT ![t] = "terminating"]
  /\ toStop' = [toStop EXCEPT ![t] = live]
  /\ UNCHANGED <<supervisorVars, threadVars, cancelVars, shutting_down, lock>>

TerminateNext(t) ==
  /\ closer[t] = "terminating"
  /\ \/ /\ toStop[t] = {} /\ closer' = [closer EXCEPT ![t] = "close"]
        /\ UNCHANGED <<supervisorVars, toStop>>
     \/ \E c \in toStop[t] : /\ terminate(c)
                             /\ toStop' = [toStop EXCEPT ![t] = @ \ {c}]
                             /\ UNCHANGED closer
  /\ UNCHANGED <<threadVars, cancelVars, shutting_down, lock>>

close(t) ==
  /\ closer[t] = "close"
  /\ closer' = [closer EXCEPT ![t] = "closing"]
  /\ IF closed THEN UNCHANGED <<supervisorVars, toStop>>
               ELSE Close /\ toStop' = [toStop EXCEPT ![t] = live]
  /\ UNCHANGED <<threadVars, cancelVars, shutting_down, lock>>

\* Mutant: the child is only waited for.
Stopped_not(c) == UNCHANGED <<child, helper, handle>>

Stopped(c) == Terminated(c)

\* Each handle is terminated and waited for before the next.
CloseNext(t) ==
  /\ closer[t] = "closing" /\ waiting[t].at \in {"none", "returned"}
  /\ \E c \in toStop[t] :
       /\ Stopped(c) /\ WaitBegins(t, c)
       /\ toStop' = [toStop EXCEPT ![t] = @ \ {c}]
  /\ UNCHANGED <<job, readers, live, closed, closer, threadVars, cancelVars, shutting_down, lock>>

\* The first call takes the mutex again to save the sessions; a later one leaves it.
ShutdownEnds(t) ==
  /\ closer[t] = "closing" /\ toStop[t] = {} /\ waiting[t].at \in {"none", "returned"}
  /\ lock \in {"free", t} /\ lock' = "free"
  /\ closer' = [closer EXCEPT ![t] = "done"]
  /\ UNCHANGED <<supervisorVars, threadVars, cancelVars, shutting_down, toStop>>

ShutdownStep(t) ==
  \/ terminate_all(t) \/ TerminateNext(t) \/ close(t) \/ CloseNext(t) \/ Collect(t) \/ ShutdownEnds(t)

----------------------------------------------------------------------------
Next ==
  \/ \E c \in Children : Prepare(c) \/ Execute(c) \/ Child(c) \/ Read(c) \/ cancel_phase(c)
  \/ \E s \in Sessions : FlagSession(s)
  \/ \E t \in Closers : Shutdown(t) \/ ShutdownStep(t)

\* The threads of the runtime are scheduled.  Nothing makes a child or its helper end: no
\* code enforces timeout_millis.
Fairness ==
  /\ \A c \in Children : WF_vars(Execute(c)) /\ WF_vars(Read(c))
  /\ \A t \in Closers : WF_vars(ShutdownStep(t))

Spec == Init /\ [][Next]_vars /\ Fairness

----------------------------------------------------------------------------
(* Properties. *)

\* At most one thread at a time is between the hand-off of ProcessHandle::wait and the
\* outcome, so that no reader thread is joined twice ("Exactly one caller collects the
\* outcome and joins the reader threads").
OneCollector ==
  \A c \in Children :
    /\ Cardinality({t \in Collectors : waiting[t] = At("join", c)}) <= 1
    /\ (\E t \in Collectors : waiting[t] = At("join", c)) => handle[c].collecting /\ ~handle[c].finished

\* What terminate and wait say of a child agree, whichever came first: an outcome is
\* "killed" only if a termination was accepted, an accepted one is never reported as an
\* exit or a crash, and the outcome is that of a process that ended.
OutcomeHonest ==
  \A c \in Children : handle[c].finished =>
    /\ Over(c)
    /\ handle[c].outcome = "killed" => handle[c].terminate_requested
    /\ handle[c].terminate_requested => handle[c].outcome \in {"killed", "unknown"}

\* An outcome that was not forced has all of the output: its readers saw the end of both
\* streams before wait gave it, even if a process that the child left behind wrote on.
CaptureWhole ==
  \A c \in Children : handle[c].finished /\ ~handle[c].terminate_requested => readers[c] = "done"

\* When a call of shutdown has returned, a child that still runs was launched behind its
\* back by a thread that passed the check of spawn, and that thread is on its way to
\* terminate it; every other invocation is over, and none can start.
ShutdownAccounts ==
  (\E t \in Closers : closer[t] = "done") =>
    /\ closed
    /\ \A c \in Children : child[c] = "running" =>
         pc[c] \in {"supervise", "readers", "poll"} /\ session_cancel[SessionOf[c]]

\* A cancellation that the executor accepts ends the child, whenever it comes between the
\* registration of the invocation and its end, and so does the flag of the session.
CancelStops ==
  \A c \in Children : (c \in active /\ (cancellation[c] \/ session_cancel[SessionOf[c]])) ~> (c \notin active \/ Over(c))

\* Shutdown returns, whatever the compilers do: only a helper outside a job, which still
\* holds the pipes, can keep it waiting.
ShutdownReturns ==
  \A t \in Closers : (closer[t] \in {"terminate_all", "close"}) ~> (closer[t] = "done" \/ \E c \in Children : helper[c] /\ ~job)

\* "Per-invocation cancellation, session cancellation, and shutdown all reach the compiler
\* child": a phase that runs and is cancelled has no child in the end.
CancelReaches ==
  \A c \in Children : (c \in asked) ~> (child[c] # "running")
=============================================================================
