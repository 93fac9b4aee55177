-------------------------- MODULE ProcessSupervisor --------------------------
(***************************************************************************)
(* ProcessSupervisor and ProcessHandle of process.cpp: a child is launched, *)
(* its output is read by threads of its handle, any thread may terminate it  *)
(* or wait for it, and the one that collects its outcome joins the readers.  *)
(* A child may leave a helper of its own behind, which holds the pipes open   *)
(* and ends with the job, if there is one.                                  *)
(***************************************************************************)
EXTENDS Integers, FiniteSets

CONSTANTS
  Children,    \* one per invocation, and known by it
  Forking,     \* those that may leave a process of their own behind
  Collectors   \* the threads that may wait for a child

VARIABLES
  child,       \* the process: "none", "running", "ended" by itself, "stopped"
  job,         \* whether the host lets a child be put into a job of its own
  helper,      \* whether a process it left behind still runs
  readers,     \* the threads that read its output: "none", "reading", "done"
  handle,      \* ProcessHandle::Impl
  waiting,     \* where each thread is in ProcessHandle::wait: [at, of]
  live,        \* the supervised children
  closed

supervisorVars == <<child, job, helper, readers, handle, waiting, live, closed>>

Fresh == [terminate_requested |-> FALSE, collecting |-> FALSE, finished |-> FALSE, outcome |-> "none"]

Idle == [at |-> "none", of |-> "none"]
At(place, c) == [at |-> place, of |-> c]

SupervisorInit ==
  /\ child = [c \in Children |-> "none"]
  /\ job \in BOOLEAN
  /\ helper = [c \in Children |-> FALSE]
  /\ readers = [c \in Children |-> "none"]
  /\ handle = [c \in Children |-> Fresh]
  /\ waiting = [t \in Collectors |-> Idle]
  /\ live = {}
  /\ closed = FALSE

----------------------------------------------------------------------------
(* The child, on its own. *)

Over(c) == child[c] \in {"ended", "stopped"}

\* It exits; what it started may outlive it.
Exit(c) ==
  /\ child[c] = "running"
  /\ child' = [child EXCEPT ![c] = "ended"]
  /\ \E h \in BOOLEAN : helper' = [helper EXCEPT ![c] = h /\ c \in Forking]
  /\ UNCHANGED <<job, readers, handle, waiting, live, closed>>

HelperExits(c) ==
  /\ helper[c]
  /\ helper' = [helper EXCEPT ![c] = FALSE]
  /\ UNCHANGED <<job, child, readers, handle, waiting, live, closed>>

\* Impl::read_stream: both streams end when nobody holds their other end.
Drain(c) ==
  /\ readers[c] = "reading" /\ Over(c) /\ ~helper[c]
  /\ readers' = [readers EXCEPT ![c] = "done"]
  /\ UNCHANGED <<job, child, helper, handle, waiting, live, closed>>

----------------------------------------------------------------------------
(* ProcessSupervisor::spawn: closed is looked at once, and the child runs    *)
(* before it is registered and is registered before its readers are there.   *)

SpawnAllowed == ~closed

\* CreateProcessW, the job object and ResumeThread.
Launch(c) ==
  /\ child' = [child EXCEPT ![c] = "running"]
  /\ UNCHANGED <<job, helper, readers, handle, waiting, live, closed>>

Supervise(c) ==
  /\ live' = live \cup {c}
  /\ UNCHANGED <<job, child, helper, readers, handle, waiting, closed>>

StartReaders(c) ==
  /\ readers' = [readers EXCEPT ![c] = "reading"]
  /\ UNCHANGED <<job, child, helper, handle, waiting, live, closed>>

----------------------------------------------------------------------------
(* ProcessHandle. *)

running(c) == ~handle[c].finished /\ child[c] = "running"

\* Mutant: the outcome that was already collected is not looked at.
Refuses_never(c) == handle[c].terminate_requested

\* ProcessHandle::terminate does nothing the second time, or once it is too late.
Refuses(c) == handle[c].finished \/ handle[c].terminate_requested

\* The helper ends with the job.  The flag and the kill are one step: until the kill, the
\* child may only end by itself, which it could have done before the flag, and whoever
\* finds the flag set goes on to wait for the child.
Terminated(c) ==
  /\ handle' = [handle EXCEPT ![c].terminate_requested = @ \/ ~Refuses(c)]
  /\ child' = [child EXCEPT ![c] = IF ~Refuses(c) /\ @ = "running" THEN "stopped" ELSE @]
  /\ helper' = [helper EXCEPT ![c] = IF ~Refuses(c) /\ job THEN FALSE ELSE @]

terminate(c) ==
  /\ Terminated(c)
  /\ UNCHANGED <<job, readers, waiting, live, closed>>

\* Thread t calls ProcessHandle::wait.
WaitBegins(t, c) ==
  waiting' = [waiting EXCEPT ![t] = At(IF handle[c].finished THEN "returned" ELSE "child", c)]

\* Mutant: every waiter joins.
HandOff_none(h) == "join"

\* The first thread to come back from the child collects, the others observe.
HandOff(h) == IF h.finished THEN "returned" ELSE IF h.collecting THEN "observe" ELSE "join"

WaitChild(t) ==
  LET c == waiting[t].of
      next == HandOff(handle[c])
  IN  /\ waiting[t].at = "child" /\ Over(c)
      /\ waiting' = [waiting EXCEPT ![t] = At(next, c)]
      /\ handle' = [handle EXCEPT ![c].collecting = @ \/ next = "join"]
      /\ UNCHANGED <<job, child, helper, readers, live, closed>>

WaitObserve(t) ==
  LET c == waiting[t].of
  IN  /\ waiting[t].at = "observe" /\ handle[c].finished
      /\ waiting' = [waiting EXCEPT ![t] = At("returned", c)]
      /\ UNCHANGED <<job, child, helper, readers, handle, live, closed>>

\* Mutant: the output is not waited for.
Joined_early(c) == TRUE

\* join_threads: a reader that was not started yet is not joinable.
Joined(c) == readers[c] # "reading"

\* What GetExitCodeProcess may say: a child that ended by itself may have exited with any
\* code, STILL_ACTIVE included; a stopped one exits with 1.  A crash is an exit here.
Classified(c) ==
  (IF child[c] = "ended" THEN {"unknown"} ELSE {})
  \cup (IF handle[c].terminate_requested THEN {"killed"} ELSE {"exited"})

WaitJoin(t) ==
  LET c == waiting[t].of
  IN  /\ waiting[t].at = "join" /\ Joined(c)
      /\ \E termination \in Classified(c) :
           handle' = [handle EXCEPT ![c] = [@ EXCEPT !.outcome = termination, !.finished = TRUE, !.collecting = FALSE]]
      /\ waiting' = [waiting EXCEPT ![t] = At("returned", c)]
      /\ UNCHANGED <<job, child, helper, readers, live, closed>>

WaitStep(t) == WaitChild(t) \/ WaitObserve(t) \/ WaitJoin(t)

WaitReturned(t, c) == waiting[t] = At("returned", c)

----------------------------------------------------------------------------
(* ProcessSupervisor::reap, and the critical section of close.              *)

reap(c) ==
  /\ live' = live \ {c}
  /\ UNCHANGED <<job, child, helper, readers, handle, waiting, closed>>

Close ==
  /\ closed' = TRUE /\ live' = {}
  /\ UNCHANGED <<job, child, helper, readers, handle, waiting>>
=============================================================================
