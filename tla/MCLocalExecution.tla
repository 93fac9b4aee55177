--------------------------- MODULE MCLocalExecution ---------------------------
(* A runtime that is shut down by two threads while an invocation starts, and *)
(* one that is shut down once while an invocation starts and a second one     *)
(* already runs.                                                              *)
EXTENDS LocalExecution

CONSTANTS c1, c2, first, second

MCCollectors == Children \cup Closers
MCSessionOf == [c \in Children |-> "s"]

\* Nobody waits for a child or holds the mutex, and a phase that was cancelled has its flag.
Quiet ==
  /\ helper = [c \in Children |-> FALSE]
  /\ handle = [c \in Children |-> Fresh]
  /\ waiting = [t \in Collectors |-> Idle]
  /\ toStop = [t \in Closers |-> {}]
  /\ cancellation = [c \in Children |-> c \in asked] /\ lock = "free" /\ closed = FALSE

\* The first invocation has not started, and the second one could not be launched.
Starting ==
  /\ pc = [c \in Children |-> IF c = c2 THEN "refused" ELSE "idle"]
  /\ child = [c \in Children |-> "none"] /\ readers = child
  /\ live = {} /\ active = {} /\ handed = {} /\ asked = {}
  /\ closer = [t \in Closers |-> "idle"]
  /\ session_cancel = [s \in Sessions |-> FALSE] /\ shutting_down = FALSE
  /\ job \in BOOLEAN

\* The first invocation has passed the check of spawn and was cancelled, the compiler of the
\* second runs, and a shutdown has just flagged the session.
Underway ==
  /\ pc = [c \in Children |-> IF c = c2 THEN "poll" ELSE "launch"]
  /\ child = [c \in Children |-> IF c = c2 THEN "running" ELSE "none"]
  /\ readers = [c \in Children |-> IF c = c2 THEN "reading" ELSE "none"]
  /\ live = {c2} /\ active = Children /\ handed = {c2} /\ asked = {c1}
  /\ closer = [t \in Closers |-> IF t = first THEN "terminate_all" ELSE "never"]
  /\ session_cancel = [s \in Sessions |-> TRUE] /\ shutting_down = TRUE
  /\ job = TRUE

MCInit == (Starting \/ Underway) /\ Quiet

MCSpec == MCInit /\ [][Next]_vars /\ Fairness
=============================================================================
