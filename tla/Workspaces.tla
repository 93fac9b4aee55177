----------------------------- MODULE Workspaces -----------------------------
(***************************************************************************)
(* WorkspaceManager of workspace.cpp.  A workspace is a directory at a path  *)
(* bound to a phase generation, with a marker that names what it was made    *)
(* for; the path is chosen by whoever holds the phase, and whatever is there  *)
(* already is moved aside.                                                  *)
(***************************************************************************)
EXTENDS Integers, FiniteSets

CONSTANTS
  Phases,        \* each of a session of its own
  MaxGeneration  \* bounds the generations of a phase

VARIABLES
  disk,   \* the directory at each path
  live    \* the paths the manager of this process made directories at

workspaceVars == <<disk, live>>

\* The label tells the attempts of a phase apart, and the second run that a policy asks for.
Labels == {"first", "retry", "repro"}

Paths == [phase : Phases, generation : 1..MaxGeneration, label : Labels]

\* A directory: whether it has a marker, the session generation in it, who it was made for
\* and whose outputs it holds.  The phase and its generation in the marker are those of the path.
Absent == [state |-> "absent", session_generation |-> 0, owner |-> 0, writers |-> {}]

WorkspacesInit == disk = [path \in Paths |-> Absent] /\ live = {}

----------------------------------------------------------------------------
(* WorkspaceManager::create, for the run numbered owner. *)

\* What is there goes to a name nobody asks for, and a new directory is made.
MoveAside(path, owner) == [disk EXCEPT ![path] = [Absent EXCEPT !.state = "bare", !.owner = owner]]

\* The marker is written to a temporary file and renamed.
Mark(path, session_generation) ==
  /\ disk' = [disk EXCEPT ![path].state = "marked", ![path].session_generation = session_generation]
  /\ live' = live \cup {path}

----------------------------------------------------------------------------
(* WorkspaceManager::inspect and open. *)

inspect(path) ==
  IF disk[path].state = "absent" THEN "missing"
  ELSE IF disk[path].state = "bare" THEN "marker_missing" ELSE "none"

open(path, session_generation) ==
  inspect(path) = "none" /\ disk[path].session_generation = session_generation

\* Mutant: the outputs of a compiler survive the removal of its directory.
Write_always(path, run) == disk' = [disk EXCEPT ![path].writers = @ \cup {run}]

\* A compiler that runs in a directory leaves its outputs there, if it is still there.
Write(path, run) ==
  disk' = [disk EXCEPT ![path].writers = IF disk[path].state = "absent" THEN {} ELSE @ \cup {run}]

\* WorkspaceManager::cleanup_all; a directory that is in use may resist.
cleanup_all(inUse) ==
  /\ \E kept \in SUBSET (live \cap inUse) :
       disk' = [path \in Paths |-> IF path \in live \ kept THEN Absent ELSE disk[path]]
  /\ live' = {}
=============================================================================
