-------------------------- MODULE RemoteProperties --------------------------
(***************************************************************************)
(* What Remote is checked against.                                         *)
(***************************************************************************)
EXTENDS Remote

\* Every variable has its type; a path without a directory has no outputs, and a request that waits
\* has an identity that was given out.
RemoteTypeOK ==
  /\ disk \in [Paths -> [state : {"absent", "bare", "marked"}, session_generation : 0..MaxGeneration,
                         owner : 0..runs, writers : SUBSET (1..runs)]]
  /\ \A path \in Paths : disk[path].state = "absent" => disk[path] = Absent
  /\ live \subseteq Paths
  /\ generation \in [Phases -> [now : 0..MaxGeneration, saved : 0..MaxGeneration]]
  /\ adopted \in Links \cup {"none"}
  /\ pump \in [Links -> {"off", "receiving", "adopting", "closed", "ended"}]
  /\ \A l \in Links : \A waiter \in pending[l] : waiter.who \in Requesters /\ waiter.id \in 1..counter[l]
  /\ ended \subseteq Phases

\* A directory holds the outputs of the run it was made for and of no other, although runs of a
\* generation may be begun twice (create failed, or the coordinator stopped before the record was
\* saved), and a worker goes on writing after the coordinator that ordered it has stopped.
OutputsOwn == \A path \in Paths : disk[path].writers \subseteq {disk[path].owner}

\* A thread that waits on a shared channel is only given the reply to its own request: the
\* workspace it prepared, the report of the run it ordered.
ReplyIsOwn ==
  \A p \in Phases : thread[p].pc = "waiting" /\ reply[p].type \in {"ready", "report", "error"} =>
                      reply[p].order = Ordered(p)

\* On an open channel every reply under way has its request in pending_: none is taken for a
\* request of the peer and answered with an error, which the peer would answer again.
RepliesAwaited ==
  \A l \in Links : Open(l) =>
    \A i \in DOMAIN toCoordinator[l] :
      toCoordinator[l][i].type # "hello" => \E waiter \in pending[l] : waiter.id = toCoordinator[l][i].id

\* A worker only runs a compiler in a directory whose marker it has verified itself, although the
\* two requests are separate and another worker may be adopted between them.
RunsWhereOpened ==
  \A l \in Links : worker[l].at = "running" => worker[l].order.path \in worker[l].opened

\* Every request comes back to the thread that made it, whatever the worker does: the pump closes
\* the socket before it fails the waiting requests, and a request is refused on a closed socket.
RequestsReturn ==
  \A r \in Requesters : thread[r].pc = "waiting" ~> thread[r].pc # "waiting"

\* workspace.hpp: cleanup_all is "used by tests and clean shutdown".  While the coordinator runs,
\* a committed phase of a session that is not retired keeps its outputs.
CommittedKept ==
  \A p \in Phases : thread[p].pc = "committed" /\ p \notin ended /\ stops = 0 =>
                      thread[p].order.run \in disk[thread[p].order.path].writers
=============================================================================
