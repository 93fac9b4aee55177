------------------------------ MODULE MCRemote ------------------------------
(***************************************************************************)
(* Model checking of Remote.                                              *)
(***************************************************************************)
EXTENDS RemoteProperties

Limit(phases, numbers) ==
  [phases |-> phases, runs |-> numbers[1], cancels |-> numbers[2], stops |-> numbers[3],
   retires |-> numbers[4], links |-> numbers[5], faults |-> numbers[6]]

\* A stop of the coordinator with a worker that goes on; a cancellation; a retirement; a worker
\* displaced by another; two phases on one channel; failing writes and a stop, with no worker.
MCLimits ==
  {Limit(Reproducible, <<2, 0, 1, 0, 1, 0>>), Limit(Reproducible, <<1, 1, 0, 0, 1, 0>>),
   Limit(Reproducible, <<1, 0, 0, 1, 1, 0>>), Limit(Phases \ Reproducible, <<1, 0, 0, 0, 2, 0>>),
   Limit(Phases, <<2, 0, 0, 0, 1, 0>>), Limit(Reproducible, <<2, 0, 1, 0, 0, 1>>)}

\* Two sessions, one of which is retired.
RetireLimits == {Limit(Phases, <<2, 0, 0, 1, 0, 0>>)}
=============================================================================
