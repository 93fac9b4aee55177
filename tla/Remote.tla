-------------------------------- MODULE Remote --------------------------------
(***************************************************************************)
(* The control plane of service.cpp and protocol.cpp, with the workspaces it *)
(* shares.  The coordinator runs phases on the worker that is connected, or   *)
(* locally without one; the threads that ask the worker for something share a *)
(* channel with one reader, the pump; the worker serves one request at a      *)
(* time.  Connections break, workers and the coordinator stop at any time.    *)
(***************************************************************************)
EXTENDS Workspaces, Sequences

CONSTANTS
  Links,         \* the connections, each of a worker of its own
  Reproducible,  \* the phases whose policy asks for a second run
  Limits         \* bounds what happens: the phases asked for, and how often the rest

Requesters == Phases \cup {"cancel"}

ASSUME RemoteAssumption ==
  /\ "cancel" \notin Phases /\ "none" \notin Links /\ Reproducible \subseteq Phases
  /\ MaxGeneration \in Nat
  /\ Limits \subseteq [phases : SUBSET Phases, runs : Nat, cancels : Nat, stops : Nat, retires : Nat, links : Nat, faults : Nat]

VARIABLES
  generation,   \* of each phase: [now, saved]
  thread,       \* what each requester is doing
  reply,        \* the promise of each requester's request
  adopted,      \* worker: the channel that orders go to
  pump,         \* the reader of each channel: "off", "receiving", "adopting", "closed", "ended"
  pending,      \* pending_: the requests of each channel that wait, and who waits
  counter,      \* request_counter_
  toWorker, toCoordinator,  \* the frames under way
  worker,       \* the worker at the other end: [at, id, order, opened], the last a history
  ended,        \* the phases that are cancelled, or retired with their session
  cleaning,     \* the retirements that have yet to remove the workspaces
  runs,         \* the reservations so far
  cancels, stops, retires, faults,  \* the cancellations, stops, retirements and failed writes so far
  limit         \* their bounds in this behaviour

reserveVars == <<generation, runs, ended, cleaning>>
frameVars == <<toWorker, toCoordinator>>
channelVars == <<adopted, pump, pending, counter, frameVars>>
boundVars == <<cancels, stops, retires, faults, limit>>
vars == <<workspaceVars, reserveVars, thread, reply, channelVars, worker, boundVars>>

NoOrder == [path |-> [phase |-> "none", generation |-> 0, label |-> "none"], run |-> 0]
Resting == [pc |-> "idle", step |-> "none", link |-> "none", id |-> 0, second |-> FALSE, order |-> NoOrder]
Frame(type, id, order) == [type |-> type, id |-> id, order |-> order]
NoReply == Frame("none", 0, NoOrder)
Off == [at |-> "off", id |-> 0, order |-> NoOrder, opened |-> {}]

Init ==
  /\ WorkspacesInit
  /\ generation = [p \in Phases |-> [now |-> 0, saved |-> 0]]
  /\ thread = [r \in Requesters |-> Resting]
  /\ reply = [r \in Requesters |-> NoReply]
  /\ adopted = "none"
  /\ pump = [l \in Links |-> "off"]
  /\ pending = [l \in Links |-> {}]
  /\ counter = [l \in Links |-> 0]
  /\ toWorker = [l \in Links |-> <<>>]
  /\ toCoordinator = [l \in Links |-> <<>>]
  /\ worker = [l \in Links |-> Off]
  /\ ended = {} /\ cleaning = 0 /\ retires = 0 /\ runs = 0 /\ cancels = 0 /\ stops = 0 /\ faults = 0
  /\ limit \in Limits

\* FramedConnection::open, at the end of the coordinator.
Open(l) == pump[l] \in {"receiving", "adopting"}

\* The provider of the remote executor.
WorkerOpen == adopted # "none" /\ Open(adopted)

Serving(l) == worker[l].at \in {"hello", "serving", "running", "wrote"}

\* The runtime's mutex is held while a phase is reserved, and by a cancellation until the worker
\* answers.
Reserving(p) == thread[p].pc \in {"marking", "reserving"} /\ ~thread[p].second
Unlocked == thread["cancel"].pc = "idle" /\ \A p \in Phases : ~Reserving(p)

Moves(r, from, to) == thread[r].pc = from /\ thread' = [thread EXCEPT ![r].pc = to]

----------------------------------------------------------------------------
(* reserve: a workspace for the next generation of the phase, then the record. *)

\* The order of the run under way: the second run has a directory of its own.
Ordered(p) ==
  LET order == thread[p].order
  IN  IF thread[p].second THEN [order EXCEPT !.path.label = "repro"] ELSE order

Reserve(p) ==
  LET label == IF thread[p].pc = "failed" THEN "retry" ELSE "first"
      path == [phase |-> p, generation |-> generation[p].now + 1, label |-> label]
  IN  /\ Unlocked /\ p \in limit.phases \ ended /\ thread[p].pc \in {"idle", "failed"}
      /\ runs < limit.runs /\ generation[p].now < MaxGeneration
      /\ runs' = runs + 1
      /\ disk' = MoveAside(path, runs + 1)
      /\ thread' = [thread EXCEPT ![p] = [Resting EXCEPT !.pc = "marking",
                                            !.order = [path |-> path, run |-> runs + 1]]]
      /\ UNCHANGED <<live, generation, ended, cleaning, reply, channelVars, worker, boundVars>>

\* The session generation in the marker; it moves with the generation of the phase.
MarkedAs(p) == IF thread[p].second THEN 0 ELSE Ordered(p).path.generation

WriteMarker(p) ==
  /\ Moves(p, "marking", IF thread[p].second THEN "reserved" ELSE "reserving")
  /\ Mark(Ordered(p).path, MarkedAs(p))
  /\ UNCHANGED <<reserveVars, reply, channelVars, worker, boundVars>>

\* create reports a failure and nothing is recorded of the generation.
MarkerFails(p) ==
  /\ faults < limit.faults /\ faults' = faults + 1
  /\ Moves(p, "marking", IF thread[p].second \/ Ordered(p).path.label = "retry" THEN "failed" ELSE "idle")
  /\ UNCHANGED <<workspaceVars, reserveVars, reply, channelVars, worker, cancels, stops, retires, limit>>

\* Mutant: the generation is only kept in memory.
Saved_memory(g) == [g EXCEPT !.now = @ + 1]

\* The phase moves on, and is saved before anything runs.
Saved(g) == [now |-> g.now + 1, saved |-> g.now + 1]

Persist(p) ==
  /\ Moves(p, "reserving", "reserved")
  /\ generation' = [generation EXCEPT ![p] = Saved(@)]
  /\ UNCHANGED <<workspaceVars, runs, ended, cleaning, reply, channelVars, worker, boundVars>>

\* The record says that the phase prepares, and nobody will run it.
PersistFails(p) ==
  /\ faults < limit.faults /\ faults' = faults + 1
  /\ Moves(p, "reserving", "stuck")
  /\ generation' = [generation EXCEPT ![p].now = @ + 1]
  /\ UNCHANGED <<workspaceVars, runs, ended, cleaning, reply, channelVars, worker, cancels, stops, retires, limit>>

----------------------------------------------------------------------------
(* AdaptiveExecutor::execute and cancel: the worker if one is connected. *)

Dispatch(p) ==
  /\ thread[p].pc = "reserved"
  /\ thread' = [thread EXCEPT ![p].pc = IF WorkerOpen THEN "ask" ELSE "local",
                               ![p].step = "prepare", ![p].link = adopted]
  /\ UNCHANGED <<workspaceVars, reserveVars, reply, channelVars, worker, boundVars>>

\* LocalPhaseExecutor runs the compiler, which needs its working directory, to the end.
RunLocally(p) ==
  LET order == Ordered(p)
      started == inspect(order.path) # "missing"
  IN  /\ \/ Moves(p, "local", "ran") /\ started /\ Write(order.path, order.run)
         \/ Moves(p, "local", "failed") /\ UNCHANGED disk
      /\ UNCHANGED <<live, reserveVars, reply, channelVars, worker, boundVars>>

\* phase_state_retains_commit_authority of the record, which the thread of a failed run updates
\* when it gets the mutex.
Retains(p) == thread[p].pc # "failed" /\ p \notin ended

\* Runtime::cancel_phase asks the executor with the mutex held, if there was an invocation.
Cancel(p) ==
  /\ Unlocked /\ cancels < limit.cancels /\ thread[p].pc # "committed"
  /\ cancels' = cancels + 1
  /\ IF WorkerOpen /\ generation[p].now > 0
       THEN /\ thread' = [thread EXCEPT !["cancel"] = [Resting EXCEPT !.pc = "ask", !.step = "cancel",
                              !.link = adopted, !.order = IF Retains(p) THEN thread[p].order ELSE NoOrder]]
            /\ UNCHANGED ended
       ELSE ended' = (IF Retains(p) THEN ended \cup {p} ELSE ended) /\ UNCHANGED thread
  /\ UNCHANGED <<workspaceVars, generation, runs, cleaning, reply, channelVars, worker, stops, retires,
                 faults, limit>>

----------------------------------------------------------------------------
(* PeerChannel::request, in the thread r. *)

\* The thread is done with its request.
Back(r, pc) == [thread EXCEPT ![r] = [@ EXCEPT !.pc = pc, !.step = "none", !.link = "none", !.id = 0]]

\* A run has failed; a cancellation goes on in the same way whatever the worker said.
Refused(r) == IF r \in Phases THEN Back(r, "failed") ELSE [thread EXCEPT ![r] = Resting]

Cancelled(r) == IF r \in Phases THEN ended ELSE ended \cup ({thread[r].order.path.phase} \cap Phases)

\* Mutant: the counter does not move.
NextId_same(l) == 1

next_request_id(l) == counter[l] + 1

Ask(r) ==
  LET l == thread[r].link
  IN  /\ thread[r].pc = "ask"
      /\ IF Open(l)
           THEN /\ thread' = [thread EXCEPT ![r].pc = "send", ![r].id = next_request_id(l)]
                /\ counter' = [counter EXCEPT ![l] = @ + 1]
           ELSE thread' = Refused(r) /\ UNCHANGED counter
      /\ ended' = IF Open(l) THEN ended ELSE Cancelled(r)
      /\ UNCHANGED <<workspaceVars, generation, runs, cleaning, reply, adopted, pump, pending, frameVars, worker, boundVars>>

Without(l, id) == {waiter \in pending[l] : waiter.id # id}

\* Mutant: a frame is taken to be sent when the socket is closed already.
Sendable_always(l) == TRUE

\* FramedConnection::send succeeds: the socket is open.
Sendable(l) == Open(l)

\* The promise is registered and the frame sent.  A pump that ends between the two fails the
\* promise, and the send fails too.
Send(r) ==
  LET l == thread[r].link
      order == IF r \in Phases THEN Ordered(r) ELSE thread[r].order
  IN  /\ Moves(r, "send", "waiting") /\ Sendable(l)
      /\ pending' = [pending EXCEPT ![l] = Without(l, thread[r].id) \cup {[id |-> thread[r].id, who |-> r]}]
      /\ toWorker' = [toWorker EXCEPT ![l] = Append(@, Frame(thread[r].step, thread[r].id, order))]
      /\ UNCHANGED <<workspaceVars, reserveVars, reply, adopted, pump, counter, toCoordinator, worker,
                     boundVars>>

\* It fails on a closed socket, or on one whose peer is gone.
SendFails(r) ==
  LET l == thread[r].link
  IN  /\ thread[r].pc = "send" /\ (~Sendable(l) \/ ~Serving(l))
      /\ thread' = Refused(r)
      /\ ended' = Cancelled(r)
      /\ UNCHANGED <<workspaceVars, generation, runs, cleaning, reply, channelVars, worker, boundVars>>

\* Mutant: each request goes to the worker that is connected when it is made.
NextChannel_adopted(r) == IF WorkerOpen THEN adopted ELSE thread[r].link

\* RemotePhaseExecutor::execute sends the order where the workspace was prepared.
NextChannel(r) == thread[r].link

Return(r) ==
  LET type == reply[r].type
  IN  /\ thread[r].pc = "waiting" /\ type # "none"
      /\ thread' = IF type = "ready"
                     THEN [thread EXCEPT ![r].pc = "ask", ![r].step = "start", ![r].link = NextChannel(r)]
                   ELSE IF type = "report" THEN Back(r, "ran")
                   ELSE Refused(r)
      /\ ended' = Cancelled(r)
      /\ reply' = [reply EXCEPT ![r] = NoReply]
      /\ UNCHANGED <<workspaceVars, generation, runs, cleaning, channelVars, worker, boundVars>>

----------------------------------------------------------------------------
(* run_phase_impl after the execution. *)

\* The outputs are where the compiler left them; the policy may ask for a second run, for the
\* same reservation; a phase that was cancelled or retired takes nothing more.
Conclude(p) ==
  LET order == thread[p].order
      again == [order.path EXCEPT !.label = "repro"]
      found == order.run \in disk[order.path].writers
  IN  /\ Unlocked /\ thread[p].pc = "ran"
      /\ IF p \in ended \/ ~found
           THEN thread' = [thread EXCEPT ![p].pc = "failed"] /\ UNCHANGED disk
         ELSE IF p \in Reproducible /\ ~thread[p].second
           THEN /\ thread' = [thread EXCEPT ![p].pc = "marking", ![p].second = TRUE]
                /\ disk' = MoveAside(again, order.run)
         ELSE thread' = [thread EXCEPT ![p].pc = "committed"] /\ UNCHANGED disk
      /\ UNCHANGED <<live, reserveVars, reply, channelVars, worker, boundVars>>

\* The directories a compiler runs in.
InUse ==
  {Ordered(p).path : p \in {q \in Phases : thread[q].pc = "local"}}
    \cup {worker[l].order.path : l \in {k \in Links : worker[k].at \in {"running", "wrote"}}}

\* Runtime::retire_session, whatever the phase is doing; the workspaces go when the mutex is
\* released.
Retire(p) ==
  /\ Unlocked /\ retires < limit.retires
  /\ retires' = retires + 1
  /\ ended' = ended \cup {p}
  /\ cleaning' = cleaning + 1
  /\ UNCHANGED <<workspaceVars, generation, runs, thread, reply, channelVars, worker, cancels, stops,
                 faults, limit>>

Cleanup ==
  /\ cleaning > 0 /\ cleaning' = cleaning - 1
  /\ cleanup_all(InUse)
  /\ UNCHANGED <<generation, runs, ended, thread, reply, channelVars, worker, boundVars>>

----------------------------------------------------------------------------
(* PeerChannel::pump at the coordinator. *)

Head_(l) == Head(toCoordinator[l])

\* CoordinatorService::Impl::handle adopts a worker before its hello is answered.
PumpHello(l) ==
  /\ pump[l] = "receiving" /\ toCoordinator[l] # <<>> /\ Head_(l).type = "hello"
  /\ toCoordinator' = [toCoordinator EXCEPT ![l] = Tail(@)]
  /\ adopted' = l
  /\ pump' = [pump EXCEPT ![l] = "adopting"]
  /\ UNCHANGED <<workspaceVars, reserveVars, thread, reply, pending, counter, toWorker, worker, boundVars>>

PumpAck(l) ==
  /\ pump[l] = "adopting"
  /\ toWorker' = [toWorker EXCEPT ![l] = Append(@, Frame("hello_ack", 0, NoOrder))]
  /\ pump' = [pump EXCEPT ![l] = "receiving"]
  /\ UNCHANGED <<workspaceVars, reserveVars, thread, reply, adopted, pending, counter, toCoordinator,
                 worker, boundVars>>

\* A reply goes to whoever waits for its request.
PumpReply(l) ==
  /\ pump[l] = "receiving" /\ toCoordinator[l] # <<>> /\ Head_(l).type # "hello"
  /\ toCoordinator' = [toCoordinator EXCEPT ![l] = Tail(@)]
  /\ reply' = [r \in Requesters |->
                 IF [id |-> Head_(l).id, who |-> r] \in pending[l] THEN Head_(l) ELSE reply[r]]
  /\ pending' = [pending EXCEPT ![l] = Without(l, Head_(l).id)]
  /\ UNCHANGED <<workspaceVars, reserveVars, thread, adopted, pump, counter, toWorker, worker, boundVars>>

\* receive fails: the peer is gone, or nothing came for as long as the socket waits.
PumpEnds(l) ==
  /\ pump[l] = "receiving" /\ toCoordinator[l] = <<>>
  /\ pump' = [pump EXCEPT ![l] = "closed"]
  /\ UNCHANGED <<workspaceVars, reserveVars, thread, reply, adopted, pending, counter, frameVars, worker,
                 boundVars>>

\* The waiting requests are failed once the socket is closed.
PumpFails(l) ==
  /\ pump[l] = "closed"
  /\ pump' = [pump EXCEPT ![l] = "ended"]
  /\ reply' = [r \in Requesters |->
                 IF \E waiter \in pending[l] : waiter.who = r THEN Frame("broken", 0, NoOrder) ELSE reply[r]]
  /\ pending' = [pending EXCEPT ![l] = {}]
  /\ UNCHANGED <<workspaceVars, reserveVars, thread, adopted, counter, frameVars, worker, boundVars>>

Pump(l) == PumpHello(l) \/ PumpAck(l) \/ PumpReply(l) \/ PumpEnds(l) \/ PumpFails(l)

----------------------------------------------------------------------------
(* WorkerService: connect, then serve with one request at a time. *)

Connect(l) ==
  /\ worker[l].at = "off" /\ Cardinality({k \in Links : pump[k] # "off"}) < limit.links
  /\ worker' = [worker EXCEPT ![l].at = "hello"]
  /\ pump' = [pump EXCEPT ![l] = "receiving"]
  /\ toCoordinator' = [toCoordinator EXCEPT ![l] = <<Frame("hello", 0, NoOrder)>>]
  /\ UNCHANGED <<workspaceVars, reserveVars, thread, reply, adopted, pending, counter, toWorker, boundVars>>

\* transact waits for the answer to the hello, and drops what is not.
Handshake(l) ==
  /\ worker[l].at = "hello" /\ toWorker[l] # <<>>
  /\ toWorker' = [toWorker EXCEPT ![l] = Tail(@)]
  /\ worker' = [worker EXCEPT ![l].at = IF Head(toWorker[l]).id = 0 THEN "serving" ELSE @]
  /\ UNCHANGED <<workspaceVars, reserveVars, thread, reply, adopted, pump, pending, counter,
                 toCoordinator, boundVars>>

\* serve returns when a reply cannot be sent.
Answers(l, frame, state) ==
  IF Open(l)
    THEN /\ toCoordinator' = [toCoordinator EXCEPT ![l] = Append(@, frame)]
         /\ worker' = [worker EXCEPT ![l] = [state EXCEPT !.at = "serving"]]
    ELSE worker' = [worker EXCEPT ![l] = [Off EXCEPT !.at = "gone"]] /\ UNCHANGED toCoordinator

Takes(l, type) ==
  /\ worker[l].at = "serving" /\ toWorker[l] # <<>> /\ Head(toWorker[l]).type = type
  /\ toWorker' = [toWorker EXCEPT ![l] = Tail(@)]

\* The order names the session generation of the reservation, for the second run as well.
Opens(path) == open(path, path.generation)

ServePrepare(l) ==
  LET request == Head(toWorker[l])
      path == request.order.path
      prepared == [worker[l] EXCEPT !.opened = @ \cup {path}]
  IN  /\ Takes(l, "prepare")
      /\ IF Opens(path) THEN Answers(l, [request EXCEPT !.type = "ready"], prepared)
         ELSE Answers(l, [request EXCEPT !.type = "error"], worker[l])
      /\ UNCHANGED <<workspaceVars, reserveVars, thread, reply, adopted, pump, pending, counter, boundVars>>

\* The order is refused (its executable changed, or its directory is gone), or the compiler starts.
ServeStart(l) ==
  LET request == Head(toWorker[l])
  IN  /\ Takes(l, "start")
      /\ \/ Answers(l, [request EXCEPT !.type = "error"], worker[l])
         \/ /\ inspect(request.order.path) # "missing"
            /\ worker' = [worker EXCEPT ![l].at = "running", ![l].id = request.id, ![l].order = request.order]
            /\ UNCHANGED toCoordinator
      /\ UNCHANGED <<workspaceVars, reserveVars, thread, reply, adopted, pump, pending, counter, boundVars>>

\* The compiler writes its outputs.
CompilerWrites(l) ==
  /\ worker[l].at = "running"
  /\ Write(worker[l].order.path, worker[l].order.run)
  /\ worker' = [worker EXCEPT ![l].at = "wrote"]
  /\ UNCHANGED <<live, reserveVars, thread, reply, channelVars, boundVars>>

\* It ended, and the report says what it left.
ServeReport(l) ==
  /\ worker[l].at = "wrote"
  /\ Answers(l, Frame("report", worker[l].id, worker[l].order), [worker[l] EXCEPT !.id = 0, !.order = NoOrder])
  /\ UNCHANGED <<workspaceVars, reserveVars, thread, reply, adopted, pump, pending, counter, toWorker,
                 boundVars>>

\* A cancellation is acknowledged; it reaches no compiler, since the one that ran has ended.
ServeCancel(l) ==
  /\ Takes(l, "cancel")
  /\ Answers(l, [Head(toWorker[l]) EXCEPT !.type = "cancelled"], worker[l])
  /\ UNCHANGED <<workspaceVars, reserveVars, thread, reply, adopted, pump, pending, counter, boundVars>>

\* receive fails at the worker, or the worker is killed and its compiler with it.
WorkerEnds(l) ==
  /\ Serving(l)
  /\ worker' = [worker EXCEPT ![l] = [Off EXCEPT !.at = "gone"]]
  /\ toWorker' = [toWorker EXCEPT ![l] = <<>>]
  /\ UNCHANGED <<workspaceVars, reserveVars, thread, reply, adopted, pump, pending, counter,
                 toCoordinator, boundVars>>

Serve(l) ==
  Handshake(l) \/ ServePrepare(l) \/ ServeStart(l) \/ CompilerWrites(l) \/ ServeReport(l) \/ ServeCancel(l)

----------------------------------------------------------------------------
(* The coordinator stops and another one is started on the same state. *)

\* What the record says of a phase when it is restored.
Restored(p) ==
  IF thread[p].pc = "committed" THEN thread[p]
  ELSE [Resting EXCEPT !.pc = IF generation[p].saved = 0 THEN "idle" ELSE "failed"]

\* A shutdown removes the workspaces, a crash does not; the sockets are closed by the system.
Stop(clean) ==
  /\ stops < limit.stops /\ stops' = stops + 1
  /\ IF clean THEN Unlocked /\ cleanup_all(InUse) ELSE live' = {} /\ UNCHANGED disk
  /\ generation' = [p \in Phases |-> [generation[p] EXCEPT !.now = generation[p].saved]]
  /\ thread' = [r \in Requesters |-> IF r \in Phases THEN Restored(r) ELSE Resting]
  /\ reply' = [r \in Requesters |-> NoReply]
  /\ adopted' = "none"
  /\ pump' = [l \in Links |-> IF pump[l] = "off" THEN "off" ELSE "ended"]
  /\ pending' = [l \in Links |-> {}]
  /\ cleaning' = 0
  /\ UNCHANGED <<counter, runs, ended, frameVars, worker, cancels, retires, faults, limit>>

----------------------------------------------------------------------------
Phase(p) ==
  Reserve(p) \/ WriteMarker(p) \/ MarkerFails(p) \/ Persist(p) \/ PersistFails(p) \/ Dispatch(p)
    \/ RunLocally(p) \/ Conclude(p) \/ Retire(p) \/ Cancel(p)

Request(r) == Ask(r) \/ Send(r) \/ SendFails(r) \/ Return(r)

Next ==
  \/ \E p \in Phases : Phase(p)
  \/ Cleanup
  \/ \E r \in Requesters : Request(r)
  \/ \E l \in Links : Pump(l) \/ Connect(l) \/ Serve(l) \/ WorkerEnds(l)
  \/ \E clean \in BOOLEAN : Stop(clean)

\* A thread that can go on does; the pump waits for a frame no longer than the timeout of its
\* socket.  Nothing is assumed of the workers.
Fairness ==
  /\ \A r \in Requesters : WF_vars(Request(r))
  /\ \A l \in Links : WF_vars(Pump(l))

Spec == Init /\ [][Next]_vars /\ Fairness
=============================================================================
