----------------------------- MODULE RemoteProofs -----------------------------
(***************************************************************************)
(* The invariant of Remote, and the proofs that its channels stay in order: *)
(* what a thread is told over a shared channel, where a worker may run a    *)
(* compiler and whose outputs a directory holds, for every number of        *)
(* phases, workers, runs, stops and faults.                                 *)
(***************************************************************************)
EXTENDS RemoteProperties, TLAPS

\* Most leaves are first-order and go to Zenon; one that needs arithmetic or
\* typed records cites SMT.
USE Zenon

Pcs ==
  {"idle", "marking", "reserving", "reserved", "stuck", "local", "ask", "send", "waiting", "ran",
   "failed", "committed"}

\* What orders name; that of a cancellation may be no path of the disk.
Places == [phase : Phases \cup {"none"}, generation : Nat, label : Labels \cup {"none"}]
Orders == [path : Places, run : Nat]
FrameTypes ==
  {"none", "broken", "hello", "hello_ack", "prepare", "start", "cancel", "ready", "report", "error",
   "cancelled"}
Frames == [type : FrameTypes, id : Nat, order : Orders]
Threads ==
  [pc : Pcs, step : {"none", "prepare", "start", "cancel"}, link : Links \cup {"none"}, id : Nat,
   second : BOOLEAN, order : Orders]
Workers ==
  [at : {"off", "hello", "serving", "running", "wrote", "gone"}, id : Nat, order : Orders,
   opened : SUBSET Places]
Directories ==
  [state : {"absent", "bare", "marked"}, session_generation : Nat, owner : Nat, writers : SUBSET Nat]

Types ==
  /\ disk \in [Paths -> Directories]
  /\ live \subseteq Paths
  /\ generation \in [Phases -> [now : Nat, saved : Nat]]
  /\ thread \in [Requesters -> Threads]
  /\ reply \in [Requesters -> Frames]
  /\ adopted \in Links \cup {"none"}
  /\ pump \in [Links -> {"off", "receiving", "adopting", "closed", "ended"}]
  /\ pending \in [Links -> SUBSET [id : Nat, who : Requesters]]
  /\ counter \in [Links -> Nat]
  /\ toWorker \in [Links -> Seq(Frames)]
  /\ toCoordinator \in [Links -> Seq(Frames)]
  /\ worker \in [Links -> Workers]
  /\ ended \subseteq Phases
  /\ runs \in Nat

Asking(r) == thread[r].pc \in {"ask", "send", "waiting"}

\* The order in the frames of the requester r, whose thread is t.
OrderSent(r, t) == IF r \in Phases /\ t.second THEN [t.order EXCEPT !.path.label = "repro"] ELSE t.order
SentOrder(r) == OrderSent(r, thread[r])

\* Who asks has a channel that was connected, and asks for what such a thread asks for; a channel
\* that was never connected has seen nothing.
Connected ==
  /\ \A r \in Requesters : Asking(r) => thread[r].link \in Links /\ pump[thread[r].link] # "off"
  /\ \A p \in Phases : thread[p].step # "cancel"
  /\ thread["cancel"].step \in {"none", "cancel"} /\ thread["cancel"].pc \in {"idle", "ask", "send", "waiting"}
  /\ adopted # "none" => pump[adopted] # "off"
  /\ \A l \in Links :
       /\ worker[l].at = "off" <=> pump[l] = "off"
       /\ pump[l] = "off" =>
            toWorker[l] = <<>> /\ toCoordinator[l] = <<>> /\ pending[l] = {} /\ worker[l] = Off

\* Two requests that are on one channel have different identities, both given out.
Distinct ==
  /\ \A r \in Requesters : thread[r].pc \in {"send", "waiting"} => thread[r].id \in 1..counter[thread[r].link]
  /\ \A r, q \in Requesters :
       r # q /\ thread[r].pc \in {"send", "waiting"} /\ thread[q].pc \in {"send", "waiting"}
             /\ thread[r].link = thread[q].link => thread[r].id # thread[q].id

\* pending_ holds requests that wait and have no reply yet; only who waits is given a reply, and
\* it is the reply to what it asked.
Waiting ==
  /\ \A l \in Links : \A w \in pending[l] :
       /\ thread[w.who].pc = "waiting" /\ thread[w.who].link = l /\ thread[w.who].id = w.id
       /\ reply[w.who].type = "none"
  /\ \A r \in Requesters : thread[r].pc # "waiting" => reply[r].type = "none"
  /\ \A r \in Requesters : reply[r].type \notin {"none", "broken"} => reply[r].order = SentOrder(r)
  /\ \A r \in Requesters :
       /\ reply[r].type = "ready" => thread[r].step = "prepare"
       /\ reply[r].type = "report" => thread[r].step = "start"

\* One of the waiting requests P of the threads T is the one that the frame f belongs to.
Awaited(P, T, f) ==
  \E r \in Requesters :
    /\ [id |-> f.id, who |-> r] \in P
    /\ f.order = OrderSent(r, T[r])
    /\ f.type \in {"prepare", "ready"} => T[r].step = "prepare"
    /\ f.type \in {"start", "report"} => T[r].step = "start"

\* What the worker w will report.
Busy(w) == w.at \in {"running", "wrote"}
Served(w) == IF Busy(w) THEN {Frame("report", w.id, w.order)} ELSE {}

\* Not of the handshake.
Real(f) == f.type \notin {"hello", "hello_ack"}

\* Everything on its way to the worker, served there or on its way back is waited for, and it is
\* in one of these places only.
Exchange(tw, tc, S, P, T) ==
  /\ \A i \in DOMAIN tw : Real(tw[i]) => Awaited(P, T, tw[i])
  /\ \A i \in DOMAIN tc : Real(tc[i]) => Awaited(P, T, tc[i])
  /\ \A i \in DOMAIN tc : tc[i].type # "hello_ack"
  /\ \A f \in S : Awaited(P, T, f)
  /\ \A i, j \in DOMAIN tw : i # j /\ Real(tw[i]) /\ Real(tw[j]) => tw[i].id # tw[j].id
  /\ \A i, j \in DOMAIN tc : i # j /\ Real(tc[i]) /\ Real(tc[j]) => tc[i].id # tc[j].id
  /\ \A i \in DOMAIN tw, j \in DOMAIN tc : Real(tw[i]) /\ Real(tc[j]) => tw[i].id # tc[j].id
  /\ \A f \in S : \A i \in DOMAIN tw : Real(tw[i]) => tw[i].id # f.id
  /\ \A f \in S : \A i \in DOMAIN tc : Real(tc[i]) => tc[i].id # f.id

Exchanges ==
  \A l \in Links : Open(l) =>
    Exchange(toWorker[l], toCoordinator[l], Served(worker[l]), pending[l], thread)

\* What the worker w of l was asked to start, was told that it may be asked, or runs, is in a
\* directory it opened.
Verified(l, tw, tc, w, R, T) ==
  /\ Busy(w) => w.order.path \in w.opened
  /\ \A i \in DOMAIN tw : tw[i].type = "start" => tw[i].order.path \in w.opened
  /\ \A i \in DOMAIN tc : tc[i].type = "ready" => tc[i].order.path \in w.opened
  /\ \A r \in Requesters : R[r].type = "ready" /\ T[r].link = l => OrderSent(r, T[r]).path \in w.opened
  /\ \A r \in Requesters :
       T[r].pc \in {"ask", "send", "waiting"} /\ T[r].step = "start" /\ T[r].link = l
         => OrderSent(r, T[r]).path \in w.opened

AllVerified ==
  \A l \in Links : Serving(l) => Verified(l, toWorker[l], toCoordinator[l], worker[l], reply, thread)

Channels == Connected /\ Distinct /\ Waiting /\ Exchanges /\ AllVerified

ChannelInv == Types /\ Channels

-----------------------------------------------------------------------------
(* Whose outputs a directory holds. *)

Again(path) == [path EXCEPT !.label = "repro"]

\* A thread that holds a reservation, or is making one.
Holds(t) == t.pc \in {"marking", "reserving", "reserved", "ask", "send", "waiting", "local", "ran"}

\* The directory d, if there is one, was made for the run.
MadeFor(d, run) == d.state # "absent" => d.owner = run

Directory(d, n) ==
  /\ d.state = "absent" => d = Absent
  /\ d.session_generation <= MaxGeneration
  /\ d.owner <= n
  /\ d.writers \subseteq {d.owner} \cap 1..n

\* The reservation of p: its directories are its own, the one it is marking is there and not yet
\* the manager's to remove, and no second run of the generation was begun before it is due.
Reservation(p) ==
  LET order == thread[p].order
  IN  /\ order.path \in Paths /\ order.path.phase = p /\ order.path.label # "repro"
      /\ order.run \in 1..runs
      /\ order.path.generation = IF Reserving(p) THEN generation[p].now + 1 ELSE generation[p].now
      /\ MadeFor(disk[order.path], order.run)
      /\ thread[p].pc = "reserving" => ~thread[p].second
      /\ IF thread[p].second THEN MadeFor(disk[Again(order.path)], order.run) ELSE Again(order.path) \notin live
      /\ thread[p].pc = "marking" =>
           disk[Ordered(p).path].state # "absent" /\ Ordered(p).path \notin live

Generations ==
  \A p \in Phases :
    /\ generation[p].now <= MaxGeneration
    /\ IF thread[p].pc = "stuck" THEN generation[p].now = generation[p].saved + 1
                                 ELSE generation[p].now = generation[p].saved
    /\ \A path \in live : path.phase = p =>
         path.generation <= IF thread[p].pc = "reserving" THEN generation[p].now + 1 ELSE generation[p].now

\* An order that a compiler runs or may be started for names a saved generation, its directory was
\* made for its run, and so was the reservation that still holds the generation.
Bound(order, D, G, n, T) ==
  LET path == order.path
      t == T[path.phase]
  IN  /\ path \in Paths /\ order.run \in 1..n
      /\ path.generation <= G[path.phase].saved
      /\ MadeFor(D[path], order.run)
      /\ Holds(t) /\ t.order.path.generation = path.generation => t.order.run = order.run

DiskInv ==
  /\ \A path \in Paths : Directory(disk[path], runs)
  /\ Generations
  /\ \A p \in Phases : Holds(thread[p]) => Reservation(p)
  /\ \A l \in Links :
       /\ Busy(worker[l]) => Bound(worker[l].order, disk, generation, runs, thread)
       /\ \A i \in DOMAIN toWorker[l] :
            toWorker[l][i].type = "start" => Bound(toWorker[l][i].order, disk, generation, runs, thread)

RemoteInv == ChannelInv /\ DiskInv

-----------------------------------------------------------------------------
(* Queues of frames. *)

\* What is left when the first of a queue is taken.
LEMMA TakeFirst ==
  ASSUME NEW S, NEW s \in Seq(S), s # <<>>
  PROVE  /\ Head(s) \in S /\ Tail(s) \in Seq(S)
         /\ 1 \in DOMAIN s /\ Head(s) = s[1]
         /\ \A i \in DOMAIN Tail(s) : i + 1 \in DOMAIN s /\ Tail(s)[i] = s[i + 1] /\ i + 1 # 1
  BY SMT

\* What is there when one is added.
LEMMA AddLast ==
  ASSUME NEW S, NEW s \in Seq(S), NEW e \in S
  PROVE  /\ Append(s, e) \in Seq(S)
         /\ \A i \in DOMAIN Append(s, e) :
              IF i = Len(s) + 1 THEN Append(s, e)[i] = e ELSE i \in DOMAIN s /\ Append(s, e)[i] = s[i]
         /\ \A i \in DOMAIN s : i \in DOMAIN Append(s, e) /\ Append(s, e)[i] = s[i]
         /\ Len(s) + 1 \in DOMAIN Append(s, e) /\ Append(s, e)[Len(s) + 1] = e
  BY SMT

-----------------------------------------------------------------------------
(* Types. *)

\* What is sent is an order.
LEMMA SentType ==
  ASSUME Types, NEW r \in Requesters
  PROVE  SentOrder(r) \in Orders /\ (r \in Phases => Ordered(r) = SentOrder(r))
<1>1. thread[r] \in Threads
  BY DEF Types
<1>2. thread[r].order \in Orders /\ [thread[r].order EXCEPT !.path.label = "repro"] \in Orders
  BY <1>1 DEF Threads, Orders, Places, Labels
<1> QED
  BY <1>2 DEF SentOrder, OrderSent, Ordered

\* The records of nothing.
LEMMA NothingTypes ==
  /\ NoOrder \in Orders /\ Resting \in Threads /\ NoReply \in Frames /\ Off \in Workers
  /\ Absent \in Directories
<1>1. NoOrder \in Orders
  BY DEF NoOrder, Orders, Places, Labels
<1>2. Resting \in Threads
  BY <1>1 DEF Resting, Threads, Pcs
<1>3. NoReply \in Frames
  BY <1>1 DEF NoReply, Frame, Frames, FrameTypes
<1>4. Off \in Workers
  BY <1>1 DEF Off, Workers
<1>5. Absent \in Directories
  BY DEF Absent, Directories
<1> QED
  BY <1>1, <1>2, <1>3, <1>4, <1>5

\* The first state is typed.
LEMMA InitTypes == Init => Types
<1> SUFFICES ASSUME Init PROVE Types
  OBVIOUS
<1>1. disk \in [Paths -> Directories] /\ live \subseteq Paths
  BY NothingTypes DEF Init, WorkspacesInit
<1>2. generation \in [Phases -> [now : Nat, saved : Nat]]
  BY DEF Init
<1>3. thread \in [Requesters -> Threads] /\ reply \in [Requesters -> Frames] /\ worker \in [Links -> Workers]
  BY NothingTypes DEF Init
<1>4. /\ pump \in [Links -> {"off", "receiving", "adopting", "closed", "ended"}]
      /\ pending \in [Links -> SUBSET [id : Nat, who : Requesters]] /\ counter \in [Links -> Nat]
      /\ toWorker \in [Links -> Seq(Frames)] /\ toCoordinator \in [Links -> Seq(Frames)]
      /\ adopted \in Links \cup {"none"} /\ ended \subseteq Phases /\ runs \in Nat
  BY SMT DEF Init
<1> QED
  BY <1>1, <1>2, <1>3, <1>4 DEF Types

\* The paths of orders.
LEMMA PathIsPlace == Paths \subseteq Places
BY RemoteAssumption, SMT DEF Paths, Places

\* A thread that fails or returns is still typed.
LEMMA BackTypes ==
  ASSUME Types, NEW r \in Requesters, NEW pc \in Pcs
  PROVE  Back(r, pc) \in [Requesters -> Threads] /\ Refused(r) \in [Requesters -> Threads]
<1>1. thread[r] \in Threads /\ thread \in [Requesters -> Threads] /\ "failed" \in Pcs
  BY DEF Types, Pcs
<1>2. \A x \in Pcs : [thread[r] EXCEPT !.pc = x, !.step = "none", !.link = "none", !.id = 0] \in Threads
  BY <1>1 DEF Threads
<1>3. \A x \in Pcs : Back(r, x) \in [Requesters -> Threads]
  BY <1>1, <1>2 DEF Back
<1> QED
  BY <1>1, <1>3, NothingTypes DEF Refused

\* Only the pc of a thread changes.
LEMMA MoveTypes ==
  ASSUME Types, NEW r \in Requesters, NEW from, NEW to \in Pcs, Moves(r, from, to)
  PROVE  thread' \in [Requesters -> Threads]
<1>1. thread[r] \in Threads /\ thread \in [Requesters -> Threads]
  BY DEF Types
<1>2. [thread[r] EXCEPT !.pc = to] \in Threads
  BY <1>1 DEF Threads
<1> QED
  BY <1>1, <1>2 DEF Moves

\* Steps of a phase on the disk are typed.
LEMMA DiskTypes ==
  ASSUME Types, NEW path \in Paths
  PROVE  /\ \A n \in Nat : MoveAside(path, n) \in [Paths -> Directories]
         /\ \A n \in Nat : Mark(path, n) => disk' \in [Paths -> Directories] /\ live' \subseteq Paths
         /\ \A n \in Nat : Write(path, n) => disk' \in [Paths -> Directories]
<1>1. disk[path] \in Directories /\ disk \in [Paths -> Directories] /\ live \subseteq Paths
  BY DEF Types
<1>2. ASSUME NEW n \in Nat PROVE MoveAside(path, n) \in [Paths -> Directories]
  <2>1. [Absent EXCEPT !.state = "bare", !.owner = n] \in Directories
    BY DEF Absent, Directories
  <2> QED
    BY <1>1, <2>1 DEF MoveAside
<1>3. ASSUME NEW n \in Nat, Mark(path, n) PROVE disk' \in [Paths -> Directories] /\ live' \subseteq Paths
  <2>1. [disk[path] EXCEPT !.state = "marked", !.session_generation = n] \in Directories
    BY <1>1 DEF Directories
  <2> QED
    BY <1>1, <1>3, <2>1 DEF Mark
<1>4. ASSUME NEW n \in Nat, Write(path, n) PROVE disk' \in [Paths -> Directories]
  <2>1. /\ [disk[path] EXCEPT !.writers = @ \cup {n}] \in Directories
        /\ [disk[path] EXCEPT !.writers = {}] \in Directories
    BY <1>1 DEF Directories
  <2> QED
    BY <1>1, <1>4, <2>1 DEF Write
<1> QED
  BY <1>2, <1>3, <1>4

\* What is removed is typed.
LEMMA CleanupTypes ==
  ASSUME Types, NEW inUse, cleanup_all(inUse)
  PROVE  disk' \in [Paths -> Directories] /\ live' \subseteq Paths
BY NothingTypes DEF Types, cleanup_all

\* The path of the run under way is one of the disk, with its own numbers.
LEMMA HeldPath ==
  ASSUME RemoteInv, NEW p \in Phases, Holds(thread[p])
  PROVE  /\ Ordered(p).path \in Paths /\ Ordered(p).path.phase = p
         /\ Ordered(p).path.generation = thread[p].order.path.generation
         /\ Ordered(p).run = thread[p].order.run /\ Ordered(p).run \in 1..runs
         /\ Ordered(p).path = IF thread[p].second THEN Again(thread[p].order.path) ELSE thread[p].order.path
         /\ Again(thread[p].order.path) \in Paths /\ thread[p].order.path \in Paths
         /\ Again(thread[p].order.path).phase = p
         /\ Again(thread[p].order.path).generation = thread[p].order.path.generation
         /\ Again(thread[p].order.path).label = "repro"
<1> DEFINE order == thread[p].order
<1>1. order.path \in Paths /\ order.path.phase = p /\ order.run \in 1..runs
  BY DEF RemoteInv, DiskInv, Reservation
<1>2. p \in Requesters /\ order \in Orders
  BY DEF RemoteInv, ChannelInv, Channels, Types, Threads, Requesters
<1>3. Again(order.path) \in Paths /\ Again(order.path).phase = p /\ Again(order.path).label = "repro"
      /\ Again(order.path).generation = order.path.generation
  BY <1>1 DEF Again, Paths, Labels
<1>4. [order EXCEPT !.path.label = "repro"].path = Again(order.path)
      /\ [order EXCEPT !.path.label = "repro"].run = order.run
  BY <1>2 DEF Orders, Again
<1> QED
  BY <1>1, <1>3, <1>4 DEF Ordered

\* The steps of a phase keep the types.
LEMMA PhaseTypes ==
  ASSUME RemoteInv, NEW p \in Phases, Phase(p)
  PROVE  Types'
<1>0. Types /\ DiskInv /\ p \in Requesters /\ thread[p] \in Threads /\ thread \in [Requesters -> Threads]
      /\ "cancel" \in Requesters
  BY DEF RemoteInv, ChannelInv, Channels, Types, Requesters
<1>1. CASE Reserve(p)
  <2> DEFINE label == IF thread[p].pc = "failed" THEN "retry" ELSE "first"
             path == [phase |-> p, generation |-> generation[p].now + 1, label |-> label]
             new == [Resting EXCEPT !.pc = "marking", !.order = [path |-> path, run |-> runs + 1]]
  <2>1. path \in Paths
    BY <1>0, <1>1, RemoteAssumption, SMT DEF Reserve, Paths, Labels, Types
  <2>2. [path |-> path, run |-> runs + 1] \in Orders
    BY <2>1, <1>0, PathIsPlace, SMT DEF Orders, Types
  <2> HIDE DEF path
  <2>3. new \in Threads
    BY <2>2, NothingTypes DEF Threads, Pcs
  <2>4. thread' = [thread EXCEPT ![p] = new] /\ disk' = MoveAside(path, runs + 1) /\ runs' = runs + 1
    BY <1>1 DEF Reserve, path
  <2> HIDE DEF new
  <2> QED
    BY <1>0, <1>1, <2>1, <2>3, <2>4, DiskTypes, SMT DEF Reserve, Types, channelVars, frameVars
<1>2. CASE WriteMarker(p)
  <2>1. Holds(thread[p]) /\ Ordered(p).path \in Paths /\ MarkedAs(p) \in Nat
    BY <1>2, HeldPath, SMT DEF WriteMarker, Moves, Holds, MarkedAs, Paths
  <2>2. thread' \in [Requesters -> Threads]
    BY <1>0, <1>2, MoveTypes DEF WriteMarker, Pcs
  <2>3. disk' \in [Paths -> Directories] /\ live' \subseteq Paths
    BY <1>0, <1>2, <2>1, DiskTypes DEF WriteMarker
  <2> QED
    BY <1>0, <1>2, <2>2, <2>3 DEF WriteMarker, Types, reserveVars, channelVars, frameVars
<1>3. CASE MarkerFails(p) \/ PersistFails(p) \/ Persist(p)
  <2>1. thread' \in [Requesters -> Threads]
    BY <1>0, <1>3, MoveTypes DEF MarkerFails, PersistFails, Persist, Pcs
  <2>2. generation' \in [Phases -> [now : Nat, saved : Nat]]
    <3>1. generation \in [Phases -> [now : Nat, saved : Nat]] /\ generation[p] \in [now : Nat, saved : Nat]
      BY <1>0 DEF Types
    <3>2. [generation[p] EXCEPT !.now = @ + 1] \in [now : Nat, saved : Nat]
          /\ Saved(generation[p]) \in [now : Nat, saved : Nat]
      BY <3>1, SMT DEF Saved
    <3>3. generation' = generation \/ generation' = [generation EXCEPT ![p] = Saved(@)]
            \/ generation' = [generation EXCEPT ![p].now = @ + 1]
      BY <1>3 DEF MarkerFails, PersistFails, Persist, reserveVars
    <3> QED
      BY <3>1, <3>2, <3>3
  <2> QED
    BY <1>0, <1>3, <2>1, <2>2
    DEF MarkerFails, PersistFails, Persist, Types, workspaceVars, reserveVars, channelVars, frameVars
<1>4. CASE Dispatch(p)
  <2>1. [thread[p] EXCEPT !.pc = IF WorkerOpen THEN "ask" ELSE "local", !.step = "prepare", !.link = adopted]
          \in Threads
    BY <1>0 DEF Threads, Pcs, Types
  <2>2. thread' \in [Requesters -> Threads]
    BY <1>0, <1>4, <2>1 DEF Dispatch
  <2> QED
    BY <1>0, <1>4, <2>2 DEF Dispatch, Types, workspaceVars, reserveVars, channelVars, frameVars
<1>5. CASE RunLocally(p)
  <2>1. thread' \in [Requesters -> Threads]
    BY <1>0, <1>5, MoveTypes DEF RunLocally, Pcs
  <2>2. Holds(thread[p]) /\ Ordered(p).path \in Paths /\ Ordered(p).run \in Nat
    BY <1>0, <1>5, HeldPath, SMT DEF RunLocally, Moves, Holds, Types
  <2>3. disk' \in [Paths -> Directories]
    BY <1>0, <1>5, <2>2, DiskTypes DEF RunLocally, Types
  <2> QED
    BY <1>0, <1>5, <2>1, <2>3 DEF RunLocally, Types, reserveVars, channelVars, frameVars
<1>6. CASE Conclude(p)
  <2>1. Holds(thread[p])
    BY <1>6 DEF Conclude, Holds
  <2>2. Again(thread[p].order.path) \in Paths /\ thread[p].order.run \in Nat
    BY <1>0, <2>1, HeldPath DEF Threads, Orders
  <2>3. disk' \in [Paths -> Directories]
    BY <1>0, <1>6, <2>2, DiskTypes, SMT DEF Conclude, Again, Types
  <2>4. /\ [thread[p] EXCEPT !.pc = "failed"] \in Threads /\ [thread[p] EXCEPT !.pc = "committed"] \in Threads
        /\ [thread[p] EXCEPT !.pc = "marking", !.second = TRUE] \in Threads
    BY <1>0 DEF Threads, Pcs
  <2>5. thread' \in [Requesters -> Threads]
    BY <1>0, <1>6, <2>4 DEF Conclude
  <2> QED
    BY <1>0, <1>6, <2>3, <2>5 DEF Conclude, Types, reserveVars, channelVars, frameVars
<1>7. CASE Retire(p)
  BY <1>0, <1>7 DEF Retire, Types, workspaceVars, channelVars, frameVars
<1>8. CASE Cancel(p)
  <2> DEFINE new == [Resting EXCEPT !.pc = "ask", !.step = "cancel", !.link = adopted,
                       !.order = IF Retains(p) THEN thread[p].order ELSE NoOrder]
  <2>1. new \in Threads
    BY <1>0, NothingTypes DEF Threads, Pcs, Types
  <2>2. thread' = thread \/ thread' = [thread EXCEPT !["cancel"] = new]
    BY <1>8 DEF Cancel
  <2> HIDE DEF new
  <2>3. thread' \in [Requesters -> Threads]
    BY <1>0, <2>1, <2>2
  <2> QED
    BY <1>0, <1>8, <2>3 DEF Cancel, Types, workspaceVars, channelVars, frameVars
<1> QED
  BY <1>1, <1>2, <1>3, <1>4, <1>5, <1>6, <1>7, <1>8 DEF Phase

\* The steps of a request keep the types.
LEMMA RequestTypes ==
  ASSUME RemoteInv, NEW r \in Requesters, Request(r)
  PROVE  Types'
<1>0. Types /\ thread[r] \in Threads /\ thread \in [Requesters -> Threads] /\ Connected
  BY DEF RemoteInv, ChannelInv, Channels, Types
<1>1. Refused(r) \in [Requesters -> Threads] /\ Back(r, "ran") \in [Requesters -> Threads]
  BY <1>0, BackTypes DEF Pcs
<1>2. Cancelled(r) \subseteq Phases
  BY <1>0 DEF Cancelled, Types
<1>3. Asking(r) => thread[r].link \in Links
  BY <1>0 DEF Connected
<1>4. CASE Ask(r)
  <2> DEFINE l == thread[r].link
  <2>1. l \in Links /\ counter[l] + 1 \in Nat
    BY <1>0, <1>3, <1>4, SMT DEF Ask, Asking, Types
  <2>2. [thread[r] EXCEPT !.pc = "send", !.id = next_request_id(l)] \in Threads
    BY <1>0, <2>1 DEF Threads, Pcs, next_request_id
  <2>3. thread' \in [Requesters -> Threads]
    BY <1>0, <1>1, <1>4, <2>2 DEF Ask
  <2>4. counter' \in [Links -> Nat] /\ ended' \subseteq Phases
    BY <1>0, <1>2, <1>4, <2>1 DEF Ask, Types
  <2> QED
    BY <1>0, <1>4, <2>3, <2>4 DEF Ask, Types, workspaceVars, frameVars
<1>5. CASE Send(r)
  <2> DEFINE l == thread[r].link
             f == Frame(thread[r].step, thread[r].id, SentOrder(r))
  <2>1. l \in Links /\ f \in Frames
    BY <1>0, <1>3, <1>5, SentType DEF Send, Moves, Asking, Frame, Frames, FrameTypes, Threads
  <2>2. toWorker' = [toWorker EXCEPT ![l] = Append(@, f)]
    BY <1>0, <1>5, SentType DEF Send, SentOrder, OrderSent
  <2> HIDE DEF f
  <2>3. toWorker' \in [Links -> Seq(Frames)]
    BY <1>0, <2>1, <2>2, AddLast DEF Types
  <2>4. pending' \in [Links -> SUBSET [id : Nat, who : Requesters]]
    BY <1>0, <1>5, <2>1, SMT DEF Send, Without, Types, Threads
  <2>5. thread' \in [Requesters -> Threads]
    BY <1>0, <1>5, MoveTypes DEF Send, Pcs
  <2> QED
    BY <1>0, <1>5, <2>3, <2>4, <2>5 DEF Send, Types, workspaceVars, reserveVars
<1>6. CASE SendFails(r)
  BY <1>0, <1>1, <1>2, <1>6 DEF SendFails, Types, workspaceVars, channelVars, frameVars
<1>7. CASE Return(r)
  <2>1. [thread[r] EXCEPT !.pc = "ask", !.step = "start", !.link = NextChannel(r)] \in Threads
    BY <1>0 DEF Threads, Pcs, NextChannel
  <2>2. thread' \in [Requesters -> Threads]
    BY <1>0, <1>1, <1>7, <2>1 DEF Return
  <2>3. reply' \in [Requesters -> Frames]
    BY <1>0, <1>7, NothingTypes DEF Return, Types
  <2> QED
    BY <1>0, <1>2, <1>7, <2>2, <2>3 DEF Return, Types, workspaceVars, channelVars, frameVars
<1> QED
  BY <1>4, <1>5, <1>6, <1>7 DEF Request

\* The steps of the pump keep the types.
LEMMA PumpTypes ==
  ASSUME RemoteInv, NEW l \in Links, Pump(l)
  PROVE  Types'
<1>0. Types /\ toCoordinator[l] \in Seq(Frames) /\ toWorker[l] \in Seq(Frames)
  BY DEF RemoteInv, ChannelInv, Channels, Types
<1>1. Frame("hello_ack", 0, NoOrder) \in Frames /\ Frame("broken", 0, NoOrder) \in Frames
  BY NothingTypes DEF Frame, Frames, FrameTypes
<1>2. CASE PumpHello(l)
  <2>1. toCoordinator' \in [Links -> Seq(Frames)]
    BY <1>0, <1>2, TakeFirst DEF PumpHello, Types
  <2> QED
    BY <1>0, <1>2, <2>1 DEF PumpHello, Types, workspaceVars, reserveVars
<1>3. CASE PumpAck(l)
  <2>1. toWorker' \in [Links -> Seq(Frames)]
    BY <1>0, <1>1, <1>3, AddLast DEF PumpAck, Types
  <2> QED
    BY <1>0, <1>3, <2>1 DEF PumpAck, Types, workspaceVars, reserveVars
<1>4. CASE PumpReply(l)
  <2>1. toCoordinator' \in [Links -> Seq(Frames)] /\ Head_(l) \in Frames
    BY <1>0, <1>4, TakeFirst DEF PumpReply, Types, Head_
  <2>2. reply' \in [Requesters -> Frames]
    BY <1>0, <1>4, <2>1 DEF PumpReply, Types
  <2>3. pending' \in [Links -> SUBSET [id : Nat, who : Requesters]]
    BY <1>0, <1>4 DEF PumpReply, Types, Without
  <2> QED
    BY <1>0, <1>4, <2>1, <2>2, <2>3 DEF PumpReply, Types, workspaceVars, reserveVars
<1>5. CASE PumpEnds(l)
  BY <1>0, <1>5 DEF PumpEnds, Types, workspaceVars, reserveVars, frameVars
<1>6. CASE PumpFails(l)
  <2>1. reply' \in [Requesters -> Frames]
    BY <1>0, <1>1, <1>6 DEF PumpFails, Types
  <2>2. pending' \in [Links -> SUBSET [id : Nat, who : Requesters]]
    BY <1>0, <1>6 DEF PumpFails, Types
  <2> QED
    BY <1>0, <1>6, <2>1, <2>2 DEF PumpFails, Types, workspaceVars, reserveVars, frameVars
<1> QED
  BY <1>2, <1>3, <1>4, <1>5, <1>6 DEF Pump

\* An answer is typed.
LEMMA AnswersTypes ==
  ASSUME Types, NEW l \in Links, NEW f \in Frames, NEW state \in Workers, Answers(l, f, state)
  PROVE  toCoordinator' \in [Links -> Seq(Frames)] /\ worker' \in [Links -> Workers]
<1>1. /\ toCoordinator \in [Links -> Seq(Frames)] /\ worker \in [Links -> Workers]
      /\ Append(toCoordinator[l], f) \in Seq(Frames)
  BY AddLast DEF Types
<1>2. [state EXCEPT !.at = "serving"] \in Workers /\ [Off EXCEPT !.at = "gone"] \in Workers
  BY NothingTypes DEF Workers
<1> QED
  BY <1>1, <1>2 DEF Answers

\* The steps of a worker keep the types.
LEMMA WorkerTypes ==
  ASSUME RemoteInv, NEW l \in Links, Serve(l) \/ Connect(l) \/ WorkerEnds(l)
  PROVE  Types'
<1>0. /\ Types /\ toCoordinator[l] \in Seq(Frames) /\ toWorker[l] \in Seq(Frames) /\ worker[l] \in Workers
      /\ worker \in [Links -> Workers] /\ DiskInv
  BY DEF RemoteInv, ChannelInv, Channels, Types
<1> DEFINE request == Head(toWorker[l])
<1>1. toWorker[l] # <<>> => request \in Frames /\ [toWorker EXCEPT ![l] = Tail(@)] \in [Links -> Seq(Frames)]
  BY <1>0, TakeFirst DEF Types
<1>2. toWorker[l] # <<>> => \A type \in FrameTypes : [request EXCEPT !.type = type] \in Frames
  BY <1>1 DEF Frames
<1>3. toWorker[l] # <<>> => request.order \in Orders /\ request.order.path \in Places /\ request.id \in Nat
  BY <1>1 DEF Frames, Orders
<1> HIDE DEF request
<1>4. CASE Connect(l)
  <2>1. [worker[l] EXCEPT !.at = "hello"] \in Workers /\ Frame("hello", 0, NoOrder) \in Frames
    BY <1>0, NothingTypes DEF Workers, Frame, Frames, FrameTypes
  <2>2. worker' \in [Links -> Workers]
    BY <1>0, <1>4, <2>1 DEF Connect
  <2>3. toCoordinator' \in [Links -> Seq(Frames)]
    BY <1>0, <1>4, <2>1, SMT DEF Connect, Types
  <2> QED
    BY <1>0, <1>4, <2>2, <2>3 DEF Connect, Types, workspaceVars, reserveVars
<1>5. CASE Handshake(l)
  <2>1. \A x : [worker[l] EXCEPT !.at = IF x THEN "serving" ELSE "hello"] \in Workers
    BY <1>0 DEF Workers
  <2>2. worker' \in [Links -> Workers]
    BY <1>0, <1>5, <2>1 DEF Handshake
  <2> QED
    BY <1>0, <1>1, <1>5, <2>2 DEF Handshake, Types, workspaceVars, reserveVars
<1>6. CASE ServePrepare(l)
  <2>1. [worker[l] EXCEPT !.opened = @ \cup {request.order.path}] \in Workers
    BY <1>0, <1>3, <1>6 DEF Workers, ServePrepare, Takes
  <2>2. /\ toWorker[l] # <<>> /\ toWorker' = [toWorker EXCEPT ![l] = Tail(@)]
        /\ \E type \in FrameTypes, state \in Workers : Answers(l, [request EXCEPT !.type = type], state)
    BY <1>0, <1>6, <2>1 DEF ServePrepare, Takes, FrameTypes, request
  <2>3. toCoordinator' \in [Links -> Seq(Frames)] /\ worker' \in [Links -> Workers]
    BY <1>0, <1>2, <2>2, AnswersTypes
  <2> QED
    BY <1>0, <1>1, <1>6, <2>2, <2>3 DEF ServePrepare, Types, workspaceVars, reserveVars
<1>7. CASE ServeStart(l)
  <2>1. /\ toWorker[l] # <<>> /\ toWorker' = [toWorker EXCEPT ![l] = Tail(@)]
        /\ \/ Answers(l, [request EXCEPT !.type = "error"], worker[l])
           \/ /\ worker' = [worker EXCEPT ![l].at = "running", ![l].id = request.id, ![l].order = request.order]
              /\ UNCHANGED toCoordinator
    BY <1>7 DEF ServeStart, Takes, request
  <2>2. [worker[l] EXCEPT !.at = "running", !.id = request.id, !.order = request.order] \in Workers
    BY <1>0, <1>3, <2>1 DEF Workers
  <2>3. [request EXCEPT !.type = "error"] \in Frames
    BY <1>2, <2>1 DEF FrameTypes
  <2>4. toCoordinator' \in [Links -> Seq(Frames)] /\ worker' \in [Links -> Workers]
    <3>1. CASE Answers(l, [request EXCEPT !.type = "error"], worker[l])
      BY <1>0, <2>3, <3>1, AnswersTypes
    <3>2. CASE ~Answers(l, [request EXCEPT !.type = "error"], worker[l])
      <4>1. /\ worker' = [worker EXCEPT ![l] = [worker[l] EXCEPT !.at = "running", !.id = request.id,
                                                              !.order = request.order]]
            /\ UNCHANGED toCoordinator
        BY <2>1, <3>2
      <4> QED
        BY <1>0, <2>2, <4>1 DEF Types
    <3> QED
      BY <3>1, <3>2
  <2> QED
    BY <1>0, <1>1, <1>7, <2>1, <2>4 DEF ServeStart, Types, workspaceVars, reserveVars
<1>8. CASE CompilerWrites(l)
  <2>1. [worker[l] EXCEPT !.at = "wrote"] \in Workers
    BY <1>0 DEF Workers
  <2>2. worker' \in [Links -> Workers]
    BY <1>0, <1>8, <2>1 DEF CompilerWrites
  <2>3. worker[l].order.path \in Paths /\ worker[l].order.run \in Nat
    <3>1. Bound(worker[l].order, disk, generation, runs, thread)
      BY <1>0, <1>8 DEF CompilerWrites, DiskInv, Busy
    <3> QED
      BY <1>0, <3>1 DEF Bound, Workers, Orders
  <2>4. disk' \in [Paths -> Directories]
    BY <1>0, <1>8, <2>3, DiskTypes DEF CompilerWrites
  <2> QED
    BY <1>0, <1>8, <2>2, <2>4 DEF CompilerWrites, Types, reserveVars, channelVars, frameVars
<1>9. CASE ServeReport(l)
  <2>1. [worker[l] EXCEPT !.id = 0, !.order = NoOrder] \in Workers /\ Frame("report", worker[l].id, worker[l].order) \in Frames
    BY <1>0, NothingTypes DEF Workers, Frame, Frames, FrameTypes
  <2>2. toCoordinator' \in [Links -> Seq(Frames)] /\ worker' \in [Links -> Workers]
    BY <1>0, <1>9, <2>1, AnswersTypes DEF ServeReport
  <2> QED
    BY <1>0, <1>9, <2>2 DEF ServeReport, Types, workspaceVars, reserveVars
<1>10. CASE ServeCancel(l)
  <2>1. /\ toWorker[l] # <<>> /\ toWorker' = [toWorker EXCEPT ![l] = Tail(@)]
        /\ Answers(l, [request EXCEPT !.type = "cancelled"], worker[l])
    BY <1>10 DEF ServeCancel, Takes, request
  <2>2. toCoordinator' \in [Links -> Seq(Frames)] /\ worker' \in [Links -> Workers]
    BY <1>0, <1>2, <2>1, AnswersTypes DEF FrameTypes
  <2> QED
    BY <1>0, <1>1, <1>10, <2>1, <2>2 DEF ServeCancel, Types, workspaceVars, reserveVars
<1>11. CASE WorkerEnds(l)
  <2>1. [Off EXCEPT !.at = "gone"] \in Workers
    BY NothingTypes DEF Workers
  <2> QED
    BY <1>0, <1>11, <2>1, SMT DEF WorkerEnds, Types, workspaceVars, reserveVars
<1> QED
  BY <1>4, <1>5, <1>6, <1>7, <1>8, <1>9, <1>10, <1>11 DEF Serve

\* A stop keeps the types.
LEMMA StopTypes ==
  ASSUME RemoteInv, NEW clean \in BOOLEAN, Stop(clean)
  PROVE  Types'
<1>0. Types /\ thread \in [Requesters -> Threads]
  BY DEF RemoteInv, ChannelInv, Channels, Types
<1>1. disk' \in [Paths -> Directories] /\ live' \subseteq Paths
  <2>1. CASE cleanup_all(InUse)
    BY <1>0, <2>1, CleanupTypes
  <2>2. CASE live' = {} /\ UNCHANGED disk
    BY <1>0, <2>2 DEF Types
  <2> QED
    BY <2>1, <2>2 DEF Stop
<1>2. generation' \in [Phases -> [now : Nat, saved : Nat]]
  <2>1. \A p \in Phases : [generation[p] EXCEPT !.now = generation[p].saved] \in [now : Nat, saved : Nat]
    <3>1. \A p \in Phases : generation[p] \in [now : Nat, saved : Nat]
      BY <1>0 DEF Types
    <3> QED
      BY <3>1
  <2> QED
    BY <2>1 DEF Stop
<1>3. \A p \in Phases : Restored(p) \in Threads
  <2> SUFFICES ASSUME NEW p \in Phases PROVE Restored(p) \in Threads
    OBVIOUS
  <2>1. thread[p] \in Threads
    BY <1>0 DEF Requesters
  <2>2. \A x \in {"idle", "failed"} : [Resting EXCEPT !.pc = x] \in Threads
    BY NothingTypes DEF Threads, Pcs
  <2> QED
    BY <2>1, <2>2 DEF Restored
<1>4. thread' \in [Requesters -> Threads]
  BY <1>3, NothingTypes DEF Stop
<1>5. reply' \in [Requesters -> Frames]
  BY NothingTypes DEF Stop
<1>6. /\ pump' \in [Links -> {"off", "receiving", "adopting", "closed", "ended"}]
      /\ pending' \in [Links -> SUBSET [id : Nat, who : Requesters]] /\ adopted' \in Links \cup {"none"}
  BY <1>0 DEF Stop, Types
<1> QED
  BY <1>0, <1>1, <1>2, <1>4, <1>5, <1>6 DEF Stop, Types, frameVars

\* Every step keeps the types.
LEMMA TypesStep ==
  ASSUME RemoteInv, [Next]_vars
  PROVE  Types'
<1>0. Types
  BY DEF RemoteInv, ChannelInv, Channels
<1>1. CASE UNCHANGED vars
  BY <1>0, <1>1 DEF Types, vars, workspaceVars, reserveVars, channelVars, frameVars
<1>2. CASE Cleanup
  BY <1>0, <1>2, CleanupTypes DEF Cleanup, Types, channelVars, frameVars
<1> QED
  BY <1>1, <1>2, PhaseTypes, RequestTypes, PumpTypes, WorkerTypes, StopTypes DEF Next
-----------------------------------------------------------------------------
(* What is on its way, as a queue, a frame that is served and a queue back. *)

\* The threads that are waited for keep what they asked for, and more may wait.
LEMMA ExchangeKept ==
  ASSUME NEW tw, NEW tc, NEW S, NEW P, NEW T, NEW P2, NEW T2, Exchange(tw, tc, S, P, T), P \subseteq P2,
         \A r \in Requesters : \A n : [id |-> n, who |-> r] \in P =>
           T2[r].order = T[r].order /\ T2[r].second = T[r].second /\ T2[r].step = T[r].step
  PROVE  Exchange(tw, tc, S, P2, T2)
<1>1. ASSUME NEW f, Awaited(P, T, f) PROVE Awaited(P2, T2, f)
  BY <1>1 DEF Awaited, OrderSent
<1> QED
  BY <1>1 DEF Exchange

\* A frame goes to the worker: it is new and waited for, or of the handshake.
LEMMA ExchangeSent ==
  ASSUME NEW tw \in Seq(Frames), NEW tc, NEW S, NEW P, NEW T, NEW f \in Frames, Exchange(tw, tc, S, P, T),
         Real(f) =>
           /\ Awaited(P, T, f)
           /\ \A i \in DOMAIN tw : Real(tw[i]) => tw[i].id # f.id
           /\ \A i \in DOMAIN tc : Real(tc[i]) => tc[i].id # f.id
           /\ \A g \in S : g.id # f.id
  PROVE  Exchange(Append(tw, f), tc, S, P, T)
<1> DEFINE new == Append(tw, f)
<1>1. \A i \in DOMAIN new : IF i = Len(tw) + 1 THEN new[i] = f ELSE i \in DOMAIN tw /\ new[i] = tw[i]
  BY AddLast, SMT
<1> HIDE DEF new
<1>2. \A i \in DOMAIN new : Real(new[i]) => Awaited(P, T, new[i])
  BY <1>1 DEF Exchange
<1>3. \A i, j \in DOMAIN new : i # j /\ Real(new[i]) /\ Real(new[j]) => new[i].id # new[j].id
  BY <1>1 DEF Exchange
<1>4. \A i \in DOMAIN new, j \in DOMAIN tc : Real(new[i]) /\ Real(tc[j]) => new[i].id # tc[j].id
  BY <1>1, SMT DEF Exchange
<1>5. \A g \in S : \A i \in DOMAIN new : Real(new[i]) => new[i].id # g.id
  BY <1>1 DEF Exchange
<1>6. Exchange(new, tc, S, P, T)
  BY <1>2, <1>3, <1>4, <1>5 DEF Exchange
<1> QED
  BY <1>6 DEF new

\* The worker takes a frame; what it takes is waited for and is nowhere else.
LEMMA ExchangeTaken ==
  ASSUME NEW tw \in Seq(Frames), NEW tc, NEW S, NEW P, NEW T, Exchange(tw, tc, S, P, T), tw # <<>>
  PROVE  /\ Exchange(Tail(tw), tc, S, P, T)
         /\ Real(Head(tw)) =>
              /\ Awaited(P, T, Head(tw))
              /\ \A i \in DOMAIN Tail(tw) : Real(Tail(tw)[i]) => Tail(tw)[i].id # Head(tw).id
              /\ \A i \in DOMAIN tc : Real(tc[i]) => tc[i].id # Head(tw).id
              /\ \A g \in S : g.id # Head(tw).id
<1> DEFINE rest == Tail(tw)
           f == Head(tw)
<1>1. /\ 1 \in DOMAIN tw /\ f = tw[1]
      /\ \A i \in DOMAIN rest : i + 1 \in DOMAIN tw /\ rest[i] = tw[i + 1] /\ i + 1 # 1
      /\ \A i \in DOMAIN rest : i \in Nat
  BY TakeFirst, SMT
<1> HIDE DEF rest, f
<1>2. \A i, j \in DOMAIN rest : i # j => i + 1 # j + 1
  BY <1>1, SMT
<1>3. Exchange(rest, tc, S, P, T)
  BY <1>1, <1>2, SMT DEF Exchange
<1>4. Real(f) =>
              /\ Awaited(P, T, f)
              /\ \A i \in DOMAIN rest : Real(rest[i]) => rest[i].id # f.id
              /\ \A i \in DOMAIN tc : Real(tc[i]) => tc[i].id # f.id
              /\ \A g \in S : g.id # f.id
  BY <1>1 DEF Exchange
<1> QED
  BY <1>3, <1>4 DEF rest, f

\* A frame comes back from the worker.
LEMMA ExchangeAnswered ==
  ASSUME NEW tw, NEW tc \in Seq(Frames), NEW S, NEW P, NEW T, NEW f \in Frames, Exchange(tw, tc, S, P, T),
         f.type # "hello_ack",
         Real(f) =>
           /\ Awaited(P, T, f)
           /\ \A i \in DOMAIN tw : Real(tw[i]) => tw[i].id # f.id
           /\ \A i \in DOMAIN tc : Real(tc[i]) => tc[i].id # f.id
           /\ \A g \in S : g.id # f.id
  PROVE  Exchange(tw, Append(tc, f), S, P, T)
<1> DEFINE new == Append(tc, f)
<1>1. \A i \in DOMAIN new : IF i = Len(tc) + 1 THEN new[i] = f ELSE i \in DOMAIN tc /\ new[i] = tc[i]
  BY AddLast, SMT
<1> HIDE DEF new
<1>2. \A i \in DOMAIN new : Real(new[i]) => Awaited(P, T, new[i])
  BY <1>1 DEF Exchange
<1>3. \A i, j \in DOMAIN new : i # j /\ Real(new[i]) /\ Real(new[j]) => new[i].id # new[j].id
  BY <1>1 DEF Exchange
<1>4. \A i \in DOMAIN tw, j \in DOMAIN new : Real(tw[i]) /\ Real(new[j]) => tw[i].id # new[j].id
  BY <1>1, SMT DEF Exchange
<1>5. \A g \in S : \A i \in DOMAIN new : Real(new[i]) => new[i].id # g.id
  BY <1>1 DEF Exchange
<1>6. \A i \in DOMAIN new : new[i].type # "hello_ack"
  BY <1>1 DEF Exchange
<1>7. Exchange(tw, new, S, P, T)
  BY <1>2, <1>3, <1>4, <1>5, <1>6 DEF Exchange
<1> QED
  BY <1>7 DEF new

\* The pump takes a frame: nothing else on its way is of the same request.
LEMMA ExchangeDelivered ==
  ASSUME NEW tw, NEW tc \in Seq(Frames), NEW S, NEW P, NEW T, Exchange(tw, tc, S, P, T), tc # <<>>
  PROVE  /\ ~Real(Head(tc)) => Exchange(tw, Tail(tc), S, P, T)
         /\ Real(Head(tc)) =>
              /\ Awaited(P, T, Head(tc))
              /\ Exchange(tw, Tail(tc), S, {w \in P : w.id # Head(tc).id}, T)
<1> DEFINE rest == Tail(tc)
           f == Head(tc)
           Q == {w \in P : w.id # f.id}
<1>1. /\ 1 \in DOMAIN tc /\ f = tc[1]
      /\ \A i \in DOMAIN rest : i + 1 \in DOMAIN tc /\ rest[i] = tc[i + 1] /\ i + 1 # 1
      /\ \A i \in DOMAIN rest : i \in Nat
  BY TakeFirst, SMT
<1> HIDE DEF rest, f
<1>2. \A i, j \in DOMAIN rest : i # j => i + 1 # j + 1
  BY <1>1, SMT
<1>3. Exchange(tw, rest, S, P, T)
  BY <1>1, <1>2, SMT DEF Exchange
<1>4. Real(f) => /\ Awaited(P, T, f)
                 /\ \A i \in DOMAIN tw : Real(tw[i]) => tw[i].id # f.id
                 /\ \A i \in DOMAIN rest : Real(rest[i]) => rest[i].id # f.id
                 /\ \A g \in S : g.id # f.id
  BY <1>1 DEF Exchange
<1>5. ASSUME NEW g, g.id # f.id, Awaited(P, T, g) PROVE Awaited(Q, T, g)
  BY <1>5 DEF Awaited
<1> HIDE DEF Q
<1>6. Real(f) => Exchange(tw, rest, S, Q, T)
  BY <1>3, <1>4, <1>5 DEF Exchange
<1> QED
  BY <1>3, <1>4, <1>6 DEF rest, f, Q

-----------------------------------------------------------------------------
(* The channel. *)

\* Nothing happens on the channels.
Silent == UNCHANGED <<thread, reply, channelVars, worker>>

\* The thread r is not, or no longer, among those that wait, and may begin to ask: for a workspace
\* or a cancellation on the adopted channel, or for the start on the one that has made it ready.
Leaves(r) ==
  /\ thread[r].pc = "waiting" => reply[r].type # "none"
  /\ thread'[r].pc \notin {"send", "waiting"}
  /\ \A q \in Requesters \ {r} : thread'[q] = thread[q] /\ reply'[q] = reply[q]
  /\ reply'[r].type = "none"
  /\ thread'[r].pc = "ask" =>
       \/ thread'[r].link = adopted /\ adopted # "none" /\ thread'[r].step # "start"
       \/ /\ thread[r].pc = "waiting" /\ reply[r].type = "ready"
          /\ thread'[r].link = thread[r].link /\ OrderSent(r, thread'[r]) = OrderSent(r, thread[r])
  /\ IF r \in Phases THEN thread'[r].step # "cancel"
     ELSE thread'[r].step \in {"none", "cancel"} /\ thread'[r].pc \in {"idle", "ask"}
  /\ UNCHANGED <<channelVars, worker>>

\* A phase leaves the channels alone, or takes its thread away from them, or that of a cancellation
\* to them.
LEMMA PhaseLeaves ==
  ASSUME RemoteInv, NEW p \in Phases, Phase(p)
  PROVE  Silent \/ Leaves(p) \/ Leaves("cancel")
<1>0. /\ Types /\ p \in Requesters /\ thread[p] \in Threads /\ thread \in [Requesters -> Threads]
      /\ "cancel" \in Requesters /\ "cancel" \notin Phases /\ Waiting /\ Connected
      /\ thread["cancel"] \in Threads
  BY RemoteAssumption DEF RemoteInv, ChannelInv, Channels, Types, Requesters
<1>1. \A r \in Requesters : thread[r].pc # "waiting" => reply[r].type = "none"
  BY <1>0 DEF Waiting
<1>2. thread[p].step # "cancel"
  BY <1>0 DEF Connected
<1>3. CASE Reserve(p)
  <2>1. thread'[p].pc = "marking" /\ thread'[p].step = "none" /\ thread[p].pc # "waiting"
        /\ \A q \in Requesters \ {p} : thread'[q] = thread[q]
    BY <1>0, <1>3 DEF Reserve, Resting
  <2> QED
    BY <1>0, <1>1, <1>3, <2>1 DEF Reserve, Leaves
<1>4. ASSUME NEW from, NEW to, from # "waiting", to \notin {"ask", "send", "waiting"}, Moves(p, from, to),
             UNCHANGED <<reply, channelVars, worker>>
      PROVE  Leaves(p)
  <2>1. thread'[p].pc = to /\ thread'[p].step = thread[p].step /\ thread[p].pc # "waiting"
        /\ \A q \in Requesters \ {p} : thread'[q] = thread[q]
    BY <1>0, <1>4 DEF Moves, Threads
  <2> QED
    BY <1>0, <1>1, <1>2, <1>4, <2>1 DEF Leaves
<1>5. CASE WriteMarker(p)
  BY <1>4, <1>5 DEF WriteMarker
<1>6. CASE MarkerFails(p)
  BY <1>4, <1>6 DEF MarkerFails
<1>7. CASE Persist(p) \/ PersistFails(p)
  BY <1>4, <1>7 DEF Persist, PersistFails
<1>8. CASE RunLocally(p)
  BY <1>4, <1>8 DEF RunLocally
<1>9. CASE Dispatch(p)
  <2>1. /\ thread'[p].pc = IF WorkerOpen THEN "ask" ELSE "local"
        /\ thread'[p].step = "prepare" /\ thread'[p].link = adopted /\ thread[p].pc # "waiting"
        /\ \A q \in Requesters \ {p} : thread'[q] = thread[q]
    BY <1>0, <1>9 DEF Dispatch, Threads
  <2> QED
    BY <1>0, <1>1, <1>9, <2>1, SMT DEF Leaves, Dispatch, WorkerOpen
<1>10. CASE Conclude(p)
  <2>1. /\ thread'[p].pc \in {"failed", "marking", "committed"} /\ thread[p].pc # "waiting"
        /\ thread'[p].step = thread[p].step /\ \A q \in Requesters \ {p} : thread'[q] = thread[q]
    BY <1>0, <1>10, SMT DEF Conclude, Threads
  <2> QED
    BY <1>0, <1>1, <1>2, <1>10, <2>1 DEF Leaves, Conclude
<1>11. CASE Retire(p)
  BY <1>11 DEF Retire, Silent
<1>12. CASE Cancel(p)
  <2>1. CASE thread' = thread
    BY <1>12, <2>1 DEF Cancel, Silent
  <2>2. CASE thread' # thread
    <3> DEFINE order == IF Retains(p) THEN thread[p].order ELSE NoOrder
               new == [Resting EXCEPT !.pc = "ask", !.step = "cancel", !.link = adopted, !.order = order]
    <3>1. thread' = [thread EXCEPT !["cancel"] = new] /\ WorkerOpen /\ Unlocked
      BY <1>12, <2>2 DEF Cancel
    <3>2. new.pc = "ask" /\ new.step = "cancel" /\ new.link = adopted
      BY DEF Resting
    <3> HIDE DEF new
    <3>3. /\ thread'["cancel"].pc = "ask" /\ thread'["cancel"].step = "cancel" /\ thread'["cancel"].link = adopted
          /\ \A q \in Requesters \ {"cancel"} : thread'[q] = thread[q]
      BY <1>0, <3>1, <3>2
    <3>4. thread["cancel"].pc # "waiting" /\ adopted # "none"
      BY <3>1 DEF Unlocked, WorkerOpen
    <3> QED
      BY <1>0, <1>1, <1>12, <3>3, <3>4 DEF Leaves, Cancel
  <2> QED
    BY <2>1, <2>2
<1> QED
  BY <1>3, <1>5, <1>6, <1>7, <1>8, <1>9, <1>10, <1>11, <1>12 DEF Phase

\* A request is asked or sent on an open channel, or its thread leaves.
LEMMA RequestLeaves ==
  ASSUME RemoteInv, NEW r \in Requesters, Request(r)
  PROVE  Leaves(r) \/ (Ask(r) /\ Open(thread[r].link)) \/ Send(r)
<1>0. /\ Types /\ thread[r] \in Threads /\ thread \in [Requesters -> Threads] /\ Waiting /\ Connected
      /\ "cancel" \notin Phases /\ (r \notin Phases => r = "cancel") /\ reply \in [Requesters -> Frames]
  BY RemoteAssumption DEF RemoteInv, ChannelInv, Channels, Types, Requesters
<1>1. \A q \in Requesters : thread[q].pc # "waiting" => reply[q].type = "none"
  BY <1>0 DEF Waiting
<1>2. ASSUME NEW new, new = Refused(r) \/ (new = Back(r, "ran") /\ r \in Phases)
      PROVE  /\ new[r].pc \in {"failed", "idle", "ran"} /\ new[r].step = "none"
             /\ r \notin Phases => new[r].pc = "idle"
             /\ \A q \in Requesters \ {r} : new[q] = thread[q]
  <2>1. CASE r \in Phases
    <3>1. \E pc \in {"failed", "ran"} : new = Back(r, pc)
      BY <1>2, <2>1 DEF Refused
    <3>2. PICK pc \in {"failed", "ran"} :
            new = [thread EXCEPT ![r] = [thread[r] EXCEPT !.pc = pc, !.step = "none", !.link = "none", !.id = 0]]
      BY <3>1 DEF Back
    <3> QED
      BY <1>0, <2>1, <3>2 DEF Threads
  <2>2. CASE r \notin Phases
    BY <1>0, <1>2, <2>2, SMT DEF Refused, Resting
  <2> QED
    BY <2>1, <2>2
<1>3. CASE Ask(r)
  <2>1. SUFFICES ASSUME ~Open(thread[r].link) PROVE Leaves(r)
    BY <1>3
  <2>2. thread' = Refused(r) /\ thread[r].pc = "ask" /\ UNCHANGED <<reply, channelVars, worker>>
    BY <1>3, <2>1 DEF Ask, channelVars
  <2> QED
    BY <1>0, <1>1, <1>2, <2>2 DEF Leaves
<1>4. CASE SendFails(r)
  <2>2. thread' = Refused(r) /\ thread[r].pc = "send" /\ UNCHANGED <<reply, channelVars, worker>>
    BY <1>4 DEF SendFails
  <2> QED
    BY <1>0, <1>1, <1>2, <2>2 DEF Leaves
<1>5. CASE Return(r)
  <2>1. /\ thread[r].pc = "waiting" /\ reply[r].type # "none" /\ UNCHANGED <<channelVars, worker>>
        /\ reply' = [reply EXCEPT ![r] = NoReply]
    BY <1>5 DEF Return
  <2>2. reply'[r].type = "none" /\ \A q \in Requesters \ {r} : reply'[q] = reply[q]
    BY <1>0, <2>1 DEF NoReply, Frame
  <2>3. CASE reply[r].type = "ready"
    <3>1. thread[r].step = "prepare"
      BY <1>0, <2>3 DEF Waiting
    <3>2. r \in Phases
      BY <1>0, <3>1 DEF Connected
    <3>3. /\ thread'[r].pc = "ask" /\ thread'[r].step = "start" /\ thread'[r].link = thread[r].link
          /\ thread'[r].order = thread[r].order /\ thread'[r].second = thread[r].second
          /\ \A q \in Requesters \ {r} : thread'[q] = thread[q]
      BY <1>0, <1>5, <2>3 DEF Return, NextChannel, Threads
    <3>4. OrderSent(r, thread'[r]) = OrderSent(r, thread[r])
      BY <3>3 DEF OrderSent
    <3> QED
      BY <2>1, <2>2, <2>3, <3>2, <3>3, <3>4 DEF Leaves
  <2>4. CASE reply[r].type # "ready"
    <3>1. thread' = Refused(r) \/ (thread' = Back(r, "ran") /\ reply[r].type = "report")
      BY <1>5, <2>4, Zenon DEF Return
    <3>2. reply[r].type = "report" => r \in Phases
      BY <1>0 DEF Waiting, Connected
    <3>3. thread' = Refused(r) \/ (thread' = Back(r, "ran") /\ r \in Phases)
      BY <3>1, <3>2
    <3>4. /\ thread'[r].pc \in {"failed", "idle", "ran"} /\ thread'[r].step = "none"
          /\ r \notin Phases => thread'[r].pc = "idle"
          /\ \A q \in Requesters \ {r} : thread'[q] = thread[q]
      BY <1>2, <3>3
    <3> QED
      BY <2>1, <2>2, <3>4 DEF Leaves
  <2> QED
    BY <2>3, <2>4
<1> QED
  BY <1>3, <1>4, <1>5 DEF Request

\* A thread that leaves disturbs nobody who waits.
LEMMA LeavesKeeps ==
  ASSUME RemoteInv, NEW r \in Requesters, Leaves(r)
  PROVE  Channels'
<1>0. Types /\ Connected /\ Distinct /\ Waiting /\ Exchanges /\ AllVerified /\ "cancel" \in Requesters
      /\ "cancel" \notin Phases /\ (r \notin Phases => r = "cancel")
  BY RemoteAssumption DEF RemoteInv, ChannelInv, Channels, Requesters
<1>1. /\ UNCHANGED <<adopted, pump, pending, counter, toWorker, toCoordinator, worker>>
      /\ \A q \in Requesters \ {r} : thread'[q] = thread[q] /\ reply'[q] = reply[q]
      /\ thread'[r].pc \notin {"send", "waiting"} /\ reply'[r].type = "none"
  BY DEF Leaves, channelVars, frameVars
<1>2. \A l \in Links : \A w \in pending[l] : w.who \in Requesters \ {r}
  BY <1>0, SMT DEF Waiting, Leaves, Types
<1>3. Connected'
  <2>1. \A q \in Requesters : Asking(q)' => thread'[q].link \in Links /\ pump'[thread'[q].link] # "off"
    <3> SUFFICES ASSUME NEW q \in Requesters, Asking(q)'
                 PROVE  thread'[q].link \in Links /\ pump'[thread'[q].link] # "off"
      OBVIOUS
    <3>1. CASE q # r
      BY <1>0, <1>1, <3>1 DEF Connected, Asking
    <3>2. CASE q = r
      <4>1. thread'[r].pc = "ask"
        BY <1>1, <3>2 DEF Asking
      <4>2. CASE thread'[r].link = adopted /\ adopted # "none"
        BY <1>0, <1>1, <3>2, <4>2 DEF Connected, Types
      <4>3. CASE thread[r].pc = "waiting" /\ thread'[r].link = thread[r].link
        BY <1>0, <1>1, <3>2, <4>3, SMT DEF Connected, Asking
      <4> QED
        BY <4>1, <4>2, <4>3 DEF Leaves
    <3> QED
      BY <3>1, <3>2
  <2>2. /\ \A p \in Phases : thread'[p].step # "cancel"
        /\ thread'["cancel"].step \in {"none", "cancel"}
        /\ thread'["cancel"].pc \in {"idle", "ask", "send", "waiting"}
    BY <1>0, <1>1, SMT DEF Connected, Leaves, Requesters
  <2> QED
    BY <1>0, <1>1, <2>1, <2>2 DEF Connected
<1>4. Distinct'
  <2>1. \A q \in Requesters : thread'[q].pc \in {"send", "waiting"} => q # r /\ thread'[q] = thread[q]
    BY <1>1
  <2> QED
    BY <1>0, <1>1, <2>1, SMT DEF Distinct
<1>5. Waiting'
  <2>1. \A l \in Links : \A w \in pending'[l] :
       /\ thread'[w.who].pc = "waiting" /\ thread'[w.who].link = l /\ thread'[w.who].id = w.id
       /\ reply'[w.who].type = "none"
    BY <1>0, <1>1, <1>2, SMT DEF Waiting
  <2>2. \A q \in Requesters : reply'[q].type # "none" => q # r /\ thread'[q] = thread[q] /\ reply'[q] = reply[q]
    BY <1>1
  <2>3. \A q \in Requesters : thread'[q].pc # "waiting" => reply'[q].type = "none"
    BY <1>0, <2>2, SMT DEF Waiting
  <2>4. \A q \in Requesters : reply'[q].type \notin {"none", "broken"} => reply'[q].order = OrderSent(q, thread'[q])
    BY <1>0, <2>2, SMT DEF Waiting, SentOrder
  <2>5. \A q \in Requesters : /\ reply'[q].type = "ready" => thread'[q].step = "prepare"
                              /\ reply'[q].type = "report" => thread'[q].step = "start"
    BY <1>0, <2>2, SMT DEF Waiting
  <2> QED
    BY <2>1, <2>3, <2>4, <2>5 DEF Waiting, SentOrder
<1>6. Exchanges'
  <2>1. ASSUME NEW l \in Links, Open(l)
        PROVE  Exchange(toWorker[l], toCoordinator[l], Served(worker[l]), pending[l], thread')
    <3>1. \A q \in Requesters : \A n : [id |-> n, who |-> q] \in pending[l] => thread'[q] = thread[q]
      BY <1>1, <1>2
    <3>2. Exchange(toWorker[l], toCoordinator[l], Served(worker[l]), pending[l], thread)
      BY <1>0, <2>1 DEF Exchanges
    <3> QED
      BY <3>1, <3>2, ExchangeKept
  <2> QED
    BY <1>1, <2>1 DEF Exchanges, Open
<1>7. AllVerified'
  <2>1. ASSUME NEW l \in Links, Serving(l)
        PROVE  Verified(l, toWorker[l], toCoordinator[l], worker[l], reply', thread')
    <3>1. Verified(l, toWorker[l], toCoordinator[l], worker[l], reply, thread)
      BY <1>0, <2>1 DEF AllVerified
    <3>2. \A q \in Requesters : reply'[q].type = "ready" /\ thread'[q].link = l
                                  => OrderSent(q, thread'[q]).path \in worker[l].opened
      BY <1>1, <3>1 DEF Verified
    <3>3. ASSUME NEW q \in Requesters, thread'[q].pc \in {"ask", "send", "waiting"}, thread'[q].step = "start",
                 thread'[q].link = l
          PROVE  OrderSent(q, thread'[q]).path \in worker[l].opened
      <4>1. CASE q # r
        BY <1>1, <3>1, <3>3, <4>1 DEF Verified
      <4>2. CASE q = r
        <5>1. /\ reply[r].type = "ready" /\ thread'[r].link = thread[r].link
              /\ OrderSent(r, thread'[r]) = OrderSent(r, thread[r])
          BY <1>1, <3>3, <4>2 DEF Leaves
        <5> QED
          BY <3>1, <3>3, <4>2, <5>1 DEF Verified
      <4> QED
        BY <4>1, <4>2
    <3> QED
      BY <3>1, <3>2, <3>3 DEF Verified
  <2> QED
    BY <1>1, <2>1 DEF AllVerified, Serving
<1> QED
  BY <1>3, <1>4, <1>5, <1>6, <1>7 DEF Channels

\* A step elsewhere changes nothing on the channels.
LEMMA SilentKeeps ==
  ASSUME RemoteInv, Silent
  PROVE  Channels'
<1>1. UNCHANGED <<thread, reply, adopted, pump, pending, counter, toWorker, toCoordinator, worker>>
  BY DEF Silent, channelVars, frameVars
<1> QED
  BY <1>1, SMT DEF RemoteInv, ChannelInv, Channels, Connected, Distinct, Waiting, Exchanges, AllVerified, Asking,
    SentOrder, Open, Serving

\* A request that is asked has an identity of its own.
LEMMA AskKeeps ==
  ASSUME RemoteInv, NEW r \in Requesters, Ask(r), Open(thread[r].link)
  PROVE  Channels'
<1> DEFINE l == thread[r].link
<1>0. /\ Types /\ Connected /\ Distinct /\ Waiting /\ Exchanges /\ AllVerified
      /\ thread \in [Requesters -> Threads] /\ thread[r] \in Threads /\ counter \in [Links -> Nat]
      /\ "cancel" \in Requesters /\ (r \notin Phases => r = "cancel")
  BY DEF RemoteInv, ChannelInv, Channels, Requesters, Types
<1>1. thread[r].pc = "ask" /\ l \in Links /\ pump[l] # "off" /\ reply[r].type = "none"
  BY <1>0 DEF Ask, Asking, Connected, Waiting
<1>2. /\ UNCHANGED <<reply, adopted, pump, pending, toWorker, toCoordinator, worker>>
      /\ counter' = [counter EXCEPT ![l] = @ + 1]
      /\ thread' = [thread EXCEPT ![r] = [@ EXCEPT !.pc = "send", !.id = counter[l] + 1]]
  BY DEF Ask, frameVars, next_request_id
<1>3. /\ \A q \in Requesters \ {r} : thread'[q] = thread[q]
      /\ thread'[r].pc = "send" /\ thread'[r].id = counter[l] + 1 /\ thread'[r].link = l
      /\ thread'[r].order = thread[r].order /\ thread'[r].second = thread[r].second
      /\ thread'[r].step = thread[r].step
  BY <1>0, <1>2 DEF Threads
<1>4. \A q \in Requesters : OrderSent(q, thread'[q]) = OrderSent(q, thread[q])
  BY <1>3 DEF OrderSent
<1>5. \A k \in Links : counter'[k] \in Nat /\ counter'[k] >= counter[k] /\ counter'[l] = counter[l] + 1
  BY <1>0, <1>1, <1>2, SMT
<1> HIDE DEF l
<1>6. Connected'
  <2>1. \A q \in Requesters : Asking(q)' => thread'[q].link \in Links /\ pump'[thread'[q].link] # "off"
    BY <1>0, <1>1, <1>2, <1>3 DEF Connected, Asking
  <2>2. /\ \A p \in Phases : thread'[p].step # "cancel"
        /\ thread'["cancel"].step \in {"none", "cancel"}
        /\ thread'["cancel"].pc \in {"idle", "ask", "send", "waiting"}
    BY <1>0, <1>3, SMT DEF Connected, Requesters
  <2> QED
    BY <1>0, <1>2, <2>1, <2>2 DEF Connected
<1>7. Distinct'
  <2>1. ASSUME NEW q \in Requesters, thread'[q].pc \in {"send", "waiting"}
        PROVE  /\ thread'[q].id \in 1..counter'[thread'[q].link]
               /\ q # r /\ thread'[q].link = l => thread'[q].id <= counter[l]
    <3>1. CASE q = r
      BY <1>0, <1>1, <1>3, <1>5, <3>1, SMT
    <3>2. CASE q # r
      <4>1. thread'[q] = thread[q] /\ thread[q].link \in Links /\ thread[q].id \in 1..counter[thread[q].link]
        BY <1>0, <1>3, <2>1, <3>2 DEF Distinct, Connected, Asking
      <4> QED
        BY <1>0, <1>5, <3>2, <4>1, SMT
    <3> QED
      BY <3>1, <3>2
  <2>2. ASSUME NEW q \in Requesters, q # r, thread'[q].pc \in {"send", "waiting"}, thread'[q].link = l
        PROVE  thread'[q].id # thread'[r].id
    BY <1>0, <1>1, <1>3, <2>1, <2>2, SMT
  <2> QED
    BY <1>0, <1>3, <2>1, <2>2, SMT DEF Distinct
<1>8. Waiting'
  <2>1. \A k \in Links : \A w \in pending[k] : w.who \in Requesters \ {r}
    BY <1>0, <1>1, SMT DEF Waiting, Types
  <2>2. \A k \in Links : \A w \in pending'[k] :
       /\ thread'[w.who].pc = "waiting" /\ thread'[w.who].link = k /\ thread'[w.who].id = w.id
       /\ reply'[w.who].type = "none"
    BY <1>0, <1>2, <1>3, <2>1, SMT DEF Waiting
  <2>3. \A q \in Requesters : thread'[q].pc # "waiting" => reply'[q].type = "none"
    BY <1>0, <1>1, <1>2, <1>3 DEF Waiting
  <2>4. \A q \in Requesters : reply'[q].type \notin {"none", "broken"} => reply'[q].order = OrderSent(q, thread'[q])
    BY <1>0, <1>2, <1>4 DEF Waiting, SentOrder
  <2>5. \A q \in Requesters : /\ reply'[q].type = "ready" => thread'[q].step = "prepare"
                              /\ reply'[q].type = "report" => thread'[q].step = "start"
    BY <1>0, <1>2, <1>3, SMT DEF Waiting
  <2> QED
    BY <2>2, <2>3, <2>4, <2>5 DEF Waiting, SentOrder
<1>9. Exchanges'
  <2>1. ASSUME NEW k \in Links, Open(k)
        PROVE  Exchange(toWorker[k], toCoordinator[k], Served(worker[k]), pending[k], thread')
    <3>1. \A q \in Requesters : thread'[q].order = thread[q].order /\ thread'[q].second = thread[q].second
                                  /\ thread'[q].step = thread[q].step
      BY <1>3
    <3>2. Exchange(toWorker[k], toCoordinator[k], Served(worker[k]), pending[k], thread)
      BY <1>0, <2>1 DEF Exchanges
    <3> QED
      BY <3>1, <3>2, ExchangeKept, SMT
  <2> QED
    BY <1>2, <2>1 DEF Exchanges, Open
<1>10. AllVerified'
  <2>1. ASSUME NEW k \in Links, Serving(k)
        PROVE  Verified(k, toWorker[k], toCoordinator[k], worker[k], reply, thread')
    <3>1. Verified(k, toWorker[k], toCoordinator[k], worker[k], reply, thread)
      BY <1>0, <2>1 DEF AllVerified
    <3>2. \A q \in Requesters : thread'[q].link = thread[q].link /\ thread'[q].step = thread[q].step
            /\ (thread'[q].pc \in {"ask", "send", "waiting"} => thread[q].pc \in {"ask", "send", "waiting"})
      BY <1>1, <1>3 DEF l
    <3> QED
      BY <1>4, <3>1, <3>2 DEF Verified
  <2> QED
    BY <1>2, <2>1 DEF AllVerified, Serving
<1> QED
  BY <1>6, <1>7, <1>8, <1>9, <1>10 DEF Channels

\* A request that is sent waits, and is on its way once.
LEMMA SendKeeps ==
  ASSUME RemoteInv, NEW r \in Requesters, Send(r)
  PROVE  Channels'
<1> DEFINE l == thread[r].link
           n == thread[r].id
           f == Frame(thread[r].step, n, OrderSent(r, thread[r]))
           w == [id |-> n, who |-> r]
<1>0. /\ Types /\ Connected /\ Distinct /\ Waiting /\ Exchanges /\ AllVerified
      /\ thread \in [Requesters -> Threads] /\ thread[r] \in Threads
      /\ "cancel" \in Requesters /\ (r \notin Phases => r = "cancel")
  BY DEF RemoteInv, ChannelInv, Channels, Requesters, Types
<1>1. /\ thread[r].pc = "send" /\ l \in Links /\ pump[l] # "off" /\ reply[r].type = "none" /\ Open(l)
      /\ UNCHANGED <<reply, adopted, pump, counter, toCoordinator, worker>>
  BY <1>0 DEF Send, Moves, Asking, Connected, Waiting, Sendable
<1>2. /\ \A q \in Requesters \ {r} : thread'[q] = thread[q]
      /\ thread'[r].pc = "waiting" /\ thread'[r].id = n /\ thread'[r].link = l
      /\ thread'[r].order = thread[r].order /\ thread'[r].second = thread[r].second
      /\ thread'[r].step = thread[r].step
  BY <1>0 DEF Send, Moves, Threads
<1>3. \A q \in Requesters : OrderSent(q, thread'[q]) = OrderSent(q, thread[q])
  BY <1>2 DEF OrderSent
<1>4. \A k \in Links : \A v \in pending[k] : v.who \in Requesters \ {r} /\ (k = l => v.id # n)
  BY <1>0, <1>1, SMT DEF Waiting, Types, Distinct
<1>5. pending' = [pending EXCEPT ![l] = pending[l] \cup {w}]
  <2>1. Without(l, n) = pending[l]
    BY <1>1, <1>4 DEF Without
  <2> QED
    BY <2>1 DEF Send
<1>6. f \in Frames /\ toWorker' = [toWorker EXCEPT ![l] = Append(@, f)]
  BY <1>0, SentType DEF Send, SentOrder, OrderSent, Frame, Frames, FrameTypes, Threads
<1>7. \A k \in Links : pending'[k] = (IF k = l THEN pending[k] \cup {w} ELSE pending[k])
                    /\ toWorker'[k] = (IF k = l THEN Append(toWorker[k], f) ELSE toWorker[k])
  BY <1>0, <1>1, <1>5, <1>6 DEF Types
<1>8. /\ f.id = n /\ f.order = OrderSent(r, thread[r]) /\ f.type = thread[r].step
      /\ f.type \in {"none", "prepare", "start", "cancel"}
  BY <1>0 DEF Frame, Threads
<1>9. w.id = n /\ w.who = r
  OBVIOUS
<1> HIDE DEF f, l, n, w
<1>10. Connected'
  <2>1. \A q \in Requesters : Asking(q)' => thread'[q].link \in Links /\ pump'[thread'[q].link] # "off"
    BY <1>0, <1>1, <1>2, SMT DEF Connected, Asking
  <2>2. /\ \A p \in Phases : thread'[p].step # "cancel"
        /\ thread'["cancel"].step \in {"none", "cancel"}
        /\ thread'["cancel"].pc \in {"idle", "ask", "send", "waiting"}
    BY <1>0, <1>2, SMT DEF Connected, Requesters
  <2>3. adopted' # "none" => pump'[adopted'] # "off"
    BY <1>0, <1>1 DEF Connected
  <2>4. \A k \in Links :
          /\ worker'[k].at = "off" <=> pump'[k] = "off"
          /\ pump'[k] = "off" =>
               toWorker'[k] = <<>> /\ toCoordinator'[k] = <<>> /\ pending'[k] = {} /\ worker'[k] = Off
    BY <1>0, <1>1, <1>7 DEF Connected
  <2> QED
    BY <2>1, <2>2, <2>3, <2>4 DEF Connected
<1>11. Distinct'
  <2>1. \A q \in Requesters : /\ thread'[q].id = thread[q].id /\ thread'[q].link = thread[q].link
                              /\ thread'[q].pc \in {"send", "waiting"} => thread[q].pc \in {"send", "waiting"}
    BY <1>1, <1>2 DEF l, n
  <2> QED
    BY <1>0, <1>1, <2>1, SMT DEF Distinct
<1>12. Waiting'
  <2>1. ASSUME NEW k \in Links, NEW v \in pending'[k]
        PROVE  /\ thread'[v.who].pc = "waiting" /\ thread'[v.who].link = k /\ thread'[v.who].id = v.id
               /\ reply'[v.who].type = "none"
    <3>1. CASE v \in pending[k]
      BY <1>0, <1>1, <1>2, <1>4, <3>1, SMT DEF Waiting
    <3>2. CASE v \notin pending[k]
      <4>1. k = l /\ v = w
        BY <1>7, <2>1, <3>2
      <4> QED
        BY <1>1, <1>2, <1>9, <4>1
    <3> QED
      BY <3>1, <3>2
  <2>2. \A q \in Requesters : thread'[q].pc # "waiting" => reply'[q].type = "none"
    BY <1>0, <1>1, <1>2, SMT DEF Waiting
  <2>3. \A q \in Requesters : reply'[q].type \notin {"none", "broken"} => reply'[q].order = OrderSent(q, thread'[q])
    BY <1>0, <1>1, <1>3, SMT DEF Waiting, SentOrder
  <2>4. \A q \in Requesters : /\ reply'[q].type = "ready" => thread'[q].step = "prepare"
                              /\ reply'[q].type = "report" => thread'[q].step = "start"
    BY <1>0, <1>1, <1>2, SMT DEF Waiting
  <2> QED
    BY <2>1, <2>2, <2>3, <2>4 DEF Waiting, SentOrder
<1>13. Exchanges'
  <2>1. ASSUME NEW k \in Links, Open(k)
        PROVE  Exchange(toWorker'[k], toCoordinator[k], Served(worker[k]), pending'[k], thread')
    <3> DEFINE tw == toWorker[k]
               tc == toCoordinator[k]
               S == Served(worker[k])
    <3>1. \A q \in Requesters : thread'[q].order = thread[q].order /\ thread'[q].second = thread[q].second
                                  /\ thread'[q].step = thread[q].step
      BY <1>2
    <3>2. Exchange(tw, tc, S, pending[k], thread)
      BY <1>0, <2>1 DEF Exchanges
    <3>3. Exchange(tw, tc, S, pending'[k], thread')
      <4>1. pending[k] \subseteq pending'[k]
        BY <1>7
      <4> QED
        BY <3>1, <3>2, <4>1, ExchangeKept, SMT
    <3>4. CASE k # l
      BY <1>7, <3>3, <3>4
    <3>5. CASE k = l
      <4>1. ASSUME NEW g, Awaited(pending[l], thread, g) PROVE g.id # n
        <5>1. PICK q \in Requesters : [id |-> g.id, who |-> q] \in pending[l]
          BY <4>1 DEF Awaited
        <5> QED
          BY <1>1, <1>4, <5>1
      <4>2. /\ \A i \in DOMAIN tw : Real(tw[i]) => tw[i].id # n
            /\ \A i \in DOMAIN tc : Real(tc[i]) => tc[i].id # n
            /\ \A g \in S : g.id # n
        BY <3>2, <3>5, <4>1 DEF Exchange
      <4>3. Awaited(pending'[l], thread', f)
        <5>1. [id |-> f.id, who |-> r] \in pending'[l]
          BY <1>1, <1>7, <1>8 DEF w
        <5> QED
          BY <1>2, <1>3, <1>8, <5>1 DEF Awaited
      <4>4. tw \in Seq(Frames)
        BY <1>0 DEF Types
      <4>5. Exchange(Append(tw, f), tc, S, pending'[l], thread')
        BY <1>6, <1>8, <3>3, <3>5, <4>2, <4>3, <4>4, ExchangeSent
      <4> QED
        BY <1>7, <3>5, <4>5
    <3> QED
      BY <3>4, <3>5
  <2> QED
    BY <1>1, <2>1 DEF Exchanges, Open
<1>14. AllVerified'
  <2>1. ASSUME NEW k \in Links, Serving(k)
        PROVE  Verified(k, toWorker'[k], toCoordinator[k], worker[k], reply, thread')
    <3>1. Verified(k, toWorker[k], toCoordinator[k], worker[k], reply, thread)
      BY <1>0, <2>1 DEF AllVerified
    <3>2. \A q \in Requesters : thread'[q].link = thread[q].link /\ thread'[q].step = thread[q].step
            /\ (thread'[q].pc \in {"ask", "send", "waiting"} => thread[q].pc \in {"ask", "send", "waiting"})
      BY <1>1, <1>2 DEF l
    <3>3. Verified(k, toWorker[k], toCoordinator[k], worker[k], reply, thread')
      BY <1>3, <3>1, <3>2 DEF Verified
    <3>4. \A i \in DOMAIN toWorker'[k] :
            toWorker'[k][i].type = "start" => toWorker'[k][i].order.path \in worker[k].opened
      <4>1. CASE k # l
        BY <1>7, <3>3, <4>1 DEF Verified
      <4>2. CASE k = l
        <5>1. f.type = "start" => f.order.path \in worker[k].opened
          BY <1>1, <1>8, <3>1, <4>2 DEF Verified, l
        <5>2. toWorker[k] \in Seq(Frames) /\ toWorker'[k] = Append(toWorker[k], f)
          BY <1>0, <1>7, <4>2 DEF Types
        <5>3. \A i \in DOMAIN toWorker'[k] :
                toWorker'[k][i] = f \/ (i \in DOMAIN toWorker[k] /\ toWorker'[k][i] = toWorker[k][i])
          BY <1>6, <5>2, AddLast, SMT
        <5> QED
          BY <3>3, <5>1, <5>3 DEF Verified
      <4> QED
        BY <4>1, <4>2
    <3> QED
      BY <3>3, <3>4 DEF Verified
  <2> QED
    BY <1>1, <2>1 DEF AllVerified, Serving
<1> QED
  BY <1>10, <1>11, <1>12, <1>13, <1>14 DEF Channels

\* The waiting request of an identity is one.
LEMMA OneWaiter ==
  ASSUME RemoteInv, NEW l \in Links, NEW f, Awaited(pending[l], thread, f),
         NEW r \in Requesters, [id |-> f.id, who |-> r] \in pending[l]
  PROVE  /\ f.order = OrderSent(r, thread[r])
         /\ f.type = "ready" => thread[r].step = "prepare"
         /\ f.type = "report" => thread[r].step = "start"
<1>1. PICK q \in Requesters :
        /\ [id |-> f.id, who |-> q] \in pending[l]
        /\ f.order = OrderSent(q, thread[q])
        /\ f.type \in {"prepare", "ready"} => thread[q].step = "prepare"
        /\ f.type \in {"start", "report"} => thread[q].step = "start"
  BY DEF Awaited
<1>2. \A x \in {q, r} : thread[x].pc = "waiting" /\ thread[x].link = l /\ thread[x].id = f.id
  <2>1. \A v \in pending[l] : thread[v.who].pc = "waiting" /\ thread[v.who].link = l /\ thread[v.who].id = v.id
    BY DEF RemoteInv, ChannelInv, Channels, Waiting
  <2> QED
    BY <1>1, <2>1, SMT
<1>3. q = r
  BY <1>2 DEF RemoteInv, ChannelInv, Channels, Distinct
<1> QED
  BY <1>1, <1>3

\* The steps of the pump keep the channels in order: a reply is given to who waits for it.
LEMMA PumpKeeps ==
  ASSUME RemoteInv, NEW l \in Links, Pump(l)
  PROVE  Channels'
<1>0. /\ Types /\ Connected /\ Distinct /\ Waiting /\ Exchanges /\ AllVerified
      /\ toCoordinator[l] \in Seq(Frames) /\ toWorker[l] \in Seq(Frames)
  BY DEF RemoteInv, ChannelInv, Channels, Types
<1>1. Open(l) => Exchange(toWorker[l], toCoordinator[l], Served(worker[l]), pending[l], thread)
  BY <1>0 DEF Exchanges
<1>2. toCoordinator[l] # <<>> =>
        /\ 1 \in DOMAIN toCoordinator[l] /\ Head_(l) = toCoordinator[l][1] /\ Head_(l) \in Frames
        /\ \A i \in DOMAIN Tail(toCoordinator[l]) :
             \E j \in DOMAIN toCoordinator[l] : Tail(toCoordinator[l])[i] = toCoordinator[l][j]
  BY <1>0, TakeFirst DEF Head_
<1>3. CASE PumpHello(l)
  <2>1. /\ UNCHANGED <<thread, reply, pending, counter, toWorker, worker>>
        /\ pump[l] = "receiving" /\ pump' = [pump EXCEPT ![l] = "adopting"] /\ adopted' = l
        /\ toCoordinator[l] # <<>> /\ Head_(l).type = "hello"
        /\ toCoordinator' = [toCoordinator EXCEPT ![l] = Tail(@)]
    BY <1>3 DEF PumpHello
  <2>2. \A k \in Links : /\ k # l => pump'[k] = pump[k] /\ toCoordinator'[k] = toCoordinator[k]
                         /\ pump'[l] = "adopting" /\ toCoordinator'[l] = Tail(toCoordinator[l])
    BY <1>0, <2>1 DEF Types
  <2>3. Connected' /\ Distinct' /\ Waiting'
    <3>1. Connected'
      BY <1>0, <2>1, <2>2, SMT DEF Connected, Asking
    <3> QED
      BY <1>0, <2>1, <3>1 DEF Distinct, Waiting, SentOrder
  <2>4. Exchanges'
    <3>1. Exchange(toWorker[l], Tail(toCoordinator[l]), Served(worker[l]), pending[l], thread)
      BY <1>0, <1>1, <2>1, ExchangeDelivered DEF Open, Real, Head_
    <3> QED
      BY <1>0, <2>1, <2>2, <3>1 DEF Exchanges, Open
  <2>5. AllVerified'
    BY <1>0, <1>2, <2>1, <2>2, SMT DEF AllVerified, Verified, Serving
  <2> QED
    BY <2>3, <2>4, <2>5 DEF Channels
<1>4. CASE PumpAck(l)
  <2> DEFINE f == Frame("hello_ack", 0, NoOrder)
  <2>1. /\ UNCHANGED <<thread, reply, adopted, pending, counter, toCoordinator, worker>>
        /\ pump[l] = "adopting" /\ pump' = [pump EXCEPT ![l] = "receiving"]
        /\ toWorker' = [toWorker EXCEPT ![l] = Append(@, f)]
    BY <1>4 DEF PumpAck
  <2>2. \A k \in Links : /\ k # l => pump'[k] = pump[k] /\ toWorker'[k] = toWorker[k]
                         /\ pump'[l] = "receiving" /\ toWorker'[l] = Append(toWorker[l], f)
    BY <1>0, <2>1 DEF Types
  <2>3. f \in Frames /\ f.type = "hello_ack"
    BY NothingTypes DEF Frame, Frames, FrameTypes
  <2> HIDE DEF f
  <2>4. Connected' /\ Distinct' /\ Waiting'
    <3>1. Connected'
      BY <1>0, <2>1, <2>2, SMT DEF Connected, Asking
    <3> QED
      BY <1>0, <2>1, <3>1 DEF Distinct, Waiting, SentOrder
  <2>5. Exchanges'
    <3>1. Exchange(toWorker[l], toCoordinator[l], Served(worker[l]), pending[l], thread)
      BY <1>1, <2>1 DEF Open
    <3>2. Exchange(Append(toWorker[l], f), toCoordinator[l], Served(worker[l]), pending[l], thread)
      BY <1>0, <2>3, <3>1, ExchangeSent DEF Real
    <3> QED
      BY <1>0, <2>1, <2>2, <3>2 DEF Exchanges, Open
  <2>6. AllVerified'
    <3>1. \A i \in DOMAIN toWorker'[l] :
            toWorker'[l][i] = f \/ (i \in DOMAIN toWorker[l] /\ toWorker'[l][i] = toWorker[l][i])
      BY <1>0, <2>2, <2>3, AddLast, SMT
    <3> QED
      BY <1>0, <2>1, <2>2, <2>3, <3>1, SMT DEF AllVerified, Verified, Serving
  <2> QED
    BY <2>4, <2>5, <2>6 DEF Channels
<1>5. CASE PumpEnds(l)
  <2>1. /\ UNCHANGED <<thread, reply, adopted, pending, counter, toWorker, toCoordinator, worker>>
        /\ pump[l] = "receiving" /\ pump' = [pump EXCEPT ![l] = "closed"]
    BY <1>5 DEF PumpEnds, frameVars
  <2>2. \A k \in Links : (k # l => pump'[k] = pump[k]) /\ pump'[l] = "closed"
    BY <1>0, <2>1 DEF Types
  <2>3. Connected'
    BY <1>0, <2>1, <2>2, SMT DEF Connected, Asking
  <2>4. Distinct' /\ Waiting' /\ AllVerified'
    BY <1>0, <2>1, SMT DEF Distinct, Waiting, SentOrder, AllVerified, Serving
  <2>5. Exchanges'
    BY <1>0, <2>1, <2>2 DEF Exchanges, Open
  <2> QED
    BY <2>3, <2>4, <2>5 DEF Channels
<1>6. CASE PumpFails(l)
  <2> DEFINE f == Frame("broken", 0, NoOrder)
  <2>1. /\ UNCHANGED <<thread, adopted, counter, toWorker, toCoordinator, worker>>
        /\ pump[l] = "closed" /\ pump' = [pump EXCEPT ![l] = "ended"]
        /\ pending' = [pending EXCEPT ![l] = {}]
        /\ reply' = [r \in Requesters |-> IF \E v \in pending[l] : v.who = r THEN f ELSE reply[r]]
    BY <1>6 DEF PumpFails, frameVars
  <2>2. \A k \in Links : /\ k # l => pump'[k] = pump[k] /\ pending'[k] = pending[k]
                         /\ pump'[l] = "ended" /\ pending'[l] = {}
    BY <1>0, <2>1 DEF Types
  <2>3. f.type = "broken"
    BY DEF Frame
  <2> HIDE DEF f
  <2>4. \A r \in Requesters : \/ reply'[r] = reply[r] /\ (\A v \in pending[l] : v.who # r)
                              \/ reply'[r] = f /\ \E v \in pending[l] : v.who = r
    BY <2>1
  <2>5. Connected'
    BY <1>0, <2>1, <2>2, SMT DEF Connected, Asking
  <2>6. Distinct'
    BY <1>0, <2>1 DEF Distinct
  <2>7. Waiting'
    <3>1. ASSUME NEW k \in Links, NEW w \in pending'[k]
          PROVE  /\ thread'[w.who].pc = "waiting" /\ thread'[w.who].link = k /\ thread'[w.who].id = w.id
                 /\ reply'[w.who].type = "none"
      <4>1. k # l /\ w \in pending[k] /\ w.who \in Requesters
        BY <1>0, <2>2, <3>1, SMT DEF Types
      <4>2. /\ thread[w.who].pc = "waiting" /\ thread[w.who].link = k /\ thread[w.who].id = w.id
            /\ reply[w.who].type = "none"
        BY <1>0, <4>1 DEF Waiting
      <4>3. \A v \in pending[l] : v.who # w.who
        BY <1>0, <4>1, <4>2, SMT DEF Waiting
      <4> QED
        BY <2>1, <2>4, <4>1, <4>2, <4>3
    <3>2. \A r \in Requesters : thread'[r].pc # "waiting" => reply'[r].type = "none"
      BY <1>0, <2>1, <2>4, SMT DEF Waiting
    <3>3. \A r \in Requesters : reply'[r].type \notin {"none", "broken"} => reply'[r].order = SentOrder(r)
      BY <1>0, <2>3, <2>4, SMT DEF Waiting
    <3>4. \A r \in Requesters : /\ reply'[r].type = "ready" => thread[r].step = "prepare"
                                /\ reply'[r].type = "report" => thread[r].step = "start"
      BY <1>0, <2>3, <2>4, SMT DEF Waiting
    <3> QED
      BY <2>1, <3>1, <3>2, <3>3, <3>4 DEF Waiting, SentOrder
  <2>8. Exchanges'
    BY <1>0, <2>1, <2>2 DEF Exchanges, Open
  <2>9. AllVerified'
    BY <1>0, <2>1, <2>3, <2>4 DEF AllVerified, Verified, Serving
  <2> QED
    BY <2>5, <2>6, <2>7, <2>8, <2>9 DEF Channels
<1>7. CASE PumpReply(l)
  <2> DEFINE f == Head_(l)
  <2>1. /\ UNCHANGED <<thread, adopted, pump, counter, toWorker, worker>>
        /\ pump[l] = "receiving" /\ toCoordinator[l] # <<>> /\ f.type # "hello"
        /\ toCoordinator' = [toCoordinator EXCEPT ![l] = Tail(@)]
        /\ pending' = [pending EXCEPT ![l] = {w \in pending[l] : w.id # f.id}]
        /\ reply' = [r \in Requesters |-> IF [id |-> f.id, who |-> r] \in pending[l] THEN f ELSE reply[r]]
    BY <1>7 DEF PumpReply, Without
  <2>2. Real(f)
    BY <1>1, <1>2, <2>1 DEF Open, Exchange, Real
  <2>3. /\ Awaited(pending[l], thread, f)
        /\ Exchange(toWorker[l], Tail(toCoordinator[l]), Served(worker[l]), {w \in pending[l] : w.id # f.id}, thread)
    BY <1>0, <1>1, <2>1, <2>2, ExchangeDelivered DEF Open, Head_
  <2>4. \A k \in Links : /\ k # l => pending'[k] = pending[k] /\ toCoordinator'[k] = toCoordinator[k]
                         /\ pending'[l] = {w \in pending[l] : w.id # f.id}
                         /\ toCoordinator'[l] = Tail(toCoordinator[l])
    BY <1>0, <2>1 DEF Types
  <2>5. \A r \in Requesters :
          \/ reply'[r] = reply[r] /\ [id |-> f.id, who |-> r] \notin pending[l]
          \/ reply'[r] = f /\ [id |-> f.id, who |-> r] \in pending[l]
    BY <2>1
  <2>6. ASSUME NEW r \in Requesters, [id |-> f.id, who |-> r] \in pending[l]
        PROVE  /\ f.order = SentOrder(r) /\ thread[r].pc = "waiting" /\ thread[r].link = l
               /\ f.type = "ready" => thread[r].step = "prepare"
               /\ f.type = "report" => thread[r].step = "start"
    <3>1. thread[r].pc = "waiting" /\ thread[r].link = l
      BY <1>0, <2>6 DEF Waiting
    <3> QED
      BY <2>3, <2>6, <3>1, OneWaiter DEF SentOrder
  <2> HIDE DEF f
  <2>7. Connected'
    BY <1>0, <2>1, <2>4 DEF Connected, Asking
  <2>8. Distinct'
    BY <1>0, <2>1 DEF Distinct
  <2>9. Waiting'
    <3>1. ASSUME NEW k \in Links, NEW w \in pending'[k]
          PROVE  /\ thread'[w.who].pc = "waiting" /\ thread'[w.who].link = k /\ thread'[w.who].id = w.id
                 /\ reply'[w.who].type = "none"
      <4>1. w \in pending[k] /\ w.who \in Requesters /\ (k = l => w.id # f.id)
        BY <1>0, <2>4, <3>1, SMT DEF Types
      <4>2. /\ thread[w.who].pc = "waiting" /\ thread[w.who].link = k /\ thread[w.who].id = w.id
            /\ reply[w.who].type = "none"
        BY <1>0, <4>1 DEF Waiting
      <4>3. [id |-> f.id, who |-> w.who] \notin pending[l]
        <5>1. SUFFICES ASSUME [id |-> f.id, who |-> w.who] \in pending[l] PROVE FALSE
          OBVIOUS
        <5>2. thread[w.who].link = l /\ thread[w.who].id = f.id
          BY <1>0, <5>1 DEF Waiting
        <5> QED
          BY <4>1, <4>2, <5>2
      <4> QED
        BY <2>1, <2>5, <4>1, <4>2, <4>3
    <3>2. \A r \in Requesters : thread'[r].pc # "waiting" => reply'[r].type = "none"
      BY <1>0, <2>1, <2>5, <2>6 DEF Waiting
    <3>3. ASSUME NEW r \in Requesters
          PROVE  /\ reply'[r].type \notin {"none", "broken"} => reply'[r].order = SentOrder(r)
                 /\ reply'[r].type = "ready" => thread[r].step = "prepare"
                 /\ reply'[r].type = "report" => thread[r].step = "start"
      <4>1. CASE reply'[r] = reply[r]
        BY <1>0, <4>1, SMT DEF Waiting
      <4>2. CASE reply'[r] = f /\ [id |-> f.id, who |-> r] \in pending[l]
        BY <2>6, <4>2
      <4> QED
        BY <2>5, <4>1, <4>2
    <3> QED
      BY <2>1, <3>1, <3>2, <3>3 DEF Waiting, SentOrder
  <2>10. Exchanges'
    BY <1>0, <2>1, <2>3, <2>4 DEF Exchanges, Open
  <2>11. AllVerified'
    <3>1. ASSUME NEW k \in Links, Serving(k)
          PROVE  Verified(k, toWorker[k], toCoordinator'[k], worker[k], reply', thread)
      <4>1. Verified(k, toWorker[k], toCoordinator[k], worker[k], reply, thread)
        BY <1>0, <3>1 DEF AllVerified
      <4>2. \A i \in DOMAIN toCoordinator'[k] :
              toCoordinator'[k][i].type = "ready" => toCoordinator'[k][i].order.path \in worker[k].opened
        BY <1>2, <2>1, <2>4, <4>1, SMT DEF Verified
      <4>3. ASSUME NEW r \in Requesters, reply'[r].type = "ready", thread[r].link = k
            PROVE  OrderSent(r, thread[r]).path \in worker[k].opened
        <5>1. CASE reply'[r] = reply[r]
          BY <4>1, <4>3, <5>1 DEF Verified
        <5>2. CASE reply'[r] = f /\ [id |-> f.id, who |-> r] \in pending[l]
          <6>1. k = l /\ f.order = OrderSent(r, thread[r]) /\ f.type = "ready"
            BY <2>6, <4>3, <5>2 DEF SentOrder
          <6>2. f.order.path \in worker[l].opened
            BY <1>2, <2>1, <4>1, <6>1 DEF Verified, f
          <6> QED
            BY <6>1, <6>2
        <5> QED
          BY <2>5, <5>1, <5>2
      <4> QED
        BY <4>1, <4>2, <4>3 DEF Verified
    <3> QED
      BY <2>1, <3>1 DEF AllVerified, Serving
  <2> QED
    BY <2>7, <2>8, <2>9, <2>10, <2>11 DEF Channels
<1> QED
  BY <1>3, <1>4, <1>5, <1>6, <1>7 DEF Pump

\* What the worker of l did, as the rest of the channel sees it: the frames and the worker are
\* all that changed.
WorksAt(l) ==
  /\ UNCHANGED <<thread, reply, adopted, pump, pending, counter>>
  /\ \A k \in Links \ {l} :
       toWorker'[k] = toWorker[k] /\ toCoordinator'[k] = toCoordinator[k] /\ worker'[k] = worker[k]

\* A step of a worker that has been connected keeps the channels in order if what is on its way
\* still is waited for and what it was asked to start is still in a directory it opened.
LEMMA WorksKeeps ==
  ASSUME RemoteInv, NEW l \in Links, WorksAt(l), pump[l] # "off", worker'[l].at # "off",
         Open(l) => Exchange(toWorker'[l], toCoordinator'[l], Served(worker'[l]), pending[l], thread),
         Serving(l)' => Verified(l, toWorker'[l], toCoordinator'[l], worker'[l], reply, thread)
  PROVE  Channels'
<1>0. Types /\ Connected /\ Distinct /\ Waiting /\ Exchanges /\ AllVerified
  BY DEF RemoteInv, ChannelInv, Channels
<1>1. Connected'
  BY <1>0 DEF Connected, Asking, WorksAt
<1>2. Distinct'
  BY <1>0 DEF Distinct, WorksAt
<1>3. Waiting'
  BY <1>0 DEF Waiting, WorksAt, SentOrder
<1>4. Exchanges'
  BY <1>0 DEF Exchanges, WorksAt, Open
<1>5. AllVerified'
  BY <1>0 DEF AllVerified, WorksAt, Serving
<1> QED
  BY <1>1, <1>2, <1>3, <1>4, <1>5 DEF Channels

\* A worker that has gone is asked nothing, and what it has sent is still waited for.
LEMMA GoneKeeps ==
  ASSUME RemoteInv, NEW l \in Links, WorksAt(l), pump[l] # "off", worker'[l] = [Off EXCEPT !.at = "gone"],
         Open(l) => toWorker'[l] = <<>> /\ toCoordinator'[l] = toCoordinator[l]
  PROVE  Channels'
<1>1. worker'[l].at = "gone"
  BY DEF Off
<1>2. Served(worker'[l]) = {}
  BY <1>1 DEF Served, Busy
<1>3. ASSUME Open(l)
      PROVE  Exchange(toWorker'[l], toCoordinator'[l], Served(worker'[l]), pending[l], thread)
  <2>1. Exchange(toWorker[l], toCoordinator[l], Served(worker[l]), pending[l], thread)
    BY <1>3 DEF RemoteInv, ChannelInv, Channels, Exchanges
  <2>2. toWorker'[l] = <<>> /\ DOMAIN <<>> = {}
    BY <1>3, SMT
  <2> QED
    BY <1>2, <1>3, <2>1, <2>2 DEF Exchange
<1>4. ~Serving(l)'
  BY <1>1 DEF Serving
<1> QED
  BY <1>1, <1>3, <1>4, WorksKeeps

\* The worker takes a request and answers it.
LEMMA AnswerKeeps ==
  ASSUME RemoteInv, NEW l \in Links, UNCHANGED <<thread, reply, adopted, pump, pending, counter>>,
         worker[l].at = "serving", toWorker[l] # <<>>, Head(toWorker[l]).type \in {"prepare", "start", "cancel"},
         toWorker' = [toWorker EXCEPT ![l] = Tail(@)],
         NEW type \in {"ready", "error", "cancelled"}, NEW state \in Workers,
         Answers(l, [Head(toWorker[l]) EXCEPT !.type = type], state),
         worker[l].opened \subseteq state.opened,
         type = "ready" => /\ Head(toWorker[l]).type = "prepare"
                           /\ Head(toWorker[l]).order.path \in state.opened
  PROVE  Channels'
<1> DEFINE request == Head(toWorker[l])
           f == [request EXCEPT !.type = type]
           tw == toWorker[l]
           tc == toCoordinator[l]
<1>0. /\ Types /\ Connected /\ Exchanges /\ AllVerified /\ tc \in Seq(Frames) /\ tw \in Seq(Frames)
      /\ worker \in [Links -> Workers] /\ toWorker \in [Links -> Seq(Frames)]
      /\ toCoordinator \in [Links -> Seq(Frames)]
  BY DEF RemoteInv, ChannelInv, Channels, Types
<1>1. request \in Frames /\ Tail(tw) \in Seq(Frames)
  BY <1>0, TakeFirst
<1>2. f \in Frames /\ f.type = type /\ f.id = request.id /\ f.order = request.order
  BY <1>1 DEF Frames, FrameTypes
<1>3. pump[l] # "off"
  BY <1>0 DEF Connected
<1>4. toWorker'[l] = Tail(tw)
  BY <1>0
<1> HIDE DEF f
<1>5. CASE Open(l)
  <2>1. /\ toCoordinator' = [toCoordinator EXCEPT ![l] = Append(@, f)]
        /\ worker' = [worker EXCEPT ![l] = [state EXCEPT !.at = "serving"]]
    BY <1>5 DEF Answers, f
  <2>2. WorksAt(l) /\ toCoordinator'[l] = Append(tc, f)
    BY <1>0, <2>1 DEF WorksAt
  <2>3. worker'[l].at = "serving" /\ worker'[l].opened = state.opened
    BY <1>0, <2>1 DEF Workers
  <2>4. Served(worker'[l]) = {} /\ Served(worker[l]) = {}
    BY <2>3 DEF Served, Busy
  <2>5. Exchange(Tail(tw), Append(tc, f), {}, pending[l], thread)
    <3>1. Exchange(tw, tc, {}, pending[l], thread)
      BY <1>0, <1>5, <2>4 DEF Exchanges
    <3>2. Real(request) /\ f.type # "hello_ack"
      BY <1>2 DEF Real
    <3>3. /\ Exchange(Tail(tw), tc, {}, pending[l], thread)
          /\ Awaited(pending[l], thread, request)
          /\ \A i \in DOMAIN Tail(tw) : Real(Tail(tw)[i]) => Tail(tw)[i].id # f.id
          /\ \A i \in DOMAIN tc : Real(tc[i]) => tc[i].id # f.id
      BY <1>0, <1>2, <3>1, <3>2, ExchangeTaken
    <3>4. Awaited(pending[l], thread, f)
      BY <1>2, <3>3 DEF Awaited
    <3> QED
      BY <1>0, <1>2, <3>2, <3>3, <3>4, ExchangeAnswered
  <2>6. Verified(l, Tail(tw), Append(tc, f), worker'[l], reply, thread)
    <3>1. Verified(l, tw, tc, worker[l], reply, thread) /\ worker[l].opened \subseteq worker'[l].opened
      BY <1>0, <2>3 DEF AllVerified, Serving
    <3>2. \A i \in DOMAIN Tail(tw) : \E j \in DOMAIN tw : Tail(tw)[i] = tw[j]
      BY <1>0, TakeFirst
    <3>3. \A i \in DOMAIN Append(tc, f) :
            Append(tc, f)[i] = f \/ (i \in DOMAIN tc /\ Append(tc, f)[i] = tc[i])
      BY <1>0, <1>2, AddLast, SMT
    <3>4. f.type = "ready" => f.order.path \in worker'[l].opened
      BY <1>2, <2>3
    <3>5. ~Busy(worker'[l])
      BY <2>3 DEF Busy
    <3>6. \A i \in DOMAIN Tail(tw) : Tail(tw)[i].type = "start" => Tail(tw)[i].order.path \in worker'[l].opened
      BY <3>1, <3>2 DEF Verified
    <3>7. \A i \in DOMAIN Append(tc, f) :
            Append(tc, f)[i].type = "ready" => Append(tc, f)[i].order.path \in worker'[l].opened
      BY <3>1, <3>3, <3>4 DEF Verified
    <3> QED
      BY <3>1, <3>5, <3>6, <3>7 DEF Verified
  <2> QED
    BY <1>3, <1>4, <2>2, <2>3, <2>4, <2>5, <2>6, WorksKeeps
<1>6. CASE ~Open(l)
  <2>1. worker' = [worker EXCEPT ![l] = [Off EXCEPT !.at = "gone"]] /\ UNCHANGED toCoordinator
    BY <1>6 DEF Answers
  <2>2. WorksAt(l) /\ worker'[l] = [Off EXCEPT !.at = "gone"]
    BY <1>0, <2>1 DEF WorksAt
  <2> QED
    BY <1>3, <1>6, <2>2, GoneKeeps
<1> QED
  BY <1>5, <1>6

\* A connection finds nothing on its way.
LEMMA ConnectKeeps ==
  ASSUME RemoteInv, NEW l \in Links, Connect(l)
  PROVE  Channels'
<1> DEFINE f == Frame("hello", 0, NoOrder)
<1>0. /\ Types /\ Connected /\ Distinct /\ Waiting /\ Exchanges /\ AllVerified /\ worker \in [Links -> Workers]
  BY DEF RemoteInv, ChannelInv, Channels, Types
<1>1. /\ UNCHANGED <<thread, reply, adopted, pending, counter, toWorker>> /\ worker[l].at = "off"
      /\ worker' = [worker EXCEPT ![l].at = "hello"]
      /\ pump' = [pump EXCEPT ![l] = "receiving"] /\ toCoordinator' = [toCoordinator EXCEPT ![l] = <<f>>]
  BY DEF Connect
<1>2. \A k \in Links :
        /\ k # l => worker'[k] = worker[k] /\ pump'[k] = pump[k] /\ toCoordinator'[k] = toCoordinator[k]
        /\ worker'[l].at = "hello" /\ pump'[l] = "receiving" /\ toCoordinator'[l] = <<f>>
  BY <1>0, <1>1 DEF Types, Workers
<1>3. pump[l] = "off" /\ toWorker[l] = <<>> /\ \A r \in Requesters : Asking(r) => thread[r].link # l
  BY <1>0, <1>1 DEF Connected
<1>4. f.type = "hello"
  BY DEF Frame
<1> HIDE DEF f
<1>5. Connected'
  BY <1>0, <1>1, <1>2, SMT DEF Connected, Asking
<1>6. Distinct'
  BY <1>0, <1>1 DEF Distinct
<1>7. Waiting'
  BY <1>0, <1>1 DEF Waiting, SentOrder
<1>8. \A i \in DOMAIN toCoordinator'[l] : toCoordinator'[l][i] = f /\ i = 1
  BY <1>2, SMT
<1>9. DOMAIN toWorker[l] = {}
  BY <1>3, SMT
<1>10. Served(worker'[l]) = {} /\ ~Busy(worker'[l])
  BY <1>2 DEF Served, Busy
<1>11. Exchanges'
  <2>1. Exchange(toWorker[l], toCoordinator'[l], Served(worker'[l]), pending[l], thread)
    BY <1>4, <1>8, <1>9, <1>10 DEF Exchange, Real
  <2> QED
    BY <1>0, <1>1, <1>2, <2>1 DEF Exchanges, Open
<1>12. AllVerified'
  <2>1. \A r \in Requesters : reply[r].type = "ready" => Asking(r)
    BY <1>0 DEF Waiting, Asking
  <2>2. Verified(l, toWorker[l], toCoordinator'[l], worker'[l], reply, thread)
    BY <1>3, <1>4, <1>8, <1>9, <1>10, <2>1 DEF Verified, Asking
  <2> QED
    BY <1>0, <1>1, <1>2, <2>2 DEF AllVerified, Serving
<1> QED
  BY <1>5, <1>6, <1>7, <1>11, <1>12 DEF Channels

\* The steps of a worker keep the channels in order: it runs what it opened, and reports what it ran.
LEMMA WorkerKeeps ==
  ASSUME RemoteInv, NEW l \in Links, Serve(l) \/ WorkerEnds(l)
  PROVE  Channels'
<1> DEFINE request == Head(toWorker[l])
           tw == toWorker[l]
           tc == toCoordinator[l]
<1>0. /\ Types /\ Connected /\ Exchanges /\ AllVerified /\ tc \in Seq(Frames) /\ tw \in Seq(Frames)
      /\ worker \in [Links -> Workers] /\ toWorker \in [Links -> Seq(Frames)] /\ worker[l] \in Workers
      /\ toCoordinator \in [Links -> Seq(Frames)]
  BY DEF RemoteInv, ChannelInv, Channels, Types
<1>1. tw # <<>> =>
        /\ request \in Frames /\ Tail(tw) \in Seq(Frames) /\ 1 \in DOMAIN tw /\ request = tw[1]
        /\ \A i \in DOMAIN Tail(tw) : \E j \in DOMAIN tw : Tail(tw)[i] = tw[j]
  BY <1>0, TakeFirst
<1>2. worker[l].at # "off" => pump[l] # "off"
  BY <1>0 DEF Connected
<1>3. Open(l) => Exchange(tw, tc, Served(worker[l]), pending[l], thread)
  BY <1>0 DEF Exchanges
<1>4. Serving(l) => Verified(l, tw, tc, worker[l], reply, thread)
  BY <1>0 DEF AllVerified
<1>5. CASE Handshake(l)
  <2>1. /\ UNCHANGED <<thread, reply, adopted, pump, pending, counter, toCoordinator>>
        /\ tw # <<>> /\ worker[l].at = "hello" /\ toWorker' = [toWorker EXCEPT ![l] = Tail(@)]
        /\ worker' = [worker EXCEPT ![l].at = IF request.id = 0 THEN "serving" ELSE "hello"]
    BY <1>5 DEF Handshake
  <2>2. /\ WorksAt(l) /\ toWorker'[l] = Tail(tw) /\ worker'[l].at \in {"hello", "serving"}
        /\ worker'[l].opened = worker[l].opened
    BY <1>0, <2>1 DEF WorksAt, Workers
  <2>3. Served(worker'[l]) = {} /\ Served(worker[l]) = {} /\ ~Busy(worker'[l]) /\ Serving(l)
    BY <2>1, <2>2 DEF Served, Busy, Serving
  <2>4. Open(l) => Exchange(Tail(tw), tc, {}, pending[l], thread)
    BY <1>0, <1>3, <2>1, <2>3, ExchangeTaken
  <2>5. Verified(l, Tail(tw), tc, worker'[l], reply, thread)
    BY <1>1, <1>4, <2>1, <2>2, <2>3 DEF Verified
  <2> QED
    BY <1>2, <2>1, <2>2, <2>3, <2>4, <2>5, WorksKeeps
<1>6. CASE ServePrepare(l)
  <2> DEFINE prepared == [worker[l] EXCEPT !.opened = @ \cup {request.order.path}]
  <2>1. /\ UNCHANGED <<thread, reply, adopted, pump, pending, counter>>
        /\ tw # <<>> /\ worker[l].at = "serving" /\ request.type = "prepare"
        /\ toWorker' = [toWorker EXCEPT ![l] = Tail(@)]
        /\ \/ Answers(l, [request EXCEPT !.type = "ready"], prepared)
           \/ Answers(l, [request EXCEPT !.type = "error"], worker[l])
    BY <1>6 DEF ServePrepare, Takes
  <2>2. request.order.path \in Places
    BY <1>1, <2>1 DEF Frames, Orders
  <2>3. prepared \in Workers /\ prepared.opened = worker[l].opened \cup {request.order.path}
    BY <1>0, <2>2 DEF Workers
  <2> HIDE DEF prepared
  <2>4. CASE Answers(l, [request EXCEPT !.type = "ready"], prepared)
    BY <2>1, <2>3, <2>4, AnswerKeeps
  <2>5. CASE Answers(l, [request EXCEPT !.type = "error"], worker[l])
    BY <1>0, <2>1, <2>5, AnswerKeeps
  <2> QED
    BY <2>1, <2>4, <2>5
<1>7. CASE ServeCancel(l)
  <2>1. /\ UNCHANGED <<thread, reply, adopted, pump, pending, counter>>
        /\ tw # <<>> /\ worker[l].at = "serving" /\ request.type = "cancel"
        /\ toWorker' = [toWorker EXCEPT ![l] = Tail(@)]
        /\ Answers(l, [request EXCEPT !.type = "cancelled"], worker[l])
    BY <1>7 DEF ServeCancel, Takes
  <2> QED
    BY <1>0, <2>1, AnswerKeeps
<1>8. CASE ServeStart(l)
  <2>1. /\ UNCHANGED <<thread, reply, adopted, pump, pending, counter>>
        /\ tw # <<>> /\ worker[l].at = "serving" /\ request.type = "start"
        /\ toWorker' = [toWorker EXCEPT ![l] = Tail(@)]
    BY <1>8 DEF ServeStart, Takes
  <2>2. CASE Answers(l, [request EXCEPT !.type = "error"], worker[l])
    BY <1>0, <2>1, <2>2, AnswerKeeps
  <2>3. CASE /\ UNCHANGED toCoordinator
             /\ worker' = [worker EXCEPT ![l].at = "running", ![l].id = request.id, ![l].order = request.order]
    <3>1. /\ WorksAt(l) /\ toWorker'[l] = Tail(tw) /\ worker'[l].at = "running" /\ worker'[l].id = request.id
          /\ worker'[l].order = request.order /\ worker'[l].opened = worker[l].opened
      BY <1>0, <2>1, <2>3 DEF WorksAt, Workers
    <3> DEFINE f == Frame("report", request.id, request.order)
    <3>2. Served(worker'[l]) = {f} /\ Served(worker[l]) = {} /\ Serving(l)
      BY <2>1, <3>1 DEF Served, Busy, Serving
    <3>3. f.id = request.id /\ f.order = request.order /\ f.type = "report" /\ Real(request)
      BY <2>1 DEF Frame, Real
    <3> HIDE DEF f
    <3>4. ASSUME Open(l) PROVE Exchange(Tail(tw), tc, {f}, pending[l], thread)
      <4>1. /\ Exchange(Tail(tw), tc, {}, pending[l], thread)
            /\ Awaited(pending[l], thread, request)
            /\ \A i \in DOMAIN Tail(tw) : Real(Tail(tw)[i]) => Tail(tw)[i].id # f.id
            /\ \A i \in DOMAIN tc : Real(tc[i]) => tc[i].id # f.id
        BY <1>0, <1>3, <2>1, <3>2, <3>3, <3>4, ExchangeTaken
      <4>2. Awaited(pending[l], thread, f)
        BY <2>1, <3>3, <4>1 DEF Awaited
      <4> QED
        BY <4>1, <4>2 DEF Exchange
    <3>5. Verified(l, Tail(tw), tc, worker'[l], reply, thread)
      BY <1>1, <1>4, <2>1, <3>1, <3>2 DEF Verified
    <3> QED
      BY <1>2, <2>1, <2>3, <3>1, <3>2, <3>4, <3>5, WorksKeeps
  <2> QED
    BY <1>8, <2>2, <2>3 DEF ServeStart
<1>9. CASE CompilerWrites(l)
  <2>1. /\ UNCHANGED <<thread, reply, adopted, pump, pending, counter, toWorker, toCoordinator>>
        /\ worker[l].at = "running" /\ worker' = [worker EXCEPT ![l].at = "wrote"]
    BY <1>9 DEF CompilerWrites, channelVars, frameVars
  <2>2. /\ WorksAt(l) /\ worker'[l].at = "wrote" /\ worker'[l].id = worker[l].id
        /\ worker'[l].order = worker[l].order /\ worker'[l].opened = worker[l].opened
    BY <1>0, <2>1 DEF WorksAt, Workers
  <2>3. Served(worker'[l]) = Served(worker[l]) /\ Serving(l) /\ Busy(worker[l])
    BY <2>1, <2>2 DEF Served, Busy, Serving
  <2>4. Verified(l, tw, tc, worker'[l], reply, thread)
    BY <1>4, <2>2, <2>3 DEF Verified
  <2> QED
    BY <1>2, <1>3, <2>1, <2>2, <2>3, <2>4, WorksKeeps
<1>10. CASE ServeReport(l)
  <2> DEFINE f == Frame("report", worker[l].id, worker[l].order)
             state == [worker[l] EXCEPT !.id = 0, !.order = NoOrder]
  <2>1. /\ UNCHANGED <<thread, reply, adopted, pump, pending, counter, toWorker>>
        /\ worker[l].at = "wrote" /\ Answers(l, f, state)
    BY <1>10 DEF ServeReport
  <2>2. f \in Frames /\ f.type = "report"
    BY <1>0 DEF Workers, Frame, Frames, FrameTypes
  <2>3. state \in Workers /\ state.opened = worker[l].opened
    BY <1>0, NothingTypes DEF Workers
  <2>4. Served(worker[l]) = {f} /\ Serving(l)
    BY <2>1 DEF Served, Busy, Serving
  <2> HIDE DEF f, state
  <2>5. CASE Open(l)
    <3>1. /\ toCoordinator' = [toCoordinator EXCEPT ![l] = Append(@, f)]
          /\ worker' = [worker EXCEPT ![l] = [state EXCEPT !.at = "serving"]]
      BY <2>1, <2>5 DEF Answers
    <3>2. WorksAt(l) /\ toCoordinator'[l] = Append(tc, f)
      BY <1>0, <2>1, <3>1 DEF WorksAt
    <3>3. worker'[l].at = "serving" /\ worker'[l].opened = worker[l].opened
      BY <1>0, <2>3, <3>1 DEF Workers
    <3>4. Served(worker'[l]) = {} /\ ~Busy(worker'[l])
      BY <3>3 DEF Served, Busy
    <3>5. /\ Exchange(tw, tc, {}, pending[l], thread) /\ Awaited(pending[l], thread, f)
          /\ \A i \in DOMAIN tw : Real(tw[i]) => tw[i].id # f.id
          /\ \A i \in DOMAIN tc : Real(tc[i]) => tc[i].id # f.id
      BY <1>3, <2>4, <2>5 DEF Exchange
    <3>6. Exchange(tw, Append(tc, f), {}, pending[l], thread)
      BY <1>0, <2>2, <3>5, ExchangeAnswered
    <3>7. \A i \in DOMAIN Append(tc, f) :
            Append(tc, f)[i] = f \/ (i \in DOMAIN tc /\ Append(tc, f)[i] = tc[i])
      BY <1>0, <2>2, AddLast, SMT
    <3>8. Verified(l, tw, Append(tc, f), worker'[l], reply, thread)
      BY <1>4, <2>2, <2>4, <3>3, <3>4, <3>7 DEF Verified
    <3> QED
      BY <1>2, <2>1, <3>2, <3>3, <3>4, <3>6, <3>8, WorksKeeps
  <2>6. CASE ~Open(l)
    <3>1. worker' = [worker EXCEPT ![l] = [Off EXCEPT !.at = "gone"]] /\ UNCHANGED toCoordinator
      BY <2>1, <2>6 DEF Answers
    <3>2. WorksAt(l) /\ worker'[l] = [Off EXCEPT !.at = "gone"]
      BY <1>0, <2>1, <3>1 DEF WorksAt
    <3> QED
      BY <1>2, <2>1, <2>6, <3>2, GoneKeeps
  <2> QED
    BY <2>5, <2>6
<1>11. CASE WorkerEnds(l)
  <2>1. /\ UNCHANGED <<thread, reply, adopted, pump, pending, counter, toCoordinator>> /\ Serving(l)
        /\ worker' = [worker EXCEPT ![l] = [Off EXCEPT !.at = "gone"]]
        /\ toWorker' = [toWorker EXCEPT ![l] = <<>>]
    BY <1>11 DEF WorkerEnds
  <2>2. WorksAt(l) /\ worker'[l] = [Off EXCEPT !.at = "gone"] /\ toWorker'[l] = <<>>
    BY <1>0, <2>1 DEF WorksAt
  <2>3. pump[l] # "off"
    BY <1>2, <2>1 DEF Serving
  <2> QED
    BY <2>1, <2>2, <2>3, GoneKeeps
<1> QED
  BY <1>5, <1>6, <1>7, <1>8, <1>9, <1>10, <1>11 DEF Serve

\* A stop ends every channel and every request; the workers may go on.
LEMMA StopKeeps ==
  ASSUME RemoteInv, NEW clean \in BOOLEAN, Stop(clean)
  PROVE  Channels'
<1>0. /\ Types /\ Connected /\ Distinct /\ Waiting /\ Exchanges /\ AllVerified
      /\ "cancel" \in Requesters /\ "cancel" \notin Phases /\ Phases \subseteq Requesters
  BY RemoteAssumption DEF RemoteInv, ChannelInv, Channels, Requesters
<1>1. /\ UNCHANGED <<counter, toWorker, toCoordinator, worker>> /\ adopted' = "none"
      /\ thread' = [r \in Requesters |-> IF r \in Phases THEN Restored(r) ELSE Resting]
      /\ reply' = [r \in Requesters |-> NoReply]
      /\ pump' = [l \in Links |-> IF pump[l] = "off" THEN "off" ELSE "ended"]
      /\ pending' = [l \in Links |-> {}]
  BY DEF Stop, frameVars
<1>2. \A l \in Links : pending'[l] = {} /\ pump'[l] \in {"off", "ended"} /\ (pump'[l] = "off" <=> pump[l] = "off")
  BY <1>1
<1>3. \A r \in Requesters : reply'[r].type = "none" /\ thread'[r].pc \in {"idle", "failed", "committed"}
  <2>1. NoReply.type = "none" /\ Resting.pc = "idle"
    BY DEF NoReply, Frame, Resting
  <2>2. \A p \in Phases : Restored(p).pc \in {"idle", "failed", "committed"}
    BY DEF Restored, Resting
  <2> QED
    BY <1>1, <2>1, <2>2
<1>4. /\ \A p \in Phases : thread'[p].step # "cancel"
      /\ thread'["cancel"].step = "none" /\ thread'["cancel"].pc = "idle"
  <2>1. \A p \in Phases : Restored(p).step # "cancel"
    BY <1>0 DEF Restored, Resting, Connected
  <2> QED
    BY <1>0, <1>1, <2>1 DEF Resting
<1>5. Connected'
  <2>1. \A r \in Requesters : ~Asking(r)'
    BY <1>3 DEF Asking
  <2>2. \A l \in Links :
          /\ worker'[l].at = "off" <=> pump'[l] = "off"
          /\ pump'[l] = "off" =>
               toWorker'[l] = <<>> /\ toCoordinator'[l] = <<>> /\ pending'[l] = {} /\ worker'[l] = Off
    BY <1>0, <1>1, <1>2 DEF Connected
  <2> QED
    BY <1>1, <1>4, <2>1, <2>2 DEF Connected
<1>6. Distinct'
  BY <1>3 DEF Distinct
<1>7. Waiting'
  BY <1>2, <1>3 DEF Waiting
<1>8. Exchanges'
  BY <1>2 DEF Exchanges, Open
<1>9. AllVerified'
  BY <1>0, <1>1, <1>3 DEF AllVerified, Serving, Verified
<1> QED
  BY <1>5, <1>6, <1>7, <1>8, <1>9 DEF Channels

\* The first state is in order.
LEMMA InitChannels == Init => Channels
<1> SUFFICES ASSUME Init PROVE Channels
  OBVIOUS
<1>0. "cancel" \in Requesters /\ "cancel" \notin Phases /\ Phases \subseteq Requesters
  BY RemoteAssumption DEF Requesters
<1>1. \A r \in Requesters : thread[r] = Resting /\ reply[r] = NoReply
  BY DEF Init
<1>2. \A l \in Links : pump[l] = "off" /\ pending[l] = {} /\ toWorker[l] = <<>> /\ toCoordinator[l] = <<>>
                    /\ worker[l] = Off
  BY DEF Init
<1>3. Resting.pc = "idle" /\ Resting.step = "none" /\ NoReply.type = "none" /\ Off.at = "off"
  BY DEF Resting, NoReply, Frame, Off
<1>4. Connected
  BY <1>0, <1>1, <1>2, <1>3 DEF Connected, Asking, Init
<1>5. Distinct /\ Waiting
  BY <1>1, <1>2, <1>3 DEF Distinct, Waiting
<1>6. Exchanges /\ AllVerified
  BY <1>2, <1>3 DEF Exchanges, Open, AllVerified, Serving
<1> QED
  BY <1>4, <1>5, <1>6 DEF Channels

\* Every step keeps the channels in order.
LEMMA ChannelsStep ==
  ASSUME RemoteInv, [Next]_vars
  PROVE  Channels'
<1>1. CASE \E p \in Phases : Phase(p)
  <2>1. PICK p \in Phases : Phase(p)
    BY <1>1
  <2>2. p \in Requesters /\ "cancel" \in Requesters
    BY DEF Requesters
  <2> QED
    BY <2>1, <2>2, PhaseLeaves, SilentKeeps, LeavesKeeps
<1>2. CASE Cleanup \/ UNCHANGED vars
  <2>1. Silent
    BY <1>2 DEF Cleanup, Silent, vars
  <2> QED
    BY <2>1, SilentKeeps
<1>3. CASE \E r \in Requesters : Request(r)
  BY <1>3, RequestLeaves, LeavesKeeps, AskKeeps, SendKeeps
<1>4. CASE \E l \in Links : Pump(l) \/ Connect(l) \/ Serve(l) \/ WorkerEnds(l)
  BY <1>4, PumpKeeps, ConnectKeeps, WorkerKeeps
<1>5. CASE \E clean \in BOOLEAN : Stop(clean)
  BY <1>5, StopKeeps
<1> QED
  BY <1>1, <1>2, <1>3, <1>4, <1>5 DEF Next

----------------------------------------------------------------------------
(* Whose outputs a directory holds. *)

\* Directories may be removed if the manager made them, and written in; none is made.
Fades ==
  /\ UNCHANGED <<generation, runs>> /\ live' \subseteq live
  /\ \A q \in Paths :
       /\ Directory(disk'[q], runs)
       /\ disk'[q].state # "absent" => disk[q].state # "absent" /\ disk'[q].owner = disk[q].owner
       /\ q \notin live /\ disk[q].state # "absent" => disk'[q].state # "absent"

\* The thread of p keeps its reservation as it is, or gives it up.
HoldsOn(p) ==
  \/ thread'[p] = thread[p]
  \/ ~Holds(thread'[p]) /\ thread[p].pc \notin {"stuck", "reserving"} /\ thread'[p].pc # "stuck"
  \/ /\ Holds(thread'[p]) /\ Holds(thread[p])
     /\ thread[p].pc \notin {"marking", "reserving"} /\ thread'[p].pc \notin {"marking", "reserving"}
     /\ thread'[p].order = thread[p].order /\ thread'[p].second = thread[p].second

\* An order stays bound while its phase keeps or gives up its reservation.
LEMMA BoundKept ==
  ASSUME RemoteInv, Fades, NEW order, Bound(order, disk, generation, runs, thread),
         \A p \in Phases : HoldsOn(p)
  PROVE  Bound(order, disk', generation', runs', thread')
<1>1. order.path \in Paths /\ order.path.phase \in Phases
  BY DEF Bound, Paths
<1>2. MadeFor(disk'[order.path], order.run)
  BY <1>1 DEF Bound, Fades, MadeFor
<1>3. LET t == thread'[order.path.phase]
      IN  Holds(t) => Holds(thread[order.path.phase]) /\ t.order = thread[order.path.phase].order
  BY <1>1 DEF HoldsOn
<1> QED
  BY <1>1, <1>2, <1>3 DEF Bound, Fades

\* A reservation that is kept is still one.
LEMMA ReservationKept ==
  ASSUME RemoteInv, Fades, NEW p \in Phases, HoldsOn(p), Holds(thread'[p])
  PROVE  Reservation(p)'
<1>1. /\ Holds(thread[p]) /\ thread'[p].order = thread[p].order /\ thread'[p].second = thread[p].second
      /\ thread'[p].pc # thread[p].pc => thread[p].pc \notin {"marking", "reserving"}
                                      /\ thread'[p].pc \notin {"marking", "reserving"}
  BY DEF HoldsOn
<1>2. Reservation(p)
  BY <1>1 DEF RemoteInv, DiskInv
<1>3. /\ thread[p].order.path \in Paths /\ Again(thread[p].order.path) \in Paths /\ Ordered(p).path \in Paths
  BY <1>1, HeldPath
<1>4. Ordered(p)' = Ordered(p) /\ Reserving(p)' = Reserving(p)
  <2>1. Ordered(p)' = Ordered(p)
    BY <1>1 DEF Ordered
  <2>2. Reserving(p)' <=> Reserving(p)
    BY <1>1 DEF Reserving
  <2> QED
    BY <2>1, <2>2 DEF Reserving
<1>5. generation' = generation /\ runs' = runs
  BY DEF Fades
<1>6. /\ MadeFor(disk'[thread[p].order.path], thread[p].order.run)
      /\ thread[p].second => MadeFor(disk'[Again(thread[p].order.path)], thread[p].order.run)
  BY <1>2, <1>3 DEF Reservation, Fades, MadeFor
<1>7. ~thread[p].second => Again(thread[p].order.path) \notin live'
  BY <1>2 DEF Reservation, Fades
<1>8. thread'[p].pc = "marking" => disk'[Ordered(p).path].state # "absent" /\ Ordered(p).path \notin live'
  BY <1>1, <1>2, <1>3 DEF Reservation, Fades
<1>9. thread'[p].pc = "reserving" => ~thread[p].second
  BY <1>1, <1>2 DEF Reservation
<1> QED
  BY <1>1, <1>2, <1>4, <1>5, <1>6, <1>7, <1>8, <1>9 DEF Reservation

\* Steps that make no directory and no reservation keep what is known of both, if what a worker
\* is asked to start was bound.
LEMMA FadesKeeps ==
  ASSUME RemoteInv, Fades, \A p \in Phases : HoldsOn(p),
         \A l \in Links :
           /\ Busy(worker'[l]) => Bound(worker'[l].order, disk, generation, runs, thread)
           /\ \A i \in DOMAIN toWorker'[l] :
                toWorker'[l][i].type = "start" => Bound(toWorker'[l][i].order, disk, generation, runs, thread)
  PROVE  DiskInv'
<1>0. DiskInv /\ generation' = generation /\ runs' = runs /\ Types
  BY DEF RemoteInv, ChannelInv, Fades
<1>1. \A path \in Paths : Directory(disk'[path], runs')
  BY DEF Fades
<1>2. Generations'
  <2> SUFFICES ASSUME NEW p \in Phases
               PROVE  /\ generation[p].now <= MaxGeneration
                      /\ IF thread'[p].pc = "stuck" THEN generation[p].now = generation[p].saved + 1
                                                   ELSE generation[p].now = generation[p].saved
                      /\ \A path \in live' : path.phase = p =>
                           path.generation <= IF thread'[p].pc = "reserving" THEN generation[p].now + 1
                                                                            ELSE generation[p].now
    BY <1>0 DEF Generations
  <2>1. /\ thread'[p].pc = "stuck" <=> thread[p].pc = "stuck"
        /\ thread[p].pc = "reserving" => thread'[p].pc = "reserving"
        /\ thread'[p].pc = "reserving" => thread[p].pc = "reserving"
    BY DEF HoldsOn, Holds
  <2>2. live' \subseteq live
    BY DEF Fades
  <2> QED
    BY <1>0, <2>1, <2>2 DEF DiskInv, Generations
<1>3. \A p \in Phases : Holds(thread'[p]) => Reservation(p)'
  BY ReservationKept
<1>4. \A l \in Links :
        /\ Busy(worker'[l]) => Bound(worker'[l].order, disk', generation', runs', thread')
        /\ \A i \in DOMAIN toWorker'[l] :
             toWorker'[l][i].type = "start" => Bound(toWorker'[l][i].order, disk', generation', runs', thread')
  BY BoundKept
<1> QED
  BY <1>1, <1>2, <1>3, <1>4 DEF DiskInv

\* Nothing on the disk changes.
LEMMA SameDiskFades ==
  ASSUME RemoteInv, UNCHANGED <<disk, live, generation, runs>>
  PROVE  Fades
BY DEF RemoteInv, DiskInv, Fades

\* A run writes in a directory that was made for it, if it is still there.
LEMMA WriteFades ==
  ASSUME RemoteInv, NEW path \in Paths, NEW run \in 1..runs, Write(path, run), MadeFor(disk[path], run),
         UNCHANGED <<live, generation, runs>>
  PROVE  Fades
<1>0. Types /\ disk \in [Paths -> Directories] /\ \A q \in Paths : Directory(disk[q], runs) /\ disk[q] \in Directories
  BY DEF RemoteInv, ChannelInv, DiskInv, Types
<1>1. \A q \in Paths : q # path => disk'[q] = disk[q]
  BY <1>0 DEF Write
<1> DEFINE w == IF disk[path].state = "absent" THEN {} ELSE disk[path].writers \cup {run}
<1>2. disk'[path] = [disk[path] EXCEPT !.writers = w]
  BY <1>0 DEF Write
<1> HIDE DEF w
<1>3. /\ disk'[path].state = disk[path].state /\ disk'[path].owner = disk[path].owner
      /\ disk'[path].session_generation = disk[path].session_generation /\ disk'[path].writers = w
  BY <1>0, <1>2 DEF Directories
<1>4. Directory(disk'[path], runs)
  <2>1. CASE disk[path].state = "absent"
    <3>1. disk[path] = Absent /\ w = {}
      BY <1>0, <2>1 DEF Directory, w
    <3>2. disk'[path] = Absent
      BY <1>2, <3>1, SMT DEF Absent
    <3> QED
      BY <1>0, <3>1, <3>2
  <2>2. CASE disk[path].state # "absent"
    <3>1. disk[path].owner = run /\ w = disk[path].writers \cup {run}
      BY <2>2 DEF MadeFor, w
    <3> QED
      BY <1>0, <1>3, <2>2, <3>1 DEF Directory
  <2> QED
    BY <2>1, <2>2
<1> QED
  BY <1>0, <1>1, <1>3, <1>4 DEF Fades

\* The manager removes what it made.
LEMMA CleanupFades ==
  ASSUME RemoteInv, NEW inUse, cleanup_all(inUse)
  PROVE  /\ live' \subseteq live
         /\ \A q \in Paths :
              /\ Directory(disk'[q], runs)
              /\ disk'[q].state # "absent" => disk[q].state # "absent" /\ disk'[q].owner = disk[q].owner
              /\ q \notin live /\ disk[q].state # "absent" => disk'[q].state # "absent"
<1>0. runs \in Nat /\ \A q \in Paths : Directory(disk[q], runs)
  BY DEF RemoteInv, ChannelInv, DiskInv, Types
<1>1. live' = {} /\ \A q \in Paths : disk'[q] = disk[q] \/ (q \in live /\ disk'[q] = Absent)
  BY DEF cleanup_all
<1>2. Directory(Absent, runs) /\ Absent.state = "absent"
  BY <1>0, RemoteAssumption, SMT DEF Directory, Absent
<1> QED
  BY <1>0, <1>1, <1>2

\* The worker of every channel runs what it ran or was asked to start, and is asked nothing new.
NothingNew ==
  \A l \in Links :
    /\ Busy(worker'[l]) =>
         \/ Busy(worker[l]) /\ worker'[l].order = worker[l].order
         \/ \E j \in DOMAIN toWorker[l] : toWorker[l][j].type = "start" /\ worker'[l].order = toWorker[l][j].order
    /\ \A i \in DOMAIN toWorker'[l] : toWorker'[l][i].type = "start" =>
         \E j \in DOMAIN toWorker[l] : toWorker'[l][i] = toWorker[l][j]

\* Then everything it runs or is asked to start is bound.
LEMMA NothingNewBound ==
  ASSUME RemoteInv, NothingNew
  PROVE  \A l \in Links :
           /\ Busy(worker'[l]) => Bound(worker'[l].order, disk, generation, runs, thread)
           /\ \A i \in DOMAIN toWorker'[l] :
                toWorker'[l][i].type = "start" => Bound(toWorker'[l][i].order, disk, generation, runs, thread)
<1> SUFFICES ASSUME NEW l \in Links
             PROVE  /\ Busy(worker'[l]) => Bound(worker'[l].order, disk, generation, runs, thread)
                    /\ \A i \in DOMAIN toWorker'[l] : toWorker'[l][i].type = "start" =>
                         Bound(toWorker'[l][i].order, disk, generation, runs, thread)
  OBVIOUS
<1>1. /\ Busy(worker[l]) => Bound(worker[l].order, disk, generation, runs, thread)
      /\ \A i \in DOMAIN toWorker[l] :
           toWorker[l][i].type = "start" => Bound(toWorker[l][i].order, disk, generation, runs, thread)
  BY DEF RemoteInv, DiskInv
<1> QED
  BY <1>1, SMT DEF NothingNew

\* Nothing new while the workers and their queues stand still.
LEMMA StillNothingNew ==
  ASSUME UNCHANGED <<toWorker, worker>>
  PROVE  NothingNew
BY DEF NothingNew

\* A worker starts nothing but what it was asked to start.
LEMMA WorkerNothingNew ==
  ASSUME RemoteInv, NEW l \in Links, Pump(l) \/ Connect(l) \/ Serve(l) \/ WorkerEnds(l)
  PROVE  NothingNew
<1> DEFINE request == Head(toWorker[l])
           tw == toWorker[l]
<1>0. /\ Types /\ tw \in Seq(Frames) /\ worker \in [Links -> Workers] /\ toWorker \in [Links -> Seq(Frames)]
      /\ worker[l] \in Workers
  BY DEF RemoteInv, ChannelInv, Types
<1>1. tw # <<>> => /\ 1 \in DOMAIN tw /\ request = tw[1]
                   /\ \A i \in DOMAIN Tail(tw) : \E j \in DOMAIN tw : Tail(tw)[i] = tw[j]
  BY <1>0, TakeFirst
<1>2. ASSUME NEW f, NEW state \in Workers, Answers(l, f, state)
      PROVE  ~Busy(worker'[l]) /\ \A k \in Links \ {l} : worker'[k] = worker[k]
  <2>1. [state EXCEPT !.at = "serving"].at = "serving" /\ [Off EXCEPT !.at = "gone"].at = "gone"
    BY NothingTypes DEF Workers
  <2>2. \/ worker' = [worker EXCEPT ![l] = [state EXCEPT !.at = "serving"]]
        \/ worker' = [worker EXCEPT ![l] = [Off EXCEPT !.at = "gone"]]
    BY <1>2 DEF Answers
  <2> QED
    BY <1>0, <2>1, <2>2 DEF Busy
<1>3. ASSUME tw # <<>>, toWorker' = [toWorker EXCEPT ![l] = Tail(@)]
      PROVE  \A k \in Links : \A i \in DOMAIN toWorker'[k] :
               \E j \in DOMAIN toWorker[k] : toWorker'[k][i] = toWorker[k][j]
  BY <1>0, <1>1, <1>3, SMT
<1>4. CASE Pump(l)
  <2>1. worker' = worker
    BY <1>4 DEF Pump, PumpHello, PumpAck, PumpReply, PumpEnds, PumpFails
  <2>2. CASE PumpAck(l)
    <3> DEFINE f == Frame("hello_ack", 0, NoOrder)
    <3>1. f \in Frames /\ f.type = "hello_ack"
      BY NothingTypes DEF Frame, Frames, FrameTypes
    <3>2. toWorker' = [toWorker EXCEPT ![l] = Append(@, f)]
      BY <2>2 DEF PumpAck
    <3> HIDE DEF f
    <3>3. \A i \in DOMAIN Append(tw, f) :
            Append(tw, f)[i] = f \/ (i \in DOMAIN tw /\ Append(tw, f)[i] = tw[i])
      BY <1>0, <3>1, AddLast, SMT
    <3>4. \A k \in Links : toWorker'[k] = IF k = l THEN Append(tw, f) ELSE toWorker[k]
      BY <1>0, <3>2
    <3> QED
      BY <2>1, <3>1, <3>3, <3>4 DEF NothingNew
  <2>3. CASE ~PumpAck(l)
    <3>1. toWorker' = toWorker
      BY <1>4, <2>3 DEF Pump, PumpHello, PumpReply, PumpEnds, PumpFails, frameVars
    <3> QED
      BY <2>1, <3>1, StillNothingNew
  <2> QED
    BY <2>2, <2>3
<1>5. CASE Connect(l)
  <2>1. toWorker' = toWorker /\ worker' = [worker EXCEPT ![l].at = "hello"]
    BY <1>5 DEF Connect
  <2>2. \A k \in Links : IF k = l THEN worker'[k].at = "hello" ELSE worker'[k] = worker[k]
    BY <1>0, <2>1 DEF Workers
  <2> QED
    BY <2>1, <2>2 DEF NothingNew, Busy
<1>6. CASE Handshake(l)
  <2>1. /\ worker' = [worker EXCEPT ![l].at = IF request.id = 0 THEN "serving" ELSE "hello"]
        /\ tw # <<>> /\ toWorker' = [toWorker EXCEPT ![l] = Tail(@)]
    BY <1>6 DEF Handshake
  <2>2. \A k \in Links : IF k = l THEN worker'[k].at \in {"hello", "serving"} ELSE worker'[k] = worker[k]
    BY <1>0, <2>1 DEF Workers
  <2> QED
    BY <1>3, <2>1, <2>2 DEF NothingNew, Busy
<1>7. CASE ServePrepare(l) \/ ServeCancel(l)
  <2>1. request.order.path \in Places
    <3>1. tw # <<>>
      BY <1>7 DEF ServePrepare, ServeCancel, Takes
    <3>2. request \in Frames
      BY <1>0, <3>1, TakeFirst
    <3> QED
      BY <3>2 DEF Frames, Orders
  <2>2. [worker[l] EXCEPT !.opened = @ \cup {request.order.path}] \in Workers
    BY <1>0, <2>1 DEF Workers
  <2>3. \E f, state : state \in Workers /\ Answers(l, f, state)
    BY <1>0, <1>7, <2>2 DEF ServePrepare, ServeCancel
  <2>4. tw # <<>> /\ toWorker' = [toWorker EXCEPT ![l] = Tail(@)]
    BY <1>7 DEF ServePrepare, ServeCancel, Takes
  <2> QED
    BY <1>2, <1>3, <2>3, <2>4 DEF NothingNew
<1>8. CASE ServeStart(l)
  <2>1. tw # <<>> /\ toWorker' = [toWorker EXCEPT ![l] = Tail(@)] /\ request.type = "start"
    BY <1>8 DEF ServeStart, Takes
  <2>2. CASE Answers(l, [request EXCEPT !.type = "error"], worker[l])
    BY <1>0, <1>2, <1>3, <2>1, <2>2 DEF NothingNew
  <2>3. CASE worker' = [worker EXCEPT ![l].at = "running", ![l].id = request.id, ![l].order = request.order]
    <3>1. \A k \in Links : IF k = l THEN worker'[k].order = request.order ELSE worker'[k] = worker[k]
      BY <1>0, <2>3 DEF Workers
    <3> QED
      BY <1>1, <1>3, <2>1, <3>1, SMT DEF NothingNew
  <2> QED
    BY <1>8, <2>2, <2>3 DEF ServeStart
<1>9. CASE CompilerWrites(l)
  <2>1. toWorker' = toWorker /\ worker' = [worker EXCEPT ![l].at = "wrote"] /\ worker[l].at = "running"
    BY <1>9 DEF CompilerWrites, channelVars, frameVars
  <2>2. \A k \in Links : IF k = l THEN worker'[k].order = worker[k].order ELSE worker'[k] = worker[k]
    BY <1>0, <2>1 DEF Workers
  <2> QED
    BY <2>1, <2>2 DEF NothingNew, Busy
<1>10. CASE ServeReport(l)
  <2>1. [worker[l] EXCEPT !.id = 0, !.order = NoOrder] \in Workers
    BY <1>0, NothingTypes DEF Workers
  <2>2. ~Busy(worker'[l]) /\ \A k \in Links \ {l} : worker'[k] = worker[k]
    BY <1>2, <1>10, <2>1 DEF ServeReport
  <2>3. toWorker' = toWorker
    BY <1>10 DEF ServeReport
  <2> QED
    BY <2>2, <2>3 DEF NothingNew
<1>11. CASE WorkerEnds(l)
  <2>1. /\ worker' = [worker EXCEPT ![l] = [Off EXCEPT !.at = "gone"]]
        /\ toWorker' = [toWorker EXCEPT ![l] = <<>>]
    BY <1>11 DEF WorkerEnds
  <2>2. \A k \in Links : IF k = l THEN worker'[k].at = "gone" /\ toWorker'[k] = <<>>
                                   ELSE worker'[k] = worker[k] /\ toWorker'[k] = toWorker[k]
    BY <1>0, <2>1, NothingTypes DEF Workers
  <2> QED
    BY <2>2, SMT DEF NothingNew, Busy
<1> QED
  BY <1>4, <1>5, <1>6, <1>7, <1>8, <1>9, <1>10, <1>11 DEF Serve

\* The steps of a worker and of the pump keep the directories in order.
LEMMA WorkerDisk ==
  ASSUME RemoteInv, NEW l \in Links, Pump(l) \/ Connect(l) \/ Serve(l) \/ WorkerEnds(l)
  PROVE  DiskInv'
<1>1. thread' = thread
  BY DEF Pump, PumpHello, PumpAck, PumpReply, PumpEnds, PumpFails, Connect, Serve, Handshake, ServePrepare,
    ServeStart, CompilerWrites, ServeReport, ServeCancel, WorkerEnds
<1>2. \A p \in Phases : HoldsOn(p)
  BY <1>1 DEF HoldsOn
<1>3. Fades
  <2>1. CASE CompilerWrites(l)
    <3>1. Bound(worker[l].order, disk, generation, runs, thread)
      BY <2>1 DEF RemoteInv, DiskInv, CompilerWrites, Busy
    <3>2. worker[l].order.path \in Paths /\ worker[l].order.run \in 1..runs
          /\ MadeFor(disk[worker[l].order.path], worker[l].order.run)
      BY <3>1 DEF Bound
    <3>3. Write(worker[l].order.path, worker[l].order.run) /\ UNCHANGED <<live, generation, runs>>
      BY <2>1 DEF CompilerWrites, reserveVars
    <3> QED
      BY <3>2, <3>3, WriteFades
  <2>2. CASE ~CompilerWrites(l)
    <3>1. UNCHANGED <<disk, live, generation, runs>>
      BY <2>2 DEF Pump, PumpHello, PumpAck, PumpReply, PumpEnds, PumpFails, Connect, Serve, Handshake,
        ServePrepare, ServeStart, ServeReport, ServeCancel, WorkerEnds, workspaceVars, reserveVars
    <3> QED
      BY <3>1, SameDiskFades
  <2> QED
    BY <2>1, <2>2
<1> QED
  BY <1>2, <1>3, WorkerNothingNew, NothingNewBound, FadesKeeps

\* The steps of a request keep the directories in order: who asks for the start holds what it names.
LEMMA RequestDisk ==
  ASSUME RemoteInv, NEW r \in Requesters, Request(r)
  PROVE  DiskInv'
<1>0. /\ Types /\ thread[r] \in Threads /\ thread \in [Requesters -> Threads] /\ Connected /\ Phases \subseteq Requesters
      /\ toWorker \in [Links -> Seq(Frames)] /\ DiskInv
  BY DEF RemoteInv, ChannelInv, Channels, Types, Requesters
<1>1. UNCHANGED <<disk, live, generation, runs, worker>>
  BY DEF Request, Ask, Send, SendFails, Return, workspaceVars, reserveVars
<1>2. Fades
  BY <1>1, SameDiskFades
<1>3. Asking(r)
  BY DEF Request, Ask, Send, SendFails, Return, Moves, Asking
<1>4. \A p \in Phases : HoldsOn(p)
  <2> SUFFICES ASSUME NEW p \in Phases PROVE HoldsOn(p)
    OBVIOUS
  <2>1. ASSUME r = p, NEW pc \in {"failed", "ran"}, thread' = Back(p, pc) PROVE HoldsOn(p)
    <3>1. /\ thread'[p].pc = pc /\ thread'[p].order = thread[p].order /\ thread'[p].second = thread[p].second
      BY <1>0, <2>1 DEF Back, Threads
    <3> QED
      BY <1>3, <2>1, <3>1 DEF HoldsOn, Holds, Asking
  <2>2. ASSUME thread' = Refused(r) PROVE HoldsOn(p)
    <3>1. CASE r = p
      BY <2>1, <2>2, <3>1 DEF Refused
    <3>2. CASE r # p
      <4>1. thread'[p] = thread[p]
        BY <1>0, <2>2, <3>2 DEF Refused, Back
      <4> QED
        BY <4>1 DEF HoldsOn
    <3> QED
      BY <3>1, <3>2
  <2>3. ASSUME NEW q, r # p, thread' = Back(r, q) PROVE HoldsOn(p)
    <3>1. thread'[p] = thread[p]
      BY <1>0, <2>3 DEF Back
    <3> QED
      BY <3>1 DEF HoldsOn
  <2>4. ASSUME NEW pc \in {"send", "waiting", "ask"}, thread'[r].pc = pc,
               thread'[r].order = thread[r].order, thread'[r].second = thread[r].second,
               \A q \in Requesters \ {r} : thread'[q] = thread[q]
        PROVE  HoldsOn(p)
    BY <1>0, <1>3, <2>4 DEF HoldsOn, Holds, Asking
  <2>5. CASE (Ask(r) /\ ~Open(thread[r].link)) \/ SendFails(r)
    BY <2>2, <2>5 DEF Ask, SendFails
  <2>6. CASE Ask(r) /\ Open(thread[r].link)
    <3>1. thread'[r].pc = "send" /\ thread'[r].order = thread[r].order /\ thread'[r].second = thread[r].second
          /\ \A q \in Requesters \ {r} : thread'[q] = thread[q]
      BY <1>0, <2>6, SMT DEF Ask, Threads
    <3> QED
      BY <2>4, <3>1
  <2>7. CASE Send(r)
    <3>1. thread'[r].pc = "waiting" /\ thread'[r].order = thread[r].order /\ thread'[r].second = thread[r].second
          /\ \A q \in Requesters \ {r} : thread'[q] = thread[q]
      BY <1>0, <2>7 DEF Send, Moves, Threads
    <3> QED
      BY <2>4, <3>1
  <2>8. CASE Return(r)
    <3>1. CASE reply[r].type = "ready"
      <4>1. thread'[r].pc = "ask" /\ thread'[r].order = thread[r].order /\ thread'[r].second = thread[r].second
            /\ \A q \in Requesters \ {r} : thread'[q] = thread[q]
        BY <1>0, <2>8, <3>1 DEF Return, Threads
      <4> QED
        BY <2>4, <4>1
    <3>2. CASE reply[r].type # "ready"
      <4>1. thread' = Refused(r) \/ thread' = Back(r, "ran")
        BY <2>8, <3>2, Zenon DEF Return
      <4> QED
        BY <2>1, <2>2, <2>3, <4>1
    <3> QED
      BY <3>1, <3>2
  <2> QED
    BY <2>5, <2>6, <2>7, <2>8 DEF Request
<1>5. CASE Send(r)
  <2> DEFINE l == thread[r].link
             f == Frame(thread[r].step, thread[r].id, SentOrder(r))
  <2>1. l \in Links /\ toWorker[l] \in Seq(Frames)
    BY <1>0, <1>3 DEF Connected
  <2>2. f \in Frames /\ f.type = thread[r].step /\ f.order = SentOrder(r)
    BY <1>0, SentType DEF Frame, Frames, FrameTypes, Threads
  <2>3. toWorker' = [toWorker EXCEPT ![l] = Append(@, f)]
    BY <1>0, <1>5, SentType DEF Send, SentOrder, OrderSent
  <2> HIDE DEF f, l
  <2>4. f.type = "start" => Bound(f.order, disk, generation, runs, thread)
    <3> SUFFICES ASSUME f.type = "start" PROVE Bound(f.order, disk, generation, runs, thread)
      OBVIOUS
    <3>1. r \in Phases
      BY <1>0, <2>2 DEF Connected, Requesters
    <3>2. Holds(thread[r]) /\ ~Reserving(r)
      BY <1>3 DEF Asking, Holds, Reserving
    <3>3. Reservation(r) /\ f.order = Ordered(r)
      BY <1>0, <2>2, <3>1, <3>2, SentType DEF DiskInv
    <3>4. generation[r].now = generation[r].saved /\ generation[r].saved \in Nat
      BY <1>0, <1>3, <3>1 DEF DiskInv, Generations, Asking, Types
    <3>5. /\ Ordered(r).path \in Paths /\ Ordered(r).path.phase = r
          /\ Ordered(r).path.generation = thread[r].order.path.generation
          /\ Ordered(r).run = thread[r].order.run /\ Ordered(r).run \in 1..runs
          /\ Ordered(r).path = IF thread[r].second THEN Again(thread[r].order.path) ELSE thread[r].order.path
      BY <3>1, <3>2, HeldPath
    <3>6. MadeFor(disk[Ordered(r).path], Ordered(r).run) /\ Ordered(r).path.generation = generation[r].now
      BY <3>2, <3>3, <3>5 DEF Reservation
    <3> QED
      BY <3>3, <3>4, <3>5, <3>6, SMT DEF Bound
  <2>5. \A i \in DOMAIN Append(toWorker[l], f) :
          \/ Append(toWorker[l], f)[i] = f
          \/ i \in DOMAIN toWorker[l] /\ Append(toWorker[l], f)[i] = toWorker[l][i]
    BY <2>1, <2>2, AddLast, SMT
  <2>6. \A k \in Links : toWorker'[k] = IF k = l THEN Append(toWorker[l], f) ELSE toWorker[k]
    BY <1>0, <2>1, <2>3
  <2>7. \A k \in Links :
           /\ Busy(worker'[k]) => Bound(worker'[k].order, disk, generation, runs, thread)
           /\ \A i \in DOMAIN toWorker'[k] :
                toWorker'[k][i].type = "start" => Bound(toWorker'[k][i].order, disk, generation, runs, thread)
    <3>1. \A k \in Links :
           /\ Busy(worker[k]) => Bound(worker[k].order, disk, generation, runs, thread)
           /\ \A i \in DOMAIN toWorker[k] :
                toWorker[k][i].type = "start" => Bound(toWorker[k][i].order, disk, generation, runs, thread)
      BY <1>0 DEF DiskInv
    <3> QED
      BY <1>1, <2>1, <2>4, <2>5, <2>6, <3>1
  <2> QED
    BY <1>2, <1>4, <2>7, FadesKeeps
<1>6. CASE ~Send(r)
  <2>1. UNCHANGED <<toWorker, worker>>
    BY <1>6 DEF Request, Ask, SendFails, Return, channelVars, frameVars
  <2> QED
    BY <1>2, <1>4, <2>1, StillNothingNew, NothingNewBound, FadesKeeps
<1> QED
  BY <1>5, <1>6

\* A reservation stays as it is while nothing happens at the paths of its phase.
LEMMA OthersReservation ==
  ASSUME RemoteInv, NEW q \in Phases, Holds(thread[q]), thread'[q] = thread[q], generation'[q] = generation[q],
         1..runs \subseteq 1..runs',
         \A x \in Paths : x.phase = q => disk'[x] = disk[x] /\ (x \in live' => x \in live)
  PROVE  Reservation(q)'
<1>1. Reservation(q)
  BY DEF RemoteInv, DiskInv
<1>2. thread[q].order.path.phase = q
  BY <1>1 DEF Reservation
<1>3. /\ thread[q].order.path \in Paths /\ Again(thread[q].order.path) \in Paths
      /\ Again(thread[q].order.path).phase = q /\ Ordered(q).path \in Paths /\ Ordered(q).path.phase = q
  BY HeldPath
<1>4. /\ disk'[thread[q].order.path] = disk[thread[q].order.path]
      /\ disk'[Again(thread[q].order.path)] = disk[Again(thread[q].order.path)]
      /\ disk'[Ordered(q).path] = disk[Ordered(q).path]
      /\ Again(thread[q].order.path) \in live' => Again(thread[q].order.path) \in live
      /\ Ordered(q).path \in live' => Ordered(q).path \in live
  BY <1>2, <1>3
<1>5. Ordered(q)' = Ordered(q) /\ (Reserving(q)' <=> Reserving(q))
  BY DEF Ordered, Reserving
<1>6. thread[q].order.run \in 1..runs'
  BY <1>1 DEF Reservation
<1> QED
  BY <1>1, <1>4, <1>5, <1>6 DEF Reservation

\* A reservation begins: its directory has a path that nothing bound names, since its generation
\* was not saved.
LEMMA ReserveDisk ==
  ASSUME RemoteInv, NEW p \in Phases, Reserve(p)
  PROVE  DiskInv'
<1> DEFINE label == IF thread[p].pc = "failed" THEN "retry" ELSE "first"
           path == [phase |-> p, generation |-> generation[p].now + 1, label |-> label]
           order == [path |-> path, run |-> runs + 1]
           new == [Resting EXCEPT !.pc = "marking", !.order = order]
           made == [Absent EXCEPT !.state = "bare", !.owner = runs + 1]
<1>0. /\ Types /\ DiskInv /\ Phases \subseteq Requesters /\ p \in Requesters /\ runs \in Nat /\ MaxGeneration \in Nat
      /\ thread \in [Requesters -> Threads] /\ disk \in [Paths -> Directories] /\ generation[p].now \in Nat
      /\ generation \in [Phases -> [now : Nat, saved : Nat]] /\ live \subseteq Paths
  BY RemoteAssumption DEF RemoteInv, ChannelInv, Types, Requesters
<1>1. /\ thread[p].pc \in {"idle", "failed"} /\ generation[p].now < MaxGeneration
      /\ runs' = runs + 1 /\ disk' = [disk EXCEPT ![path] = made]
      /\ thread' = [thread EXCEPT ![p] = new]
      /\ UNCHANGED <<live, generation, toWorker, worker>>
  BY DEF Reserve, MoveAside, channelVars, frameVars
<1>2. path \in Paths /\ path.phase = p /\ path.generation = generation[p].now + 1 /\ path.label # "repro"
      /\ order.path = path /\ order.run = runs + 1
  BY <1>0, <1>1, SMT DEF Paths, Labels
<1>3. new.pc = "marking" /\ new.order = order /\ ~new.second
  BY DEF Resting
<1>4. made.state = "bare" /\ made.owner = runs + 1 /\ made.writers = {} /\ made.session_generation = 0
  BY DEF Absent
<1> HIDE DEF path, order, new, made
<1>5. /\ thread'[p] = new /\ \A q \in Phases : q # p => thread'[q] = thread[q]
      /\ disk'[path] = made /\ \A x \in Paths : x # path => disk'[x] = disk[x]
  BY <1>0, <1>1, <1>2
<1>6. generation[p].now = generation[p].saved
      /\ \A x \in live : x.phase = p => x.generation <= generation[p].now
  BY <1>0, <1>1 DEF DiskInv, Generations
<1>7. \A x \in Paths : Directory(disk'[x], runs')
  <2> SUFFICES ASSUME NEW x \in Paths PROVE Directory(disk'[x], runs + 1)
    BY <1>1
  <2>1. CASE x = path
    BY <1>0, <1>4, <1>5, <2>1, SMT DEF Directory
  <2>2. CASE x # path
    <3>1. Directory(disk[x], runs) /\ disk'[x] = disk[x] /\ disk[x].owner \in Nat
      BY <1>0, <1>5, <2>2 DEF DiskInv, Directories
    <3>2. 1..runs \subseteq 1..(runs + 1) /\ disk[x].owner <= runs + 1
      BY <1>0, <3>1, SMT DEF Directory
    <3> QED
      BY <3>1, <3>2 DEF Directory
  <2> QED
    BY <2>1, <2>2
<1>8. Generations'
  BY <1>0, <1>1, <1>3, <1>5 DEF DiskInv, Generations
<1>9. ASSUME NEW q \in Phases, Holds(thread'[q]) PROVE Reservation(q)'
  <2>1. CASE q = p
    <3>1. Ordered(p)'.path = path /\ Reserving(p)'
      BY <1>2, <1>3, <1>5 DEF Ordered, Reserving
    <3>2. Again(path) \in Paths /\ Again(path).phase = p /\ Again(path).generation = generation[p].now + 1
      BY <1>2 DEF Again, Paths, Labels
    <3>3. path \notin live /\ Again(path) \notin live
      BY <1>0, <1>2, <1>6, <3>2, SMT
    <3>4. order.run \in 1..runs'
      BY <1>0, <1>1, <1>2, SMT
    <3>5. MadeFor(disk'[path], order.run) /\ disk'[path].state # "absent"
      BY <1>2, <1>4, <1>5 DEF MadeFor
    <3> QED
      BY <1>1, <1>2, <1>3, <1>5, <2>1, <3>1, <3>3, <3>4, <3>5, SMT DEF Reservation
  <2>2. CASE q # p
    <3>1. thread'[q] = thread[q] /\ Holds(thread[q])
      BY <1>5, <1>9, <2>2
    <3>2. \A x \in Paths : x.phase = q => disk'[x] = disk[x] /\ (x \in live' => x \in live)
      BY <1>1, <1>2, <1>5, <2>2
    <3>3. generation'[q] = generation[q] /\ 1..runs \subseteq 1..runs'
      BY <1>0, <1>1, SMT
    <3> QED
      BY <3>1, <3>2, <3>3, OthersReservation
  <2> QED
    BY <2>1, <2>2
<1>10. ASSUME NEW o, Bound(o, disk, generation, runs, thread) PROVE Bound(o, disk', generation', runs', thread')
  <2>1. /\ o.path \in Paths /\ o.path.phase \in Phases /\ o.run \in 1..runs
        /\ o.path.generation <= generation[o.path.phase].saved /\ MadeFor(disk[o.path], o.run)
        /\ o.path.generation \in Nat
    BY <1>10, SMT DEF Bound, Paths
  <2>2. o.path # path /\ o.run \in 1..runs'
    BY <1>0, <1>1, <1>2, <1>6, <2>1, SMT
  <2>3. o.path.phase = p => thread'[p].order.path.generation # o.path.generation
    BY <1>0, <1>2, <1>3, <1>5, <1>6, <2>1, SMT
  <2>4. o.path.phase # p => thread'[o.path.phase] = thread[o.path.phase]
    BY <1>5, <2>1
  <2> QED
    BY <1>1, <1>5, <1>10, <2>1, <2>2, <2>3, <2>4 DEF Bound
<1> QED
  BY <1>0, <1>1, <1>7, <1>8, <1>9, <1>10 DEF DiskInv

\* The marker is written: the directory becomes the manager's, and stays that of its run.
LEMMA WriteMarkerDisk ==
  ASSUME RemoteInv, NEW p \in Phases, WriteMarker(p)
  PROVE  DiskInv'
<1> DEFINE path == Ordered(p).path
           mark == MarkedAs(p)
           pc == IF thread[p].second THEN "reserved" ELSE "reserving"
<1>0. /\ Types /\ DiskInv /\ Phases \subseteq Requesters /\ p \in Requesters /\ runs \in Nat /\ MaxGeneration \in Nat
      /\ thread \in [Requesters -> Threads] /\ disk \in [Paths -> Directories] /\ generation[p].now \in Nat
      /\ generation \in [Phases -> [now : Nat, saved : Nat]] /\ live \subseteq Paths
  BY RemoteAssumption DEF RemoteInv, ChannelInv, Types, Requesters
<1>1. /\ thread[p].pc = "marking" /\ thread' = [thread EXCEPT ![p].pc = pc]
      /\ disk' = [disk EXCEPT ![path].state = "marked", ![path].session_generation = mark]
      /\ live' = live \cup {path}
      /\ UNCHANGED <<generation, runs, toWorker, worker>>
  BY DEF WriteMarker, Mark, Moves, channelVars, frameVars, reserveVars
<1>2. Holds(thread[p]) /\ Reservation(p)
  BY <1>0, <1>1 DEF Holds, DiskInv
<1>3. /\ path \in Paths /\ path.phase = p /\ path.generation = thread[p].order.path.generation
      /\ path = IF thread[p].second THEN Again(thread[p].order.path) ELSE thread[p].order.path
      /\ Again(thread[p].order.path).label = "repro" /\ thread[p].order.path.label # "repro"
      /\ Again(thread[p].order.path) \in Paths /\ thread[p].order.path \in Paths
  BY <1>2, HeldPath DEF Reservation
<1>4. mark \in Nat /\ mark <= MaxGeneration
  <2>1. path.generation \in 1..MaxGeneration
    BY <1>3 DEF Paths
  <2> QED
    BY <1>0, <2>1, SMT DEF MarkedAs
<1>5. disk[path].state # "absent"
  BY <1>1, <1>2 DEF Reservation
<1> HIDE DEF path, mark
<1>6. /\ thread'[p].pc = pc /\ thread'[p].order = thread[p].order /\ thread'[p].second = thread[p].second
      /\ Holds(thread'[p])
  BY <1>0, <1>1 DEF Threads, Holds
<1>7. \A q \in Phases : q # p => thread'[q] = thread[q]
  BY <1>0, <1>1
<1>8. /\ disk'[path].state = "marked" /\ disk'[path].session_generation = mark
      /\ disk'[path].owner = disk[path].owner /\ disk'[path].writers = disk[path].writers
      /\ \A x \in Paths : x # path => disk'[x] = disk[x]
  BY <1>0, <1>1, <1>3 DEF Directories
<1>9. \A x \in Paths : Directory(disk'[x], runs')
  <2> SUFFICES ASSUME NEW x \in Paths PROVE Directory(disk'[x], runs)
    BY <1>1
  <2>1. Directory(disk[x], runs)
    BY <1>0 DEF DiskInv
  <2>2. CASE x = path
    BY <1>4, <1>8, <2>1, <2>2 DEF Directory
  <2>3. CASE x # path
    BY <1>8, <2>1, <2>3
  <2> QED
    BY <2>2, <2>3
<1>10. \A x \in Paths : \A run : MadeFor(disk[x], run) => MadeFor(disk'[x], run)
  BY <1>5, <1>8 DEF MadeFor
<1>11. path.generation = IF thread[p].second THEN generation[p].now ELSE generation[p].now + 1
  BY <1>1, <1>2, <1>3 DEF Reservation, Reserving
<1>12. Generations'
  <2> SUFFICES ASSUME NEW q \in Phases
               PROVE  /\ generation[q].now <= MaxGeneration
                      /\ IF thread'[q].pc = "stuck" THEN generation[q].now = generation[q].saved + 1
                                                    ELSE generation[q].now = generation[q].saved
                      /\ \A x \in live' : x.phase = q =>
                           x.generation <= IF thread'[q].pc = "reserving" THEN generation[q].now + 1 ELSE generation[q].now
    BY <1>1 DEF Generations
  <2>1. /\ generation[q].now <= MaxGeneration
        /\ IF thread[q].pc = "stuck" THEN generation[q].now = generation[q].saved + 1
                                      ELSE generation[q].now = generation[q].saved
        /\ \A x \in live : x.phase = q =>
             x.generation <= IF thread[q].pc = "reserving" THEN generation[q].now + 1 ELSE generation[q].now
    BY <1>0 DEF DiskInv, Generations
  <2>2. CASE q # p
    BY <1>1, <1>3, <1>7, <2>1, <2>2
  <2>3. CASE q = p
    <3>1. \A x \in live : x.phase = p => x.generation \in Nat /\ x.generation <= generation[p].now
      BY <1>0, <1>1, <2>1, <2>3, SMT DEF Paths
    <3>2. \A x \in live' : x.phase = p =>
             x.generation <= IF pc = "reserving" THEN generation[p].now + 1 ELSE generation[p].now
      BY <1>0, <1>1, <1>11, <3>1, SMT
    <3> QED
      BY <1>1, <1>6, <2>1, <2>3, <3>2, SMT
  <2> QED
    BY <2>2, <2>3
<1>13. ASSUME NEW q \in Phases, Holds(thread'[q]) PROVE Reservation(q)'
  <2>1. CASE q = p
    <3>1. Reserving(p)' <=> Reserving(p)
      BY <1>1, <1>6 DEF Reserving
    <3>2. ~thread[p].second => Again(thread[p].order.path) \notin live'
      BY <1>1, <1>2, <1>3 DEF Reservation
    <3>3. thread[p].second => MadeFor(disk'[Again(thread[p].order.path)], thread[p].order.run)
      BY <1>2, <1>3, <1>10 DEF Reservation
    <3>4. MadeFor(disk'[thread[p].order.path], thread[p].order.run)
      BY <1>2, <1>3, <1>10 DEF Reservation
    <3>5. thread'[p].pc # "marking" /\ (thread'[p].pc = "reserving" => ~thread[p].second)
      BY <1>6
    <3> QED
      BY <1>1, <1>2, <1>6, <2>1, <3>1, <3>2, <3>3, <3>4, <3>5 DEF Reservation
  <2>2. CASE q # p
    <3>1. thread'[q] = thread[q] /\ Holds(thread[q])
      BY <1>7, <1>13, <2>2
    <3>2. \A x \in Paths : x.phase = q => disk'[x] = disk[x] /\ (x \in live' => x \in live)
      BY <1>1, <1>3, <1>8, <2>2
    <3> QED
      BY <1>1, <3>1, <3>2, OthersReservation
  <2> QED
    BY <2>1, <2>2
<1>14. ASSUME NEW o, Bound(o, disk, generation, runs, thread) PROVE Bound(o, disk', generation', runs', thread')
  <2>1. o.path \in Paths /\ o.path.phase \in Phases /\ MadeFor(disk'[o.path], o.run)
    BY <1>10, <1>14 DEF Bound, Paths
  <2>2. /\ thread'[o.path.phase].order = thread[o.path.phase].order
        /\ Holds(thread'[o.path.phase]) => Holds(thread[o.path.phase])
    BY <1>2, <1>6, <1>7, <2>1
  <2> QED
    BY <1>1, <1>14, <2>1, <2>2 DEF Bound
<1> QED
  BY <1>0, <1>1, <1>9, <1>12, <1>13, <1>14 DEF DiskInv

\* The generation is saved, or its record fails to be: the reservation holds it, or is given up.
LEMMA PersistDisk ==
  ASSUME RemoteInv, NEW p \in Phases, Persist(p) \/ PersistFails(p)
  PROVE  DiskInv'
<1> DEFINE g == generation[p]
<1>0. /\ Types /\ DiskInv /\ Phases \subseteq Requesters /\ p \in Requesters /\ MaxGeneration \in Nat
      /\ thread \in [Requesters -> Threads] /\ g.now \in Nat /\ g.saved \in Nat
      /\ generation \in [Phases -> [now : Nat, saved : Nat]] /\ live \subseteq Paths
  BY RemoteAssumption DEF RemoteInv, ChannelInv, Types, Requesters
<1>1. /\ thread[p].pc = "reserving" /\ UNCHANGED <<disk, live, runs, toWorker, worker>>
      /\ \/ /\ thread' = [thread EXCEPT ![p].pc = "reserved"]
            /\ generation' = [generation EXCEPT ![p] = [now |-> @.now + 1, saved |-> @.now + 1]]
         \/ /\ thread' = [thread EXCEPT ![p].pc = "stuck"]
            /\ generation' = [generation EXCEPT ![p].now = @ + 1]
  BY DEF Persist, PersistFails, Saved, Moves, channelVars, frameVars, workspaceVars
<1>2. Holds(thread[p]) /\ Reservation(p)
  BY <1>0, <1>1 DEF Holds, DiskInv
<1>3. /\ ~thread[p].second /\ Reserving(p) /\ thread[p].order.path \in Paths
      /\ thread[p].order.path.generation = g.now + 1
  BY <1>1, <1>2 DEF Reservation, Reserving
<1>4. g.now = g.saved /\ g.now + 1 <= MaxGeneration
      /\ \A x \in live : x.phase = p => x.generation <= g.now + 1
  <2>1. thread[p].order.path.generation \in 1..MaxGeneration
    BY <1>3 DEF Paths
  <2> QED
    BY <1>0, <1>1, <1>3, <2>1, SMT DEF DiskInv, Generations
<1>5. /\ thread'[p].order = thread[p].order /\ thread'[p].second = thread[p].second
      /\ thread'[p].pc \in {"reserved", "stuck"}
      /\ generation'[p].now = g.now + 1
      /\ generation'[p].saved = IF thread'[p].pc = "stuck" THEN g.saved ELSE g.now + 1
  BY <1>0, <1>1, SMT DEF Threads
<1>6. \A q \in Phases : q # p => thread'[q] = thread[q] /\ generation'[q] = generation[q]
  BY <1>0, <1>1
<1>7. Generations'
  <2> SUFFICES ASSUME NEW q \in Phases
               PROVE  /\ generation'[q].now <= MaxGeneration
                      /\ IF thread'[q].pc = "stuck" THEN generation'[q].now = generation'[q].saved + 1
                                                    ELSE generation'[q].now = generation'[q].saved
                      /\ \A x \in live : x.phase = q =>
                           x.generation <= IF thread'[q].pc = "reserving" THEN generation'[q].now + 1 ELSE generation'[q].now
    BY <1>1 DEF Generations
  <2>1. CASE q # p
    BY <1>0, <1>6, <2>1 DEF DiskInv, Generations
  <2>2. CASE q = p
    BY <1>0, <1>4, <1>5, <2>2
  <2> QED
    BY <2>1, <2>2
<1>8. ASSUME NEW q \in Phases, Holds(thread'[q]) PROVE Reservation(q)'
  <2>1. CASE q = p
    <3>1. thread'[p].pc = "reserved" /\ ~Reserving(p)'
      BY <1>5, <1>8, <2>1 DEF Holds, Reserving
    <3> QED
      BY <1>1, <1>2, <1>3, <1>5, <2>1, <3>1 DEF Reservation
  <2>2. CASE q # p
    BY <1>1, <1>6, <1>8, <2>2, OthersReservation
  <2> QED
    BY <2>1, <2>2
<1>9. ASSUME NEW o, Bound(o, disk, generation, runs, thread) PROVE Bound(o, disk', generation', runs', thread')
  <2>1. o.path \in Paths /\ o.path.phase \in Phases /\ o.path.generation \in Nat
        /\ o.path.generation <= generation[o.path.phase].saved
    BY <1>9, SMT DEF Bound, Paths
  <2>2. o.path.generation <= generation'[o.path.phase].saved
    BY <1>0, <1>4, <1>5, <1>6, <2>1, SMT
  <2>3. /\ thread'[o.path.phase].order = thread[o.path.phase].order
        /\ Holds(thread'[o.path.phase]) => Holds(thread[o.path.phase])
    BY <1>2, <1>5, <1>6, <2>1
  <2> QED
    BY <1>1, <1>9, <2>2, <2>3 DEF Bound
<1> QED
  BY <1>0, <1>1, <1>7, <1>8, <1>9 DEF DiskInv

\* A second run gets a directory of its own: whatever was bound to that path is of the same run.
LEMMA SecondDisk ==
  ASSUME RemoteInv, NEW p \in Phases, thread[p].pc = "ran", ~thread[p].second,
         thread' = [thread EXCEPT ![p].pc = "marking", ![p].second = TRUE],
         disk' = MoveAside(Again(thread[p].order.path), thread[p].order.run),
         UNCHANGED <<live, generation, runs, toWorker, worker>>
  PROVE  DiskInv'
<1> DEFINE order == thread[p].order
           again == Again(order.path)
           made == [Absent EXCEPT !.state = "bare", !.owner = order.run]
<1>0. /\ Types /\ DiskInv /\ Phases \subseteq Requesters /\ p \in Requesters /\ runs \in Nat /\ MaxGeneration \in Nat
      /\ thread \in [Requesters -> Threads] /\ disk \in [Paths -> Directories]
  BY RemoteAssumption DEF RemoteInv, ChannelInv, Types, Requesters
<1>1. Holds(thread[p]) /\ Reservation(p)
  BY <1>0 DEF Holds, DiskInv
<1>2. /\ again \in Paths /\ again.phase = p /\ again.generation = order.path.generation
      /\ again.label = "repro" /\ order.path.label # "repro" /\ order.path \in Paths /\ order.run \in 1..runs
      /\ again \notin live
  BY <1>1, HeldPath DEF Reservation
<1>3. disk' = [disk EXCEPT ![again] = made]
  BY DEF MoveAside
<1>4. made.state = "bare" /\ made.owner = order.run /\ made.writers = {} /\ made.session_generation = 0
  BY DEF Absent
<1>5. /\ thread'[p].pc = "marking" /\ thread'[p].second /\ thread'[p].order = order
      /\ \A q \in Phases : q # p => thread'[q] = thread[q]
  BY <1>0 DEF Threads
<1> HIDE DEF made, again, order
<1>6. disk'[again] = made /\ \A x \in Paths : x # again => disk'[x] = disk[x]
  BY <1>0, <1>2, <1>3
<1>7. \A x \in Paths : Directory(disk'[x], runs')
  <2> SUFFICES ASSUME NEW x \in Paths PROVE Directory(disk'[x], runs)
    OBVIOUS
  <2>1. CASE x = again
    BY <1>0, <1>2, <1>4, <1>6, <2>1, SMT DEF Directory
  <2>2. CASE x # again
    BY <1>0, <1>6, <2>2 DEF DiskInv
  <2> QED
    BY <2>1, <2>2
<1>8. Generations'
  BY <1>0, <1>5 DEF DiskInv, Generations
<1>9. ASSUME NEW q \in Phases, Holds(thread'[q]) PROVE Reservation(q)'
  <2>1. CASE q = p
    <3>1. ~Reserving(p) /\ ~Reserving(p)'
      BY <1>5 DEF Reserving
    <3>2. order \in Orders
      BY <1>0 DEF Threads, order
    <3>3. Ordered(p)' = [order EXCEPT !.path.label = "repro"]
      BY <1>5 DEF Ordered
    <3>4. Ordered(p)'.path = again
      BY <3>2, <3>3 DEF Orders, Again, again
    <3>5. disk'[order.path] = disk[order.path]
      BY <1>2, <1>6
    <3>6. MadeFor(disk'[again], order.run) /\ disk'[again].state # "absent"
      BY <1>4, <1>6 DEF MadeFor
    <3> QED
      BY <1>1, <1>2, <1>5, <2>1, <3>1, <3>4, <3>5, <3>6 DEF Reservation, order, again
  <2>2. CASE q # p
    <3>1. \A x \in Paths : x.phase = q => disk'[x] = disk[x] /\ (x \in live' => x \in live)
      BY <1>2, <1>6, <2>2
    <3> QED
      BY <1>5, <1>9, <2>2, <3>1, OthersReservation
  <2> QED
    BY <2>1, <2>2
<1>10. ASSUME NEW o, Bound(o, disk, generation, runs, thread) PROVE Bound(o, disk', generation', runs', thread')
  <2>1. o.path \in Paths /\ o.path.phase \in Phases
    BY <1>10 DEF Bound, Paths
  <2>2. o.path = again => o.run = order.run
    BY <1>1, <1>2, <1>10 DEF Bound, order
  <2>3. MadeFor(disk'[o.path], o.run)
    BY <1>4, <1>6, <1>10, <2>1, <2>2 DEF Bound, MadeFor
  <2>4. /\ thread'[o.path.phase].order = thread[o.path.phase].order
        /\ Holds(thread'[o.path.phase]) => Holds(thread[o.path.phase])
    BY <1>1, <1>5, <2>1 DEF order
  <2> QED
    BY <1>10, <2>1, <2>3, <2>4 DEF Bound
<1> QED
  BY <1>0, <1>7, <1>8, <1>9, <1>10 DEF DiskInv

\* The workers and the queues stand still, no directory is made and no reservation begins.
LEMMA QuietKeeps ==
  ASSUME RemoteInv, Fades, UNCHANGED <<toWorker, worker>>, \A p \in Phases : HoldsOn(p)
  PROVE  DiskInv'
BY StillNothingNew, NothingNewBound, FadesKeeps

\* Only the thread of p moves, to another place with its reservation, or without.
LEMMA MovesHoldOn ==
  ASSUME RemoteInv, NEW p \in Phases, NEW pc, thread' = [thread EXCEPT ![p].pc = pc],
         \/ thread[p].pc \in {"reserved", "local", "ran"} /\ pc \in {"ran", "failed", "committed"}
         \/ thread[p].pc = "marking" /\ pc \in {"failed", "idle"}
  PROVE  \A q \in Phases : HoldsOn(q)
<1>0. Phases \subseteq Requesters /\ thread \in [Requesters -> Threads]
  BY DEF RemoteInv, ChannelInv, Types, Requesters
<1>1. \A q \in Phases : q # p => thread'[q] = thread[q]
  BY <1>0
<1>2. thread'[p].pc = pc /\ thread'[p].order = thread[p].order /\ thread'[p].second = thread[p].second
  BY <1>0 DEF Threads
<1>3. HoldsOn(p)
  BY <1>2 DEF HoldsOn, Holds
<1> QED
  BY <1>1, <1>3 DEF HoldsOn

\* The steps of a phase keep what is known of the disk.
LEMMA PhaseDisk ==
  ASSUME RemoteInv, NEW p \in Phases, Phase(p)
  PROVE  DiskInv'
<1>0. /\ Types /\ Phases \subseteq Requesters /\ p \in Requesters /\ thread \in [Requesters -> Threads]
      /\ "cancel" \notin Phases
  BY RemoteAssumption DEF RemoteInv, ChannelInv, Types, Requesters
<1>1. CASE Reserve(p)
  BY <1>1, ReserveDisk
<1>2. CASE WriteMarker(p)
  BY <1>2, WriteMarkerDisk
<1>3. CASE Persist(p) \/ PersistFails(p)
  BY <1>3, PersistDisk
<1>4. CASE MarkerFails(p)
  <2>1. UNCHANGED <<disk, live, generation, runs, toWorker, worker>>
    BY <1>4 DEF MarkerFails, workspaceVars, reserveVars, channelVars, frameVars
  <2>2. \A q \in Phases : HoldsOn(q)
    BY <1>4, MovesHoldOn DEF MarkerFails, Moves
  <2> QED
    BY <2>1, <2>2, SameDiskFades, QuietKeeps
<1>5. CASE Dispatch(p)
  <2>1. UNCHANGED <<disk, live, generation, runs, toWorker, worker>>
    BY <1>5 DEF Dispatch, workspaceVars, reserveVars, channelVars, frameVars
  <2>2. PICK pc \in {"ask", "local"} :
          thread' = [thread EXCEPT ![p].pc = pc, ![p].step = "prepare", ![p].link = adopted]
    BY <1>5 DEF Dispatch
  <2>3. thread'[p].pc = pc /\ thread'[p].order = thread[p].order /\ thread'[p].second = thread[p].second
        /\ \A q \in Phases : q # p => thread'[q] = thread[q]
    BY <1>0, <2>2 DEF Threads
  <2>4. HoldsOn(p)
    BY <1>5, <2>3 DEF HoldsOn, Holds, Dispatch
  <2>5. \A q \in Phases : HoldsOn(q)
    BY <2>3, <2>4 DEF HoldsOn
  <2> QED
    BY <2>1, <2>5, SameDiskFades, QuietKeeps
<1>6. CASE RunLocally(p)
  <2>1. UNCHANGED <<live, generation, runs, toWorker, worker>>
    BY <1>6 DEF RunLocally, reserveVars, channelVars, frameVars
  <2>2. \A q \in Phases : HoldsOn(q)
    BY <1>6, MovesHoldOn DEF RunLocally, Moves
  <2>3. CASE UNCHANGED disk
    BY <2>1, <2>2, <2>3, SameDiskFades, QuietKeeps
  <2>4. CASE thread[p].pc = "local" /\ Write(Ordered(p).path, Ordered(p).run)
    <3>1. Holds(thread[p])
      BY <2>4 DEF Holds
    <3>2. Reservation(p)
      BY <3>1 DEF RemoteInv, DiskInv
    <3>3. Ordered(p).path \in Paths /\ Ordered(p).run \in 1..runs /\ MadeFor(disk[Ordered(p).path], Ordered(p).run)
      BY <3>1, <3>2, HeldPath DEF Reservation
    <3> QED
      BY <2>1, <2>2, <2>4, <3>3, WriteFades, QuietKeeps
  <2> QED
    BY <1>6, <2>3, <2>4 DEF RunLocally, Moves
<1>7. CASE Conclude(p)
  <2>1. thread[p].pc = "ran" /\ UNCHANGED <<live, generation, runs, toWorker, worker>>
    BY <1>7 DEF Conclude, reserveVars, channelVars, frameVars
  <2>2. CASE UNCHANGED disk /\ \E pc \in {"failed", "committed"} : thread' = [thread EXCEPT ![p].pc = pc]
    <3>1. \A q \in Phases : HoldsOn(q)
      BY <2>1, <2>2, MovesHoldOn
    <3> QED
      BY <2>1, <2>2, <3>1, SameDiskFades, QuietKeeps
  <2>3. CASE /\ ~thread[p].second
             /\ thread' = [thread EXCEPT ![p].pc = "marking", ![p].second = TRUE]
             /\ disk' = MoveAside(Again(thread[p].order.path), thread[p].order.run)
    BY <2>1, <2>3, SecondDisk
  <2> QED
    BY <1>7, <2>2, <2>3 DEF Conclude, Again
<1>8. CASE Retire(p)
  <2>1. UNCHANGED <<disk, live, generation, runs, toWorker, worker, thread>>
    BY <1>8 DEF Retire, workspaceVars, channelVars, frameVars
  <2> QED
    BY <2>1, SameDiskFades, QuietKeeps DEF HoldsOn
<1>9. CASE Cancel(p)
  <2>1. UNCHANGED <<disk, live, generation, runs, toWorker, worker>>
    BY <1>9 DEF Cancel, workspaceVars, channelVars, frameVars
  <2>2. \A q \in Phases : thread'[q] = thread[q]
    BY <1>0, <1>9 DEF Cancel
  <2> QED
    BY <2>1, <2>2, SameDiskFades, QuietKeeps DEF HoldsOn
<1> QED
  BY <1>1, <1>2, <1>3, <1>4, <1>5, <1>6, <1>7, <1>8, <1>9 DEF Phase

\* The removal after a retirement keeps it.
LEMMA CleanupDisk ==
  ASSUME RemoteInv, Cleanup
  PROVE  DiskInv'
<1>1. cleanup_all(InUse) /\ UNCHANGED <<generation, runs, thread, toWorker, worker>>
  BY DEF Cleanup, channelVars, frameVars
<1>2. Fades
  BY <1>1, CleanupFades DEF Fades
<1> QED
  BY <1>1, <1>2, QuietKeeps DEF HoldsOn

\* After a stop nobody holds a reservation, and what the workers do was saved.
LEMMA StopDisk ==
  ASSUME RemoteInv, NEW clean \in BOOLEAN, Stop(clean)
  PROVE  DiskInv'
<1>0. /\ Types /\ DiskInv /\ Phases \subseteq Requesters /\ MaxGeneration \in Nat
      /\ thread \in [Requesters -> Threads] /\ generation \in [Phases -> [now : Nat, saved : Nat]]
  BY RemoteAssumption DEF RemoteInv, ChannelInv, Types, Requesters
<1>1. /\ UNCHANGED <<runs, toWorker, worker>>
      /\ generation' = [p \in Phases |-> [generation[p] EXCEPT !.now = generation[p].saved]]
      /\ thread' = [r \in Requesters |-> IF r \in Phases THEN Restored(r) ELSE Resting]
      /\ IF clean THEN cleanup_all(InUse) ELSE live' = {} /\ UNCHANGED disk
  BY DEF Stop, frameVars
<1>2. live' = {}
  BY <1>1 DEF cleanup_all
<1>3. \A q \in Paths : /\ Directory(disk'[q], runs)
                       /\ disk'[q].state # "absent" => disk[q].state # "absent" /\ disk'[q].owner = disk[q].owner
  <2>1. CASE clean
    BY <1>1, <2>1, CleanupFades
  <2>2. CASE ~clean
    BY <1>0, <1>1, <2>2 DEF DiskInv
  <2> QED
    BY <2>1, <2>2
<1>4. \A p \in Phases : ~Holds(thread'[p]) /\ thread'[p].pc # "stuck"
  <2> SUFFICES ASSUME NEW p \in Phases PROVE ~Holds(thread'[p]) /\ thread'[p].pc # "stuck"
    OBVIOUS
  <2>1. thread'[p] = Restored(p)
    BY <1>0, <1>1
  <2> QED
    BY <2>1 DEF Restored, Resting, Holds
<1>5. \A p \in Phases : generation'[p].now = generation[p].saved /\ generation'[p].saved = generation[p].saved
  BY <1>0, <1>1
<1>6. \A p \in Phases : generation[p].saved <= MaxGeneration
  <2> SUFFICES ASSUME NEW p \in Phases PROVE generation[p].saved <= MaxGeneration
    OBVIOUS
  <2>1. generation[p].now \in Nat /\ generation[p].saved \in Nat
    BY <1>0
  <2> QED
    BY <1>0, <2>1, SMT DEF DiskInv, Generations
<1>7. Generations'
  BY <1>2, <1>4, <1>5, <1>6 DEF Generations
<1>8. ASSUME NEW o, Bound(o, disk, generation, runs, thread) PROVE Bound(o, disk', generation', runs', thread')
  <2>1. o.path \in Paths /\ o.path.phase \in Phases
    BY <1>8 DEF Bound, Paths
  <2>2. MadeFor(disk'[o.path], o.run)
    BY <1>3, <1>8, <2>1 DEF Bound, MadeFor
  <2> QED
    BY <1>1, <1>4, <1>5, <1>8, <2>1, <2>2 DEF Bound
<1> QED
  BY <1>0, <1>1, <1>3, <1>4, <1>7, <1>8 DEF DiskInv

\* The first disk is empty.
LEMMA InitDisk == Init => DiskInv
<1> SUFFICES ASSUME Init PROVE DiskInv
  OBVIOUS
<1>1. \A path \in Paths : disk[path] = Absent
  BY DEF Init, WorkspacesInit
<1>2. live = {} /\ runs = 0 /\ \A p \in Phases : generation[p].now = 0 /\ generation[p].saved = 0
  BY DEF Init, WorkspacesInit
<1>3. \A p \in Phases : thread[p].pc = "idle"
  BY DEF Init, Resting, Requesters
<1>4. \A l \in Links : toWorker[l] = <<>> /\ worker[l].at = "off"
  BY DEF Init, Off
<1>5. \A path \in Paths : Directory(disk[path], runs)
  BY <1>1, <1>2, RemoteAssumption, SMT DEF Directory, Absent
<1>6. Generations
  BY <1>2, <1>3, RemoteAssumption, SMT DEF Generations
<1>7. \A p \in Phases : ~Holds(thread[p])
  BY <1>3 DEF Holds
<1>8. \A l \in Links : ~Busy(worker[l]) /\ DOMAIN toWorker[l] = {}
  BY <1>4, SMT DEF Busy
<1> QED
  BY <1>5, <1>6, <1>7, <1>8 DEF DiskInv

\* Every step keeps what is known of the disk.
LEMMA DiskStep ==
  ASSUME RemoteInv, [Next]_vars
  PROVE  DiskInv'
<1>1. CASE UNCHANGED vars
  <2>1. UNCHANGED <<disk, live, generation, runs, toWorker, worker, thread>>
    BY <1>1 DEF vars, workspaceVars, reserveVars, channelVars, frameVars
  <2> QED
    BY <2>1, SameDiskFades, QuietKeeps DEF HoldsOn
<1>2. CASE Next
  BY <1>2, PhaseDisk, CleanupDisk, RequestDisk, WorkerDisk, StopDisk DEF Next
<1> QED
  BY <1>1, <1>2

-----------------------------------------------------------------------------
(* The results. *)

\* The channels and the disk stay in order, whatever the coordinator, its workers and the network
\* do: the invariant that the properties below follow from.
THEOREM RemoteInvariant == Spec => []RemoteInv
<1>1. Init => RemoteInv
  BY InitTypes, InitChannels, InitDisk DEF RemoteInv, ChannelInv
<1>2. RemoteInv /\ [Next]_vars => RemoteInv'
  BY TypesStep, ChannelsStep, DiskStep DEF RemoteInv, ChannelInv
<1> QED
  BY <1>1, <1>2, PTL DEF Spec

\* Every variable keeps its type, the generations stay within their bound, and a request that
\* waits has an identity that its channel gave out.
THEOREM RemoteTyped == Spec => []RemoteTypeOK
<1>1. RemoteInv => RemoteTypeOK
  <2> SUFFICES ASSUME RemoteInv PROVE RemoteTypeOK
    OBVIOUS
  <2>0. /\ Types /\ DiskInv /\ Waiting /\ Distinct /\ MaxGeneration \in Nat /\ runs \in Nat
        /\ disk \in [Paths -> Directories] /\ generation \in [Phases -> [now : Nat, saved : Nat]]
        /\ pending \in [Links -> SUBSET [id : Nat, who : Requesters]]
    BY RemoteAssumption DEF RemoteInv, ChannelInv, Channels, Types
  <2> DEFINE Bounded == [state : {"absent", "bare", "marked"}, session_generation : 0..MaxGeneration,
                         owner : 0..runs, writers : SUBSET (1..runs)]
  <2>1. ASSUME NEW path \in Paths
        PROVE  disk[path] \in Bounded /\ (disk[path].state = "absent" => disk[path] = Absent)
    <3>1. disk[path] \in Directories /\ Directory(disk[path], runs)
      BY <2>0 DEF DiskInv
    <3>2. /\ disk[path].session_generation \in 0..MaxGeneration /\ disk[path].owner \in 0..runs
          /\ disk[path].writers \subseteq 1..runs
      BY <2>0, <3>1, SMT DEF Directories, Directory
    <3> QED
      BY <3>1, <3>2 DEF Directories, Directory
  <2>2. disk \in [Paths -> Bounded]
    BY <2>0, <2>1
  <2>3. ASSUME NEW p \in Phases PROVE generation[p] \in [now : 0..MaxGeneration, saved : 0..MaxGeneration]
    <3>1. generation[p] \in [now : Nat, saved : Nat] /\ generation[p].now \in Nat /\ generation[p].saved \in Nat
      BY <2>0
    <3>2. generation[p].now <= MaxGeneration /\ generation[p].saved <= generation[p].now
      BY <2>0, <3>1, SMT DEF DiskInv, Generations
    <3>3. generation[p].now \in 0..MaxGeneration /\ generation[p].saved \in 0..MaxGeneration
      BY <2>0, <3>1, <3>2, SMT
    <3> QED
      BY <3>1, <3>3
  <2>4. generation \in [Phases -> [now : 0..MaxGeneration, saved : 0..MaxGeneration]]
    BY <2>0, <2>3
  <2>5. \A l \in Links : \A w \in pending[l] : w.who \in Requesters /\ w.id \in 1..counter[l]
    <3> SUFFICES ASSUME NEW l \in Links, NEW w \in pending[l] PROVE w.who \in Requesters /\ w.id \in 1..counter[l]
      OBVIOUS
    <3>1. w.who \in Requesters
      BY <2>0, SMT
    <3>2. thread[w.who].pc = "waiting" /\ thread[w.who].link = l /\ thread[w.who].id = w.id
      BY <2>0, SMT DEF Waiting
    <3> QED
      BY <2>0, <3>1, <3>2 DEF Distinct
  <2> QED
    BY <2>0, <2>1, <2>2, <2>4, <2>5 DEF RemoteTypeOK, Types
<1> QED
  BY <1>1, RemoteInvariant, PTL

\* A directory holds the outputs of the run it was made for and of no other (WorkspaceManager::create
\* and the record that is saved before anything runs).
THEOREM OutputsAreOwn == Spec => []OutputsOwn
<1>1. RemoteInv => OutputsOwn
  BY DEF RemoteInv, DiskInv, Directory, OutputsOwn
<1> QED
  BY <1>1, RemoteInvariant, PTL

\* A thread that waits is given the reply to its own request only (PeerChannel::request and pump).
THEOREM RepliesAreOwn == Spec => []ReplyIsOwn
<1>1. RemoteInv => ReplyIsOwn
  <2> SUFFICES ASSUME RemoteInv, NEW p \in Phases, reply[p].type \in {"ready", "report", "error"}
               PROVE  reply[p].order = Ordered(p)
    BY DEF ReplyIsOwn
  <2>1. p \in Requesters /\ Types /\ Waiting
    BY DEF Requesters, RemoteInv, ChannelInv, Channels
  <2>2. reply[p].order = SentOrder(p)
    BY <2>1 DEF Waiting
  <2> QED
    BY <2>1, <2>2, SentType
<1> QED
  BY <1>1, RemoteInvariant, PTL

\* No reply on an open channel is without its request in pending_ (PeerChannel::pump).
THEOREM RepliesAreAwaited == Spec => []RepliesAwaited
<1>1. RemoteInv => RepliesAwaited
  <2> SUFFICES ASSUME RemoteInv, NEW l \in Links, Open(l), NEW i \in DOMAIN toCoordinator[l],
                      toCoordinator[l][i].type # "hello"
               PROVE  \E waiter \in pending[l] : waiter.id = toCoordinator[l][i].id
    BY DEF RepliesAwaited
  <2>1. Exchange(toWorker[l], toCoordinator[l], Served(worker[l]), pending[l], thread)
    BY DEF RemoteInv, ChannelInv, Channels, Exchanges
  <2>2. Real(toCoordinator[l][i]) /\ Awaited(pending[l], thread, toCoordinator[l][i])
    BY <2>1 DEF Exchange, Real
  <2>3. PICK r \in Requesters : [id |-> toCoordinator[l][i].id, who |-> r] \in pending[l]
    BY <2>2 DEF Awaited
  <2> QED
    BY <2>3
<1> QED
  BY <1>1, RemoteInvariant, PTL

\* A worker runs a compiler only in a directory it has opened itself (WorkerService, and
\* RemotePhaseExecutor::execute, which keeps to one channel for both requests).
THEOREM RunsWhereItOpened == Spec => []RunsWhereOpened
<1>1. RemoteInv => RunsWhereOpened
  <2> SUFFICES ASSUME RemoteInv, NEW l \in Links, worker[l].at = "running"
               PROVE  worker[l].order.path \in worker[l].opened
    BY DEF RunsWhereOpened
  <2>1. Serving(l) /\ Busy(worker[l])
    BY DEF Serving, Busy
  <2>2. Verified(l, toWorker[l], toCoordinator[l], worker[l], reply, thread)
    BY <2>1 DEF RemoteInv, ChannelInv, Channels, AllVerified
  <2> QED
    BY <2>1, <2>2 DEF Verified
<1> QED
  BY <1>1, RemoteInvariant, PTL
===============================================================================
