------------------------------ MODULE PhasePlan ------------------------------
(***************************************************************************)
(* PhasePlan::build and the queries on a built plan.  A node is a record    *)
(* [id, depends_on, mandatory, fan_in, required_inputs]; depends_on is a     *)
(* sequence, which may name a phase twice.                                  *)
(***************************************************************************)
EXTENDS Integers, Sequences, FiniteSets, Functions

kMaxPhases == 4096

PhaseNodes ==
  [id : Nat, depends_on : Seq(Nat), mandatory : BOOLEAN, fan_in : BOOLEAN, required_inputs : Nat]

Defect(reason) == [ok |-> FALSE, reason |-> reason, order |-> <<>>]
Plan(order) == [ok |-> TRUE, reason |-> "none", order |-> order]

\* The smallest index first, as std::sort leaves the indices.
Ascending(S) ==
  CHOOSE s \in [1..Cardinality(S) -> S] : \A i, j \in DOMAIN s : i < j => s[i] < s[j]

IdsOf(nodes) == {nodes[i].id : i \in DOMAIN nodes}

\* index_, for the identity of a node of the plan.
IndexOf(nodes, id) == CHOOSE i \in DOMAIN nodes : nodes[i].id = id

Occurrences(s, e) == Cardinality({i \in DOMAIN s : s[i] = e})

\* Identity 0 is no identity.
AbsentId(nodes) == 0 \in IdsOf(nodes)

DuplicateIds(nodes) == \E i, j \in DOMAIN nodes : i # j /\ nodes[i].id = nodes[j].id

SelfDependency(nodes) == \E i \in DOMAIN nodes : nodes[i].id \in Range(nodes[i].depends_on)

MissingDependency(nodes) == \E i \in DOMAIN nodes : ~(Range(nodes[i].depends_on) \subseteq IdsOf(nodes))

FanInImpossible(node) ==
  node.fan_in /\ (node.required_inputs = 0 \/ node.required_inputs > Len(node.depends_on))

\* dependents_, without the repetitions, whose number the release counts.
Dependents(nodes, i) == {j \in DOMAIN nodes : nodes[i].id \in Range(nodes[j].depends_on)}

\* The locals of the sort.  The ready queue holds indices.
KahnStart(nodes) ==
  LET indegree == [i \in DOMAIN nodes |-> Len(nodes[i].depends_on)]
  IN  [ready |-> Ascending({i \in DOMAIN nodes : indegree[i] = 0}), indegree |-> indegree, order |-> <<>>]

\* One pass of the loop.  A node is released when its last dependency is taken, and
\* the nodes one pass releases enter in ascending order.
TakeReady(nodes, sort) ==
  LET current == Head(sort.ready)
      left == [i \in DOMAIN nodes |->
                 sort.indegree[i] - Occurrences(nodes[i].depends_on, nodes[current].id)]
      released == {i \in Dependents(nodes, current) : left[i] = 0}
  IN  IF sort.ready = <<>> THEN sort
      ELSE [ready |-> Tail(sort.ready) \o Ascending(released), indegree |-> left,
            order |-> Append(sort.order, nodes[current].id)]

\* The locals after each pass.  No node is released twice, so there are no more
\* passes than nodes.
Kahn(nodes) ==
  LET pass[n \in 0..Len(nodes)] == IF n = 0 THEN KahnStart(nodes) ELSE TakeReady(nodes, pass[n - 1])
  IN  pass

\* Mutant: the phases in the order of their declaration.
TopologicalOrder_declared(nodes) == [i \in DOMAIN nodes |-> nodes[i].id]

TopologicalOrder(nodes) == Kahn(nodes)[Len(nodes)].order

\* Mutant: any mandatory phase will do.
AnyMandatory(nodes) == \E i \in DOMAIN nodes : nodes[i].mandatory

AnySinkMandatory(nodes) == \E i \in DOMAIN nodes : Dependents(nodes, i) = {} /\ nodes[i].mandatory

\* primary, the phase that ends the order.
Primary(order) == order[Len(order)]

\* A node reaches the last one when it is the last one or when a dependent was
\* found to reach it.
Reaches(nodes, order, id, found) ==
  \/ id = Primary(order)
  \/ \E j \in Dependents(nodes, IndexOf(nodes, id)) : nodes[j].id \in found

WithReaching(nodes, order, id, found) ==
  IF Reaches(nodes, order, id, found) THEN found \cup {id} ELSE found

\* One pass over the order, backwards.
ReachesPrimary(nodes, order) ==
  LET found[n \in 0..Len(order)] ==
        IF n = 0 THEN {} ELSE WithReaching(nodes, order, order[Len(order) + 1 - n], found[n - 1])
  IN  found

\* PhasePlan::build.
Build(nodes) ==
  IF nodes = <<>> THEN Defect("empty-plan")
  ELSE IF Len(nodes) > kMaxPhases THEN Defect("too-many-phases")
  ELSE IF AbsentId(nodes) THEN Defect("absent-phase-id")
  ELSE IF DuplicateIds(nodes) THEN Defect("duplicate-phase-id")
  ELSE IF SelfDependency(nodes) \/ MissingDependency(nodes) THEN Defect("dependency")
  ELSE IF \E i \in DOMAIN nodes : FanInImpossible(nodes[i]) THEN Defect("fan-in-arity-invalid")
  ELSE LET order == TopologicalOrder(nodes)
       IN  IF Len(order) # Len(nodes) THEN Defect("cycle")
           ELSE IF ~AnySinkMandatory(nodes) THEN Defect("mandatory-sink-missing")
           ELSE IF ReachesPrimary(nodes, order)[Len(order)] # IdsOf(nodes) THEN Defect("orphan-phase")
           ELSE Plan(order)

\* One pass of the loop of transitive_dependencies that meets a phase it has not visited.
VisitNext(nodes, walk) ==
  LET id == CHOOSE p \in walk.pending : p \notin walk.visited
  IN  IF walk.pending \subseteq walk.visited THEN walk
      ELSE [pending |-> (walk.pending \ {id}) \cup Range(nodes[IndexOf(nodes, id)].depends_on),
            visited |-> walk.visited \cup {id}]

\* A walk visits each node at most once.
WalkDependencies(nodes, pending) ==
  LET walk[n \in 0..Len(nodes)] ==
        IF n = 0 THEN [pending |-> pending, visited |-> {}] ELSE VisitNext(nodes, walk[n - 1])
  IN  walk

transitive_dependencies(nodes, id) ==
  WalkDependencies(nodes, Range(nodes[IndexOf(nodes, id)].depends_on))[Len(nodes)].visited

is_ready(nodes, id, committed) == Range(nodes[IndexOf(nodes, id)].depends_on) \subseteq committed
=============================================================================
