---------------------------- MODULE PlanProposal ----------------------------
(***************************************************************************)
(* A list of phases that an adapter proposes, and what PhasePlan::build     *)
(* makes of it for create_session and decode_plan.                          *)
(***************************************************************************)
EXTENDS PhasePlan

CONSTANT Plans    \* the lists of phase nodes that adapters may propose

ASSUME PlansAreLists == Plans \subseteq Seq(PhaseNodes)

VARIABLE proposal \* a plan: [nodes, built]

NoPlan == [nodes |-> <<>>, built |-> Defect("none")]

ProposalInit == proposal = NoPlan

ProposePlan ==
  /\ proposal = NoPlan
  /\ \E nodes \in Plans : proposal' = [nodes |-> nodes, built |-> Build(nodes)]

----------------------------------------------------------------------------
(* Properties. *)

DependsOn(nodes, id) == Range(nodes[IndexOf(nodes, id)].depends_on)

\* A plan that is accepted lists each of its phases once, after all of the phases it
\* depends on, so that a driver that follows the order never waits.  What
\* transitive_dependencies finds for a phase comes before it too, and leaves out
\* nothing that the phase or one it finds depends on.
PlanOrdered ==
  proposal.built.ok =>
    LET order == proposal.built.order
        nodes == proposal.nodes
    IN  /\ Len(order) = Len(nodes) /\ Range(order) = IdsOf(nodes)
        /\ \A k \in DOMAIN order : is_ready(nodes, order[k], Range(SubSeq(order, 1, k - 1)))
        /\ \A k \in DOMAIN order :
             LET found == transitive_dependencies(nodes, order[k])
             IN  /\ found \subseteq Range(SubSeq(order, 1, k - 1))
                 /\ DependsOn(nodes, order[k]) \subseteq found
                 /\ \A id \in found : DependsOn(nodes, id) \subseteq found

\* In a cycle of dependencies every phase waits for another one of it.
Acyclic(nodes) ==
  \A C \in SUBSET IdsOf(nodes) : C # {} => \E id \in C : DependsOn(nodes, id) \cap C = {}

Sinks(nodes) == {n \in IdsOf(nodes) : \A i \in DOMAIN nodes : n \notin Range(nodes[i].depends_on)}

\* build accepts exactly the plans without a cycle that end in one phase, which is
\* mandatory, and whose phases are distinct, known and possible to feed.
PlanAccepted ==
  LET nodes == proposal.nodes
  IN  proposal # NoPlan =>
        (proposal.built.ok <=>
           /\ nodes # <<>> /\ Len(nodes) <= kMaxPhases
           /\ ~AbsentId(nodes) /\ ~DuplicateIds(nodes) /\ ~MissingDependency(nodes)
           /\ \A i \in DOMAIN nodes : ~FanInImpossible(nodes[i])
           /\ Acyclic(nodes)
           /\ \E id \in IdsOf(nodes) : Sinks(nodes) = {id} /\ nodes[IndexOf(nodes, id)].mandatory)
=============================================================================
