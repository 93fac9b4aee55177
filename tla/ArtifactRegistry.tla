-------------------------- MODULE ArtifactRegistry --------------------------
(***************************************************************************)
(* The registry of intermediate artifacts.  A registry is a sequence: the  *)
(* identity of an artifact is its position, which is what the registry's   *)
(* allocator hands out.  One artifact stands for the output set of one     *)
(* recorded execution.                                                     *)
(***************************************************************************)
EXTENDS Naturals, Sequences

CONSTANT Phases

ArtifactState  == {"unknown", "valid", "corrupt", "superseded"}
AuthorityState == {"none", "authoritative", "revoked"}

\* `phase' and `gen' are the producer; `vouched' is a history field that the
\* code does not have: a validation made for the producer's own generation
\* accepted the artifact and nothing has rejected it since.
Artifact == [phase     : Phases,
             gen       : Nat,
             state     : ArtifactState,
             authority : AuthorityState,
             vouched   : BOOLEAN]

Consumable(a) == a.state = "valid"

\* register_artifact, with the fields record_execution gives a candidate.
Register(arts, p, g) ==
  Append(arts, [phase |-> p, gen |-> g, state |-> "unknown",
                authority |-> "none", vouched |-> FALSE])

\* Faulty variant: a validated artifact is made current at once.
SetStatesPublishing(arts, ids, s, p, g) ==
  [i \in DOMAIN arts |->
     IF i \notin ids THEN arts[i]
     ELSE [arts[i] EXCEPT !.state = s, !.vouched = s = "valid",
                          !.authority = IF s = "valid" THEN "authoritative" ELSE "revoked"]]

\* set_state on each artifact in `ids', by a validation made for (p, g).  A
\* state that cannot be consumed cannot keep its authority.
SetStates(arts, ids, s, p, g) ==
  [i \in DOMAIN arts |->
     IF i \notin ids THEN arts[i]
     ELSE [arts[i] EXCEPT
             !.state     = s,
             !.authority = IF s # "valid" /\ @ = "authoritative" THEN "revoked" ELSE @,
             !.vouched   = s = "valid" /\ (@ \/ (arts[i].phase = p /\ arts[i].gen = g))]]

\* set_authority(authoritative) over the outputs of a phase, in order: the
\* loop stops with an error at the first one that is not consumable.
Grantable(arts, ids) ==
  {i \in ids : \A j \in ids : j <= i => Consumable(arts[j])}

GrantAuthority(arts, ids) ==
  [i \in DOMAIN arts |->
     IF i \in Grantable(arts, ids)
     THEN [arts[i] EXCEPT !.authority = "authoritative"]
     ELSE arts[i]]

\* Faulty variant: the new state is stored in the authority field.
RevokePhaseOutputsMixedUp(arts, producers) ==
  [i \in DOMAIN arts |->
     IF <<arts[i].phase, arts[i].gen>> \in producers
     THEN [arts[i] EXCEPT !.authority = "superseded"] ELSE arts[i]]

\* revoke_phase_outputs for each <<phase, generation>> in `producers':
\* everything that generation of that phase produced.
RevokePhaseOutputs(arts, producers) ==
  [i \in DOMAIN arts |->
     IF <<arts[i].phase, arts[i].gen>> \in producers
     THEN [arts[i] EXCEPT !.authority = "revoked",
                          !.state = IF @ = "valid" THEN "superseded" ELSE @]
     ELSE arts[i]]

\* revalidate, applied to each artifact in `ids'; `bad' are the ones whose
\* file is gone, cannot be read or no longer hashes to the recorded digest.
Revalidate(arts, bad) ==
  [i \in DOMAIN arts |->
     IF i \in bad
     THEN [arts[i] EXCEPT !.state = "corrupt", !.authority = "revoked", !.vouched = FALSE]
     ELSE arts[i]]
=============================================================================
