-------------------------- MODULE AuthorityRegistry --------------------------
(***************************************************************************)
(* The registries of toolchains, targets, environments, policies and        *)
(* sources: how an entry's generation advances, and how an entry is put     *)
(* back from a stored record.                                               *)
(***************************************************************************)
EXTENDS Integers

(* The kinds of records that outlive the process that holds them. *)

Registered == {"toolchain", "target", "environment", "policy", "source"}
Owned == {"session", "artifact", "diagnostic_set", "provenance"}
Saved == Registered \cup Owned
FieldMessages == {"hello", "error", "workspace_request", "phase_reference"}
Messages == FieldMessages \cup {"compile_request", "invocation_order", "execution_report",
                                "phase_report", "audit_report", "session_summary"}
Kinds == Saved \cup Messages \cup {"snapshot", "plan"}

\* The largest field of a message.
kMaxFieldBytes == 1048576

SearchPaths == {"include_paths", "library_paths", "sdk_roots", "toolkit_roots"}

\* The contents of a record, by the field that has an unusual magnitude; none has.
Plain == [path |-> <<>>, mag |-> 0]

----------------------------------------------------------------------------
(* An entry is [generation, sample]. *)

Entry(generation, sample) == [generation |-> generation, sample |-> sample]

\* TargetRegistry, EnvironmentRegistry and PolicyRegistry.
\* Mutant: a new entry has no generation yet.
intern_unnumbered(sample) == Entry(0, sample)

intern(sample) == Entry(1, sample)

revise(entry, sample) ==
  IF entry.sample = sample THEN entry ELSE Entry(entry.generation + 1, sample)

intern_as(sample) == Entry(1, sample)

\* ToolchainRegistry.
register_toolchain(sample) == Entry(1, sample)

\* differ: what diff_toolchains says of the entry and the candidate.
refresh(entry, sample, differ) == IF differ THEN Entry(entry.generation + 1, sample) ELSE entry

invalidate(entry) == [entry EXCEPT !.generation = @ + 1]

\* Mutant: the stored generation is dropped.
register_toolchain_as_new(generation, sample) == Entry(1, sample)

register_toolchain_as(generation, sample) == Entry(IF generation = 0 THEN 1 ELSE generation, sample)

\* SourceRegistry.
add_source(sample) == Entry(1, sample)
add_as(generation, sample) == Entry(IF generation = 0 THEN 1 ELSE generation, sample)
=============================================================================
