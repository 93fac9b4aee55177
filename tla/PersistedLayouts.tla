-------------------------- MODULE PersistedLayouts --------------------------
(***************************************************************************)
(* The records of persistence.cpp and the session bundle of runtime.cpp, as *)
(* the encoders write them and as the decoders read them.                   *)
(***************************************************************************)
EXTENDS Codec, PhasePlan

kMaxStringBytes == 8192
kMaxPathBytes == 32768
kMaxBlobBytes == 4194304
kMaxCollection == 65536

\* The largest enumerators of the types that are stored as a number.
PhaseStateLast == 12
PhaseKindLast == 16
FailureClassLast == 15
StatusCodeLast == 200
SeverityLast == 5
ObjectFormatLast == 12
ArtifactStateLast == 6
AuthorityStateLast == 3
SessionStateLast == 6
RecoveryStateLast == 6
ArchitectureLast == 4

\* Every record starts with the schema version, 1, which its decoder requires.
schema == Enum16("schema", 1)

\* What an encoder writes has no limit; what a decoder reads has the default one.
str(names) == Texts(names, Unbounded)
dec_str(names) == Texts(names, kMaxStringBytes)
dec_path(names) == Texts(names, kMaxPathBytes)

----------------------------------------------------------------------------
encode_attempt ==
  U64s(<<"id", "generation">>) \o Refs(<<"invocation">>) \o U64s(<<"process_generation">>) \o
  U32s(<<"os_process_id">>) \o Enum8("terminal_state", PhaseStateLast) \o
  Enum8("failure", FailureClassLast) \o Enum16("status", StatusCodeLast) \o I32s(<<"exit_code">>) \o
  U64s(<<"started_at_nanos", "finished_at_nanos">>) \o Digests(<<"observed_output_digest">>) \o
  str(<<"detail">>)

decode_attempt ==
  U64s(<<"id", "generation">>) \o Refs(<<"invocation">>) \o U64s(<<"process_generation">>) \o
  U32s(<<"os_process_id">>) \o Enum8("terminal_state", 12) \o Enum8("failure", 15) \o
  Enum16("status", 200) \o I32s(<<"exit_code">>) \o
  U64s(<<"started_at_nanos", "finished_at_nanos">>) \o Digests(<<"observed_output_digest">>) \o
  dec_str(<<"detail">>)

encode_diagnostic ==
  Enum8("severity", SeverityLast) \o str(<<"code", "message", "file">>) \o U32s(<<"line", "column">>) \o
  str(<<"origin", "raw">>)

decode_diagnostic ==
  Enum8("severity", 5) \o dec_str(<<"code", "message", "file">>) \o U32s(<<"line", "column">>) \o
  dec_str(<<"origin">>) \o Texts(<<"raw">>, kMaxBlobBytes)

----------------------------------------------------------------------------
AuthorityRefs == Refs(<<"toolchain", "target", "environment", "policy", "source">>)

encode_phase ==
  schema \o U64s(<<"id", "generation">>) \o Enum8("kind", PhaseKindLast) \o str(<<"adapter_phase">>) \o
  Enum8("state", PhaseStateLast) \o Bools(<<"mandatory">>) \o
  U64s(<<"session_generation", "compilation_generation", "attempt_generation">>) \o AuthorityRefs \o
  U64s(<<"ir_generation">>) \o Refs(<<"lease", "active_invocation">>) \o
  U64s(<<"active_process", "active_process_generation">>) \o Refs(<<"diagnostics">>) \o
  U64s(<<"commit">>) \o Digests(<<"committed_output_digest">>) \o U64s(<<"committed_at_nanos">>) \o
  Enum8("failure", FailureClassLast) \o Enum16("last_status", StatusCodeLast) \o str(<<"last_detail">>) \o
  U64s(<<"recovery", "recovery_generation">>) \o
  List("depends_on", Unbounded, Item("u64", Unbounded)) \o
  List("inputs", Unbounded, RefItem) \o List("outputs", Unbounded, RefItem) \o
  List("attempts", Unbounded, encode_attempt) \o
  List("history", Unbounded, Enum8("from", PhaseStateLast) \o Enum8("to", PhaseStateLast) \o
                             U64s(<<"at_nanos">>) \o str(<<"reason">>))

kMaxPhaseAttempts == 64
kMaxPhaseTransitions == 256

decode_phase ==
  schema \o U64s(<<"id", "generation">>) \o Enum8("kind", 16) \o dec_str(<<"adapter_phase">>) \o
  Enum8("state", 12) \o Bools(<<"mandatory">>) \o
  U64s(<<"session_generation", "compilation_generation", "attempt_generation">>) \o AuthorityRefs \o
  U64s(<<"ir_generation">>) \o Refs(<<"lease", "active_invocation">>) \o
  U64s(<<"active_process", "active_process_generation">>) \o Refs(<<"diagnostics">>) \o
  U64s(<<"commit">>) \o Digests(<<"committed_output_digest">>) \o U64s(<<"committed_at_nanos">>) \o
  Enum8("failure", 15) \o Enum16("last_status", 200) \o dec_str(<<"last_detail">>) \o
  U64s(<<"recovery", "recovery_generation">>) \o
  List("depends_on", kMaxCollection, Item("u64", Unbounded)) \o
  List("inputs", kMaxCollection, RefItem) \o List("outputs", kMaxCollection, RefItem) \o
  List("attempts", kMaxPhaseAttempts, decode_attempt) \o
  List("history", kMaxPhaseTransitions, Enum8("from", 12) \o Enum8("to", 12) \o U64s(<<"at_nanos">>) \o
                                        dec_str(<<"reason">>))

----------------------------------------------------------------------------
encode_artifact ==
  schema \o U64s(<<"id", "generation">>) \o Enum8("format", ObjectFormatLast) \o str(<<"path">>) \o
  Digests(<<"content">>) \o U64s(<<"size_bytes">>) \o
  Refs(<<"producer_phase", "producer_invocation", "toolchain", "target", "source">>) \o
  U64s(<<"ir_generation">>) \o Refs(<<"environment", "policy">>) \o U64s(<<"provenance">>) \o
  Enum8("state", ArtifactStateLast) \o Enum8("authority", AuthorityStateLast) \o Bools(<<"current">>) \o
  Digests(<<"declared_digest">>) \o str(<<"validation_detail">>) \o
  List("lineage_inputs", Unbounded, RefItem)

decode_artifact ==
  schema \o U64s(<<"id", "generation">>) \o Enum8("format", 12) \o dec_path(<<"path">>) \o
  Digests(<<"content">>) \o U64s(<<"size_bytes">>) \o
  Refs(<<"producer_phase", "producer_invocation", "toolchain", "target", "source">>) \o
  U64s(<<"ir_generation">>) \o Refs(<<"environment", "policy">>) \o U64s(<<"provenance">>) \o
  Enum8("state", 6) \o Enum8("authority", 3) \o Bools(<<"current">>) \o
  Digests(<<"declared_digest">>) \o dec_str(<<"validation_detail">>) \o
  List("lineage_inputs", kMaxCollection, RefItem)

----------------------------------------------------------------------------
DiagnosticSetHead ==
  schema \o U64s(<<"id", "generation">>) \o Refs(<<"invocation", "phase", "toolchain", "target">>) \o
  Bools(<<"normalized", "truncated">>) \o
  U64s(<<"raw_stdout_bytes", "raw_stderr_bytes", "dropped_stdout_bytes", "dropped_stderr_bytes">>) \o
  I32s(<<"exit_code">>) \o Bools(<<"process_crashed">>) \o U32s(<<"error_count", "warning_count">>)

encode_diagnostic_set ==
  DiagnosticSetHead \o str(<<"raw_stdout_tail", "raw_stderr_tail">>) \o
  List("entries", Unbounded, encode_diagnostic)

kMaxRawTailBytes == 16384
kMaxEntries == 4096

decode_diagnostic_set ==
  DiagnosticSetHead \o Texts(<<"raw_stdout_tail", "raw_stderr_tail">>, kMaxRawTailBytes) \o
  List("entries", kMaxEntries, decode_diagnostic)

CandidateHead ==
  schema \o U64s(<<"id", "generation", "compilation", "compilation_generation", "attempt_generation">>) \o
  Refs(<<"session">>) \o AuthorityRefs \o U64s(<<"ir_generation">>)

CandidateTail ==
  Digests(<<"content">>) \o U64s(<<"size_bytes", "provenance">>) \o Digests(<<"lineage_digest">>) \o
  Bools(<<"complete_lineage", "handed_off">>) \o U64s(<<"registered_at_nanos">>)

encode_candidate ==
  CandidateHead \o Enum8("format", ObjectFormatLast) \o str(<<"path">>) \o CandidateTail \o
  List("lineage", Unbounded, RefItem) \o List("validation_evidence", Unbounded, Item("u64", Unbounded))

decode_candidate ==
  CandidateHead \o Enum8("format", 12) \o dec_path(<<"path">>) \o CandidateTail \o
  List("lineage", kMaxCollection, RefItem) \o
  List("validation_evidence", kMaxCollection, Item("u64", Unbounded))

----------------------------------------------------------------------------
encode_plan ==
  schema \o
  List("nodes", Unbounded,
       U64s(<<"id">>) \o Enum8("kind", PhaseKindLast) \o str(<<"adapter_phase">>) \o
       Bools(<<"mandatory", "fan_in">>) \o U64s(<<"required_inputs">>) \o
       List("depends_on", Unbounded, Item("u64", Unbounded)) \o
       List("expected_outputs", Unbounded, Item("u8", ObjectFormatLast)))

decode_plan ==
  schema \o
  List("nodes", kMaxPhases,
       U64s(<<"id">>) \o Enum8("kind", 16) \o dec_str(<<"adapter_phase">>) \o
       Bools(<<"mandatory", "fan_in">>) \o Counts(<<"required_inputs">>, kMaxCollection) \o
       List("depends_on", kMaxCollection, Item("u64", Unbounded)) \o
       List("expected_outputs", kMaxCollection, Item("u8", 12)))

SessionNumbers ==
  U64s(<<"request", "compilation", "compilation_generation", "attempt", "attempt_generation">>) \o
  AuthorityRefs \o U64s(<<"ir_generation">>)

SessionRecovery == U64s(<<"recovery", "recovery_generation", "evidence_generation", "epoch">>)

SessionTail ==
  U64s(<<"created_at_nanos", "updated_at_nanos">>) \o U32s(<<"session_retries_used">>) \o
  Digests(<<"request_digest">>)

encode_session ==
  schema \o U64s(<<"id", "generation">>) \o Enum8("state", SessionStateLast) \o
  Enum8("recovery_state", RecoveryStateLast) \o SessionNumbers \o
  str(<<"adapter_name", "final_artifact_name">>) \o
  List("adapter_options", Unbounded, str(<<"name", "value">>)) \o
  List("cooperating_toolchains", Unbounded, RefItem) \o List("sources", Unbounded, RefItem) \o
  Blob("plan", Unbounded, encode_plan) \o
  List("phases", Unbounded, Blob("phase", Unbounded, encode_phase)) \o U64s(<<"current_phase">>) \o
  List("intermediates", Unbounded, RefItem) \o Bools(<<"candidate_present">>) \o
  Blob("candidate", Unbounded, encode_candidate) \o SessionRecovery \o str(<<"failure_detail">>) \o
  SessionTail

kMaxSources == 4096
kMaxArtifacts == 65536
kMaxSets == 16384

decode_session ==
  schema \o U64s(<<"id", "generation">>) \o Enum8("state", 6) \o Enum8("recovery_state", 6) \o
  SessionNumbers \o dec_str(<<"adapter_name", "final_artifact_name">>) \o
  List("adapter_options", 1024, dec_str(<<"name", "value">>)) \o
  List("cooperating_toolchains", kMaxCollection, RefItem) \o List("sources", kMaxSources, RefItem) \o
  Blob("plan", kMaxBlobBytes, decode_plan) \o
  List("phases", kMaxPhases, Blob("phase", kMaxBlobBytes, decode_phase)) \o U64s(<<"current_phase">>) \o
  List("intermediates", kMaxArtifacts, RefItem) \o Bools(<<"candidate_present">>) \o
  Blob("candidate", kMaxBlobBytes, decode_candidate) \o SessionRecovery \o dec_str(<<"failure_detail">>) \o
  SessionTail

SnapshotLayout(collection, artifacts, sets, blob) ==
  schema \o U64s(<<"runtime_epoch", "last_sequence">>) \o
  List("encoded_sessions", collection, Item("text", blob)) \o
  List("encoded_artifacts", artifacts, Item("text", blob)) \o
  List("encoded_diagnostics", sets, Item("text", blob))

encode_snapshot == SnapshotLayout(Unbounded, Unbounded, Unbounded, Unbounded)
decode_snapshot == SnapshotLayout(kMaxCollection, kMaxArtifacts, kMaxSets, kMaxBlobBytes)

----------------------------------------------------------------------------
encode_file_identity ==
  str(<<"canonical_path", "volume_serial_hex", "file_index_hex">>) \o
  U64s(<<"size_bytes", "last_write_nanos">>) \o Digests(<<"content">>) \o Bools(<<"content_hashed">>)

decode_file_identity ==
  dec_path(<<"canonical_path">>) \o Texts(<<"volume_serial_hex", "file_index_hex">>, 64) \o
  U64s(<<"size_bytes", "last_write_nanos">>) \o Digests(<<"content">>) \o Bools(<<"content_hashed">>)

encode_environment_variables(n) == List(n, Unbounded, str(<<"name", "value">>))

decode_environment_variables(n) ==
  List(n, 4096, Texts(<<"name">>, 4096) \o Texts(<<"value">>, 1048576))

encode_paths(n) == List(n, Unbounded, Item("text", Unbounded))
decode_paths(n) == List(n, 4096, Item("text", kMaxPathBytes))

encode_environment_spec ==
  str(<<"working_directory", "temp_directory">>) \o encode_environment_variables("variables") \o
  encode_paths("include_paths") \o encode_paths("library_paths") \o encode_paths("sdk_roots") \o
  encode_paths("toolkit_roots") \o List("inherited_variables", Unbounded, Item("text", Unbounded)) \o
  U8s(<<"locale_policy">>) \o str(<<"locale_name">>) \o Bools(<<"deterministic_controls">>)

decode_environment_spec ==
  dec_path(<<"working_directory", "temp_directory">>) \o decode_environment_variables("variables") \o
  decode_paths("include_paths") \o decode_paths("library_paths") \o decode_paths("sdk_roots") \o
  decode_paths("toolkit_roots") \o List("inherited_variables", 4096, Item("text", 1024)) \o
  U8s(<<"locale_policy">>) \o Texts(<<"locale_name">>, 256) \o Bools(<<"deterministic_controls">>)

encode_policy_spec ==
  U8s(<<"reproducibility">>) \o U32s(<<"max_retries_per_phase", "max_retries_per_session">>) \o
  List("retryable_classes", Unbounded, Item("u8", FailureClassLast)) \o
  List("forbidden_options", Unbounded, Item("text", Unbounded)) \o
  Bools(<<"allow_parallel_phases">>) \o U64s(<<"max_parallel_phases">>) \o
  U32s(<<"phase_timeout_millis", "validation_timeout_millis">>) \o
  Bools(<<"run_smoke_test", "require_content_digest">>) \o
  U64s(<<"max_diagnostic_entries", "max_diagnostic_bytes_per_stream">>) \o Bools(<<"allow_local_cache">>)

decode_policy_spec ==
  U8s(<<"reproducibility">>) \o U32s(<<"max_retries_per_phase", "max_retries_per_session">>) \o
  List("retryable_classes", 64, Item("u8", 255)) \o
  List("forbidden_options", 256, Item("text", 4096)) \o
  Bools(<<"allow_parallel_phases">>) \o Counts(<<"max_parallel_phases">>, 4096) \o
  U32s(<<"phase_timeout_millis", "validation_timeout_millis">>) \o
  Bools(<<"run_smoke_test", "require_content_digest">>) \o
  Counts(<<"max_diagnostic_entries">>, 1048576) \o
  Counts(<<"max_diagnostic_bytes_per_stream">>, 1073741824) \o Bools(<<"allow_local_cache">>)

TargetTexts == <<"triple", "cpu", "device_arch", "device_virtual_arch", "abi">>

encode_target_spec ==
  U8s(<<"architecture", "os">>) \o str(TargetTexts) \o U32s(<<"pointer_width_bits">>)

decode_target_spec ==
  U8s(<<"architecture", "os">>) \o Texts(TargetTexts, 256) \o U32s(<<"pointer_width_bits">>)

decode_enum_list(n, bound, max) == List(n, bound, Item("u8", max))

encode_toolchain ==
  schema \o U64s(<<"id", "generation">>) \o U8s(<<"family">>) \o str(<<"display_name", "version">>) \o
  List("components", Unbounded,
       U64s(<<"id", "generation">>) \o U8s(<<"kind">>) \o str(<<"name", "version">>) \o
       encode_file_identity \o List("command_capabilities", Unbounded, Item("text", Unbounded)) \o
       List("target_support", Unbounded, Item("u8", ArchitectureLast)) \o
       List("object_formats", Unbounded, Item("u8", ObjectFormatLast)) \o
       encode_environment_variables("environment_requirements") \o U8s(<<"evidence_class">>)) \o
  List("target_support", Unbounded, Item("u8", ArchitectureLast)) \o
  List("object_formats", Unbounded, Item("u8", ObjectFormatLast)) \o
  encode_environment_variables("environment_contract") \o str(<<"toolkit_root", "sdk_root">>) \o
  encode_environment_variables("attributes") \o str(<<"standard_library_identity">>) \o
  U8s(<<"evidence_class">>) \o Digests(<<"evidence_digest">>)

decode_toolchain ==
  schema \o U64s(<<"id", "generation">>) \o U8s(<<"family">>) \o dec_str(<<"display_name", "version">>) \o
  List("components", 256,
       U64s(<<"id", "generation">>) \o U8s(<<"kind">>) \o dec_str(<<"name", "version">>) \o
       decode_file_identity \o List("command_capabilities", 256, Item("text", 4096)) \o
       decode_enum_list("target_support", 32, 4) \o decode_enum_list("object_formats", 32, 12) \o
       decode_environment_variables("environment_requirements") \o U8s(<<"evidence_class">>)) \o
  decode_enum_list("target_support", 32, 4) \o decode_enum_list("object_formats", 32, 12) \o
  decode_environment_variables("environment_contract") \o dec_path(<<"toolkit_root", "sdk_root">>) \o
  decode_environment_variables("attributes") \o dec_str(<<"standard_library_identity">>) \o
  U8s(<<"evidence_class">>) \o Digests(<<"evidence_digest">>)

IdentityHead == schema \o U64s(<<"id", "generation">>) \o Digests(<<"digest">>)

encode_target_identity == IdentityHead \o encode_target_spec
decode_target_identity == IdentityHead \o decode_target_spec
encode_environment_identity == IdentityHead \o encode_environment_spec
decode_environment_identity == IdentityHead \o decode_environment_spec
encode_policy_identity == IdentityHead \o encode_policy_spec
decode_policy_identity == IdentityHead \o decode_policy_spec

encode_source_unit ==
  schema \o U64s(<<"id", "generation">>) \o str(<<"path">>) \o U8s(<<"language">>) \o
  str(<<"dialect">>) \o Digests(<<"content">>) \o U64s(<<"size_bytes">>) \o Bools(<<"redact_diagnostics">>)

decode_source_unit ==
  schema \o U64s(<<"id", "generation">>) \o dec_path(<<"path">>) \o U8s(<<"language">>) \o
  Texts(<<"dialect">>, 256) \o Digests(<<"content">>) \o U64s(<<"size_bytes">>) \o
  Bools(<<"redact_diagnostics">>)

ProvenanceRefs == Refs(<<"session", "compilation", "phase", "invocation">>) \o AuthorityRefs

encode_provenance ==
  schema \o U64s(<<"id", "generation">>) \o str(<<"kind">>) \o ProvenanceRefs \o
  List("inputs", Unbounded, RefItem) \o List("outputs", Unbounded, RefItem) \o str(<<"adapter">>) \o
  U8s(<<"verdict">>) \o str(<<"detail">>) \o U64s(<<"at_nanos">>)

decode_provenance ==
  schema \o U64s(<<"id", "generation">>) \o Texts(<<"kind">>, 256) \o ProvenanceRefs \o
  List("inputs", 4096, RefItem) \o List("outputs", 4096, RefItem) \o Texts(<<"adapter">>, 256) \o
  U8s(<<"verdict">>) \o Texts(<<"detail">>, 2048) \o U64s(<<"at_nanos">>)
=============================================================================
