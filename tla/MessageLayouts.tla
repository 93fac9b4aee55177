--------------------------- MODULE MessageLayouts ---------------------------
(***************************************************************************)
(* The payloads of messages.cpp, as they are packed and as they are         *)
(* unpacked.  A payload is a sequence of numbered fields; most have one      *)
(* field, which holds the packed message.                                   *)
(***************************************************************************)
EXTENDS PersistedLayouts, AuthorityRegistry

kMaxItems == 4096

\* Unpacker::str and Unpacker::path, whose default bound is the same.
unpacked(names) == Texts(names, 32768)

----------------------------------------------------------------------------
\* pack_environment and pack_target make the calls of the persistence
\* encoders, and unpack_environment and unpack_target those of the decoders.
pack_environment == encode_environment_spec
unpack_environment == decode_environment_spec
pack_target == encode_target_spec

\* Mutant: two numbers of one width are read in the wrong order.
unpack_target_swapped ==
  U8s(<<"os", "architecture">>) \o Texts(TargetTexts, 256) \o U32s(<<"pointer_width_bits">>)

unpack_target == decode_target_spec
pack_policy == encode_policy_spec

\* unpack_policy leaves the three sizes that decode_policy_spec checks unchecked.
unpack_policy ==
  U8s(<<"reproducibility">>) \o U32s(<<"max_retries_per_phase", "max_retries_per_session">>) \o
  List("retryable_classes", 64, Item("u8", 255)) \o
  List("forbidden_options", 256, Item("text", 4096)) \o
  Bools(<<"allow_parallel_phases">>) \o U64s(<<"max_parallel_phases">>) \o
  U32s(<<"phase_timeout_millis", "validation_timeout_millis">>) \o
  Bools(<<"run_smoke_test", "require_content_digest">>) \o
  U64s(<<"max_diagnostic_entries", "max_diagnostic_bytes_per_stream">>) \o Bools(<<"allow_local_cache">>)

\* The fields of a nested structure, by their name within it.
In(prefix, layout) == [i \in DOMAIN layout |-> [layout[i] EXCEPT !.n = prefix \o "." \o @]]

RequestHead ==
  U64s(<<"request", "compilation", "compilation_generation", "attempt", "attempt_generation">>) \o
  U8s(<<"toolchain_family">>) \o U64s(<<"toolchain">>)

encode_compile_request ==
  RequestHead \o In("target", pack_target) \o List("sources", Unbounded, Item("text", Unbounded)) \o
  List("inline_sources", Unbounded, str(<<"name", "contents">>)) \o
  str(<<"output_directory", "final_artifact_name">>) \o In("policy", pack_policy) \o
  In("environment", pack_environment) \o Bools(<<"stage_inputs", "run_smoke_test">>) \o
  List("adapter_options", Unbounded, str(<<"name", "value">>))

decode_compile_request ==
  RequestHead \o In("target", unpack_target) \o List("sources", kMaxItems, Item("text", 32768)) \o
  List("inline_sources", kMaxItems, Texts(<<"name">>, 4096) \o Texts(<<"contents">>, 4194304)) \o
  unpacked(<<"output_directory">>) \o Texts(<<"final_artifact_name">>, 4096) \o
  In("policy", unpack_policy) \o In("environment", unpack_environment) \o
  Bools(<<"stage_inputs", "run_smoke_test">>) \o
  List("adapter_options", kMaxItems, Texts(<<"name">>, 4096) \o Texts(<<"value">>, 65536))

----------------------------------------------------------------------------
OrderHead ==
  U64s(<<"id", "generation">>) \o Refs(<<"session", "phase">>) \o
  U64s(<<"attempt_generation", "component", "component_generation">>) \o
  Refs(<<"toolchain", "target", "environment", "policy">>)

OrderIdentity == Digests(<<"executable_identity.content">>) \o U64s(<<"executable_identity.size_bytes">>)

encode_invocation_order ==
  OrderHead \o str(<<"executable">>) \o OrderIdentity \o
  List("arguments", Unbounded, Item("text", Unbounded)) \o
  List("process.environment", Unbounded, str(<<"name", "value">>)) \o
  str(<<"process.working_directory", "working_directory">>) \o U8s(<<"style">>) \o
  str(<<"adapter_name">>) \o Bools(<<"produced_executable">>) \o
  List("expected_outputs", Unbounded, str(<<"logical_name", "path">>) \o
                                      Enum8("expected_format", ObjectFormatLast) \o
                                      Bools(<<"required", "allow_empty">>)) \o
  U32s(<<"timeout_millis">>) \o U64s(<<"max_capture_bytes">>) \o str(<<"workspace_root", "phase_label">>)

decode_invocation_order ==
  OrderHead \o unpacked(<<"executable">>) \o OrderIdentity \o
  List("arguments", 65536, Item("text", 1048576)) \o
  List("process.environment", kMaxItems, Texts(<<"name">>, 4096) \o Texts(<<"value">>, 65536)) \o
  unpacked(<<"process.working_directory", "working_directory">>) \o U8s(<<"style">>) \o
  Texts(<<"adapter_name">>, 256) \o Bools(<<"produced_executable">>) \o
  List("expected_outputs", 256, Texts(<<"logical_name">>, 256) \o unpacked(<<"path">>) \o
                                U8s(<<"expected_format">>) \o Bools(<<"required", "allow_empty">>)) \o
  U32s(<<"timeout_millis">>) \o U64s(<<"max_capture_bytes">>) \o unpacked(<<"workspace_root">>) \o
  Texts(<<"phase_label">>, 256)

ReportHead ==
  Bools(<<"executed">>) \o Refs(<<"process", "invocation">>) \o U32s(<<"os_process_id">>) \o
  U8s(<<"termination">>) \o U32s(<<"exit_code">>)

ReportNumbers ==
  U64s(<<"standard_output_bytes", "standard_error_bytes", "dropped_standard_output_bytes",
         "dropped_standard_error_bytes">>) \o Bools(<<"truncated">>) \o
  U64s(<<"started_at_nanos", "finished_at_nanos">>) \o U16s(<<"status">>)

OutputTail == U8s(<<"format">>) \o Digests(<<"content">>) \o U64s(<<"size_bytes">>) \o Bools(<<"exists">>)

encode_execution_report ==
  ReportHead \o str(<<"standard_output", "standard_error">>) \o ReportNumbers \o
  str(<<"detail", "workspace_root">>) \o Digests(<<"workspace_marker">>) \o
  List("outputs", Unbounded, str(<<"logical_name", "path">>) \o OutputTail) \o
  List("diagnostics", Unbounded, encode_diagnostic)

decode_execution_report ==
  ReportHead \o Texts(<<"standard_output", "standard_error">>, 4194304) \o ReportNumbers \o
  Texts(<<"detail">>, 65536) \o unpacked(<<"workspace_root">>) \o Digests(<<"workspace_marker">>) \o
  List("outputs", 256, Texts(<<"logical_name">>, 256) \o unpacked(<<"path">>) \o OutputTail) \o
  List("diagnostics", kMaxEntries,
       U8s(<<"severity">>) \o Texts(<<"code">>, 256) \o Texts(<<"message">>, 8192) \o
       Texts(<<"file">>, 4096) \o U32s(<<"line", "column">>) \o Texts(<<"origin">>, 256) \o
       Texts(<<"raw">>, 8192))

----------------------------------------------------------------------------
PhaseReportHead ==
  Refs(<<"phase">>) \o U8s(<<"state">>) \o U16s(<<"status">>) \o U8s(<<"failure">>) \o
  Refs(<<"diagnostics", "invocation">>) \o U64s(<<"process", "compiler_nanos", "governance_nanos">>) \o
  U8s(<<"authority">>)

encode_phase_report == PhaseReportHead \o str(<<"detail">>) \o List("outputs", Unbounded, RefItem)
decode_phase_report == PhaseReportHead \o Texts(<<"detail">>, 65536) \o List("outputs", 256, RefItem)

AuditHead ==
  U64s(<<"checks_run", "sessions_audited", "phases_audited", "artifacts_audited", "runtime_epoch">>)

encode_audit_report ==
  AuditHead \o List("violations", Unbounded, U8s(<<"code">>) \o str(<<"subject", "detail">>))

decode_audit_report ==
  AuditHead \o
  List("violations", kMaxItems, U8s(<<"code">>) \o Texts(<<"subject">>, 4096) \o Texts(<<"detail">>, 65536))

\* Payloads that are written field by field; the last field of a hello and the
\* subject of an error are not read.
encode_hello == str(<<"runtime_name", "role">>) \o U64s(<<"epoch">>) \o str(<<"detail">>)
decode_hello == Texts(<<"runtime_name", "role">>, kMaxFieldBytes) \o U64s(<<"epoch">>) \o
                Texts(<<"detail">>, kMaxFieldBytes)
encode_error == Enum16("code", StatusCodeLast) \o str(<<"detail">>)
decode_error == U16s(<<"code">>) \o Texts(<<"detail">>, kMaxFieldBytes)
encode_workspace_request == U64s(<<"session", "session_generation", "phase", "phase_generation">>)
decode_workspace_request == U64s(<<"session", "session_generation", "phase", "phase_generation">>)
encode_phase_reference == U64s(<<"session", "phase", "phase_generation">>) \o Refs(<<"invocation">>)
decode_phase_reference == U64s(<<"session", "phase", "phase_generation">>) \o Refs(<<"invocation">>)
=============================================================================
