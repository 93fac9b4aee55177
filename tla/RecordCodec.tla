----------------------------- MODULE RecordCodec -----------------------------
(***************************************************************************)
(* The contents that the registries and the other producers let into a      *)
(* record, and what becomes of each when it is encoded and decoded again.   *)
(***************************************************************************)
EXTENDS MessageLayouts

Layouts ==
  [toolchain |-> [enc |-> encode_toolchain, dec |-> decode_toolchain],
   target |-> [enc |-> encode_target_identity, dec |-> decode_target_identity],
   environment |-> [enc |-> encode_environment_identity, dec |-> decode_environment_identity],
   policy |-> [enc |-> encode_policy_identity, dec |-> decode_policy_identity],
   source |-> [enc |-> encode_source_unit, dec |-> decode_source_unit],
   session |-> [enc |-> encode_session, dec |-> decode_session],
   artifact |-> [enc |-> encode_artifact, dec |-> decode_artifact],
   diagnostic_set |-> [enc |-> encode_diagnostic_set, dec |-> decode_diagnostic_set],
   provenance |-> [enc |-> encode_provenance, dec |-> decode_provenance],
   snapshot |-> [enc |-> encode_snapshot, dec |-> decode_snapshot],
   compile_request |-> [enc |-> encode_compile_request, dec |-> decode_compile_request],
   invocation_order |-> [enc |-> encode_invocation_order, dec |-> decode_invocation_order],
   execution_report |-> [enc |-> encode_execution_report, dec |-> decode_execution_report],
   phase_report |-> [enc |-> encode_phase_report, dec |-> decode_phase_report],
   audit_report |-> [enc |-> encode_audit_report, dec |-> decode_audit_report],
   session_summary |-> [enc |-> encode_session, dec |-> decode_session],
   hello |-> [enc |-> encode_hello, dec |-> decode_hello],
   error |-> [enc |-> encode_error, dec |-> decode_error],
   workspace_request |-> [enc |-> encode_workspace_request, dec |-> decode_workspace_request],
   phase_reference |-> [enc |-> encode_phase_reference, dec |-> decode_phase_reference]]

----------------------------------------------------------------------------
(* Values: every field is ordinary, or one field has an unusual magnitude.  *)

Ordinary(f) == IF f.t = "digest" THEN 64 ELSE 1

RECURSIVE ValueOf(_, _, _)
ValueOf(layout, path, mag) ==
  [n \in Names(layout) |->
     LET f == FieldOf(layout, n)
         named == path # <<>> /\ Head(path) = n
         size == IF named /\ Len(path) = 1 THEN mag ELSE Ordinary(f)
     IN  Value(n, size, IF f.of = <<>> \/ size = 0 THEN <<>>
                        ELSE ValueOf(f.of, IF named THEN Tail(path) ELSE <<>>, mag))]

\* Nothing, the most a decoder takes, one more than that, and the most there is.
Unusual(e, d) ==
  IF e.t \in {"digest", "blob"} THEN {}
  ELSE {m \in {0, d.max, d.max + 1} \cup (IF e.t \in {"text", "list"} THEN {} ELSE {e.max}) : m <= e.max}

RECURSIVE SamplesOf(_, _)
SamplesOf(enc, dec) ==
  UNION {LET e == FieldOf(enc, n)
             d == FieldOf(dec, n)
         IN  {[path |-> <<n>>, mag |-> m] : m \in Unusual(e, d)} \cup
             (IF e.of = <<>> THEN {}
              ELSE {[path |-> <<n>> \o s.path, mag |-> s.mag] : s \in SamplesOf(e.of, d.of)})
           : n \in Names(enc) \ {"schema"}}

ValueAt(kind, sample) == ValueOf(Layouts[kind].enc, sample.path, sample.mag)

----------------------------------------------------------------------------
(* What is admitted. *)

Size(v, n) == v[n].mag
Each(v, n, n2, S) == Size(v, n) > 0 => v[n].item[n2].mag \in S

\* The pointer width of the architecture is the ordinary one.
TargetSpec_validate(v) ==
  /\ Size(v, "architecture") # 0 /\ Size(v, "os") # 0
  /\ Size(v, "triple") \in 1..256
  /\ Size(v, "pointer_width_bits") \in {0, 1}

ExplicitLocale == 1

EnvironmentSpec_canonicalize(v) ==
  /\ Size(v, "variables") <= 4096
  /\ \A n \in SearchPaths : Size(v, n) <= 1024
  /\ Size(v, "inherited_variables") <= 256
  /\ Each(v, "variables", "name", 1..1024)
  /\ Each(v, "variables", "value", 0..32768)
  /\ Size(v, "variables") > 0 => Size(v, "variables") * v["variables"].item["value"].mag <= 1048576
  /\ Each(v, "inherited_variables", "item", 1..Unbounded)
  /\ Size(v, "locale_policy") = ExplicitLocale => Size(v, "locale_name") > 0

kMaxRetriesCeiling == 32

PolicySpec_validate(v) ==
  /\ Size(v, "max_retries_per_phase") <= kMaxRetriesCeiling
  /\ Size(v, "max_retries_per_session") <= kMaxRetriesCeiling * 4
  /\ Size(v, "forbidden_options") <= 256
  /\ Each(v, "forbidden_options", "item", 1..4096)
  /\ Size(v, "allow_parallel_phases") # 0 => Size(v, "max_parallel_phases") # 0
  /\ Size(v, "max_parallel_phases") <= 256

SyntheticEvidence == 2

ToolchainAdmitted(v) ==
  /\ Size(v, "family") # 0
  /\ Size(v, "components") # 0 \/ Size(v, "evidence_class") = SyntheticEvidence

\* The registries do not look at the identity and generation of a candidate.
Admitted(kind, v) ==
  CASE kind = "target" -> TargetSpec_validate(v)
    [] kind = "environment" -> EnvironmentSpec_canonicalize(v)
    [] kind = "policy" -> PolicySpec_validate(v)
    [] kind = "toolchain" -> ToolchainAdmitted(v)
    [] OTHER -> TRUE

Own(path) == path # <<"id">> /\ path # <<"generation">>

AdmittedSamples(kind) ==
  {Plain} \cup {s \in SamplesOf(Layouts[kind].enc, Layouts[kind].dec) :
                  Own(s.path) /\ Admitted(kind, ValueAt(kind, s))}

\* The volume and index tell two files apart when both are known, the path when not.
same_file_as(a, b) ==
  IF Size(a, "volume_serial_hex") = 0 \/ Size(b, "volume_serial_hex") = 0
  THEN a["canonical_path"] = b["canonical_path"]
  ELSE a["volume_serial_hex"] = b["volume_serial_hex"] /\ a["file_index_hex"] = b["file_index_hex"]

same_binary_as(a, b) ==
  /\ same_file_as(a, b)
  /\ IF Size(a, "content_hashed") # 0 /\ Size(b, "content_hashed") # 0
     THEN a["content"] = b["content"]
     ELSE \A n \in {"size_bytes", "last_write_nanos", "content_hashed"} : a[n] = b[n]

\* Of a component its name and its file count, of the environment contract its size.
diff_toolchains(previous, observed) ==
  \/ Size(previous, "components") # Size(observed, "components")
  \/ Size(previous, "components") > 0 /\ Size(observed, "components") > 0
     /\ LET a == previous["components"].item
            b == observed["components"].item
        IN  a["name"] # b["name"] \/ ~same_binary_as(a, b)
  \/ \E n \in {"attributes", "version", "standard_library_identity", "toolkit_root", "evidence_digest"} :
       previous[n] # observed[n]
  \/ Size(previous, "environment_contract") # Size(observed, "environment_contract")

----------------------------------------------------------------------------
(* What the code that makes a record limits. *)

Ceiling(path, max) == [path |-> path, max |-> max]

\* Names that adapters choose, and paths of files that exist.
AdapterName == 256
OsPath == 32767

Ceilings ==
  [k \in Kinds |->
     CASE k \in {"session", "session_summary"} ->
            {Ceiling(<<"phases", "phase", "attempts">>, 64), Ceiling(<<"phases", "phase", "history">>, 256),
             Ceiling(<<"plan", "nodes">>, kMaxPhases), Ceiling(<<"phases">>, kMaxPhases),
             Ceiling(<<"plan", "nodes", "depends_on">>, kMaxPhases),
             Ceiling(<<"phases", "phase", "depends_on">>, kMaxPhases),
             Ceiling(<<"plan", "nodes", "required_inputs">>, kMaxPhases),
             Ceiling(<<"plan", "nodes", "expected_outputs">>, 256),
             Ceiling(<<"sources">>, kMaxSources), Ceiling(<<"intermediates">>, kMaxArtifacts),
             Ceiling(<<"candidate", "lineage">>, kMaxArtifacts),
             Ceiling(<<"candidate", "validation_evidence">>, kMaxArtifacts),
             Ceiling(<<"phases", "phase", "inputs">>, kMaxArtifacts),
             Ceiling(<<"phases", "phase", "outputs">>, kMaxArtifacts),
             Ceiling(<<"candidate", "path">>, OsPath), Ceiling(<<"adapter_name">>, AdapterName),
             Ceiling(<<"plan", "nodes", "adapter_phase">>, AdapterName),
             Ceiling(<<"phases", "phase", "adapter_phase">>, AdapterName)}
       [] k = "artifact" -> {Ceiling(<<"path">>, OsPath), Ceiling(<<"lineage_inputs">>, kMaxArtifacts)}
       [] k = "diagnostic_set" ->
            {Ceiling(<<"raw_stdout_tail">>, kMaxRawTailBytes), Ceiling(<<"raw_stderr_tail">>, kMaxRawTailBytes),
             Ceiling(<<"entries", "origin">>, AdapterName)} \cup
            {Ceiling(<<"entries", n>>, 8192) : n \in {"code", "message", "file", "raw"}}
       [] k = "provenance" -> {Ceiling(<<"detail">>, 2048), Ceiling(<<"kind">>, AdapterName),
                               Ceiling(<<"adapter">>, AdapterName), Ceiling(<<"outputs">>, 256)}
       [] OTHER -> {}]

Produced(k) ==
  {s \in AdmittedSamples(k) : \A c \in Ceilings[k] : c.path = s.path => s.mag <= c.max}

ProducedSamples == [k \in Kinds |-> IF k = "plan" THEN {Plain} ELSE Produced(k)]

\* What is read back of a record: the same, nothing, or something else.
ReadBack(k, sample) ==
  LET v == ValueAt(k, sample)
      written == Encode(Layouts[k].enc, v)
  IN  IF ~Decodes(Layouts[k].dec, written) THEN "refused"
      ELSE IF Decoded(Layouts[k].dec, written) = v THEN "as sent" ELSE "altered"

\* The bytes of the texts of a message; its numbers are left out.
RECURSIVE TextBytes(_, _)
TextBytes(layout, v) ==
  LET Bytes(n) == LET f == FieldOf(layout, n)
                  IN  IF f.t \in {"text", "digest"} THEN v[n].mag
                      ELSE IF f.of = <<>> \/ v[n].mag = 0 THEN 0
                      ELSE v[n].mag * TextBytes(f.of, v[n].item)
  IN  FoldSet(LAMBDA n, sum : sum + Bytes(n), 0, Names(layout))

\* FieldWriter::text and FieldWriter::blob leave out a field that is too long.
FieldWritten(v, n) == v[n].mag <= kMaxFieldBytes \/ n \notin {"runtime_name", "role", "detail"}

\* A decoder that reads field by field keeps its default for a missing one; a
\* payload without its only field is refused by field_blob.
Arrives(k, sample) ==
  LET v == ValueAt(k, sample)
  IN  IF k \in FieldMessages
      THEN IF \A n \in Names(Layouts[k].enc) : FieldWritten(v, n) THEN ReadBack(k, sample) ELSE "altered"
      ELSE IF TextBytes(Layouts[k].enc, v) > kMaxFieldBytes THEN "refused"
      ELSE ReadBack(k, sample)

\* What becomes of a record that is written and read back.
Crossing(k, sample) == IF k \in Messages THEN Arrives(k, sample) ELSE ReadBack(k, sample)

\* What the codec makes of the two contents, and whether they differ for refresh.
CodecFate(k, sample) ==
  IF k = "plan" THEN [ordinary |-> "as sent", unusual |-> "as sent", differ |-> FALSE]
  ELSE [ordinary |-> Crossing(k, Plain), unusual |-> Crossing(k, sample),
        differ |-> k = "toolchain" /\ diff_toolchains(ValueAt(k, Plain), ValueAt(k, sample))]
=============================================================================
