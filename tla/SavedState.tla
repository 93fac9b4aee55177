------------------------------ MODULE SavedState ------------------------------
(***************************************************************************)
(* What outlives the process that holds it: the authority a session is      *)
(* bound to and the records a session owns, stored in session bundles and    *)
(* read back by Runtime::create, and the messages that cross between two     *)
(* processes.  A behaviour follows one kind of record, with its ordinary     *)
(* contents and with one field of an unusual magnitude.                     *)
(***************************************************************************)
EXTENDS AuthorityRegistry, PlanProposal

CONSTANTS
  NSessions,       \* how many sessions may be created
  MaxGeneration,   \* bounds the revisions of an entry
  MaxBundles,      \* bounds the bundles written between restarts
  MaxRestarts,
  Samples,         \* for each kind, the contents that its producers let through
  Fate(_, _)       \* what the codec makes of the contents of a kind of record

VARIABLES
  kind,        \* the kind of record that this behaviour follows
  unusual,     \* the contents it may have besides the ordinary ones
  fate,        \* what becomes of the two: Fate(kind, unusual)
  entry,       \* the live record; generation 0 when there is none
  bound,       \* what each session was bound to when it was created
  journal,     \* the bundles in the journal: [session, generation, sample]
  running,     \* "up", "down", or "refused" when create returned an error
  restarts,
  wire,        \* a message under way, by its sample
  inbox        \* what its receiver made of it: "none", "as sent", "refused", "altered"

vars == <<kind, unusual, fate, entry, bound, journal, running, restarts, wire, inbox, proposal>>

\* In the order of their creation.
Sessions == 1..NSessions

Absent == Entry(0, Plain)
Garbled == [path |-> <<"garbled">>, mag |-> 0]

----------------------------------------------------------------------------
(* What the codec does to a record that is stored. *)

Outcomes == {"as sent", "refused", "altered"}

\* The texts, paths and sizes that nothing limits before they are stored, and that
\* their decoder refuses beyond a bound.
Variables(n) == {<<n>>, <<n, "name">>, <<n, "value">>}
Supports == {<<"target_support">>, <<"object_formats">>}
Unguarded ==
  [target |-> {<<"cpu">>, <<"device_arch">>, <<"device_virtual_arch">>, <<"abi">>},
   environment |-> {<<"working_directory">>, <<"temp_directory">>, <<"locale_name">>,
                    <<"inherited_variables", "item">>} \cup {<<n, "item">> : n \in SearchPaths},
   policy |-> {<<"retryable_classes">>, <<"max_diagnostic_entries">>, <<"max_diagnostic_bytes_per_stream">>},
   source |-> {<<"path">>, <<"dialect">>},
   toolchain |-> {<<"display_name">>, <<"version">>, <<"toolkit_root">>, <<"sdk_root">>,
                  <<"standard_library_identity">>, <<"components">>} \cup Supports \cup
                 Variables("environment_contract") \cup Variables("attributes") \cup
                 {<<"components">> \o q : q \in
                    {<<"name">>, <<"version">>, <<"canonical_path">>, <<"volume_serial_hex">>,
                     <<"file_index_hex">>, <<"command_capabilities">>, <<"command_capabilities", "item">>}
                    \cup Supports \cup Variables("environment_requirements")},
   session |-> {<<"final_artifact_name">>, <<"cooperating_toolchains">>, <<"failure_detail">>,
                <<"phases", "phase", "last_detail">>, <<"phases", "phase", "attempts", "detail">>,
                <<"phases", "phase", "history", "reason">>} \cup Variables("adapter_options"),
   artifact |-> {<<"validation_detail">>},
   diagnostic_set |-> {<<"entries">>},
   provenance |-> {<<"inputs">>}]

ASSUME BoundsAssumption ==
  NSessions \in Nat /\ MaxGeneration \in Nat \ {0} /\ MaxBundles \in Nat /\ MaxRestarts \in Nat

\* A record of a kind that is stored is read back as it was, or its unguarded field is
\* refused.
ASSUME CodecAssumption ==
  \A k \in Kinds : \A s \in Samples[k] :
    LET f == Fate(k, s)
    IN  /\ f \in [ordinary : Outcomes, unusual : Outcomes, differ : BOOLEAN]
        /\ k \in Saved => /\ f.ordinary = "as sent"
                          /\ f.unusual = "as sent" \/ (f.unusual = "refused" /\ s.path \in Unguarded[k])

----------------------------------------------------------------------------
Becomes(sample) == IF sample = Plain THEN fate.ordinary ELSE fate.unusual

Differ(a, b) == a # b /\ fate.differ

Init ==
  /\ kind \in Kinds
  /\ unusual \in Samples[kind] /\ fate = Fate(kind, unusual)
  /\ entry = Absent
  /\ bound = [s \in Sessions |-> Absent]
  /\ journal = <<>>
  /\ running = "up"
  /\ restarts = 0
  /\ wire = Plain /\ inbox = "none"
  /\ ProposalInit

Up == running = "up" /\ kind \in Saved

Contents == {Plain, unusual}

\* ToolchainRegistry::register_toolchain, the registries' intern, SourceRegistry::add;
\* for a record that a session owns, its first contents.
Register ==
  /\ Up /\ entry = Absent
  /\ \E sample \in Contents :
       entry' = IF kind = "toolchain" THEN register_toolchain(sample)
                ELSE IF kind = "source" THEN add_source(sample)
                ELSE intern(sample)
  /\ UNCHANGED <<kind, unusual, fate, bound, journal, running, restarts, wire, inbox, proposal>>

Revise ==
  /\ Up /\ kind \in {"target", "environment", "policy"}
  /\ entry.generation \in 1..(MaxGeneration - 1)
  /\ \E sample \in Contents : entry' = revise(entry, sample)
  /\ UNCHANGED <<kind, unusual, fate, bound, journal, running, restarts, wire, inbox, proposal>>

Refresh ==
  /\ Up /\ kind = "toolchain"
  /\ entry.generation \in 1..(MaxGeneration - 1)
  /\ \/ \E sample \in Contents : entry' = refresh(entry, sample, Differ(entry.sample, sample))
     \/ entry' = invalidate(entry)
  /\ UNCHANGED <<kind, unusual, fate, bound, journal, running, restarts, wire, inbox, proposal>>

\* A later step of the session gives a record it owns other contents.
Update ==
  /\ Up /\ kind \in Owned /\ entry # Absent
  /\ \E sample \in Contents : entry' = Entry(1, sample)
  /\ UNCHANGED <<kind, unusual, fate, bound, journal, running, restarts, wire, inbox, proposal>>

Bundle(s, e) == [session |-> s, generation |-> e.generation, sample |-> e.sample]

\* Runtime::create_session ends by storing the session.
CreateSession ==
  /\ Up /\ entry # Absent
  /\ \E s \in Sessions :
       /\ bound[s] = Absent
       /\ \A t \in Sessions : t < s => bound[t] # Absent
       /\ kind \in Owned => s = 1
       /\ bound' = [bound EXCEPT ![s] = entry]
       /\ journal' = Append(journal, Bundle(s, entry))
  /\ UNCHANGED <<kind, unusual, fate, entry, running, restarts, wire, inbox, proposal>>

\* Runtime::Impl::persist, with the authority as it is now.
Persist ==
  /\ Up /\ Len(journal) < MaxBundles
  /\ \E s \in Sessions : bound[s] # Absent /\ journal' = Append(journal, Bundle(s, entry))
  /\ UNCHANGED <<kind, unusual, fate, entry, bound, running, restarts, wire, inbox, proposal>>

Crash ==
  /\ Up /\ restarts < MaxRestarts
  /\ running' = "down" /\ entry' = Absent
  /\ UNCHANGED <<kind, unusual, fate, bound, journal, restarts, wire, inbox, proposal>>

----------------------------------------------------------------------------
(* Runtime::create reads the bundles back. *)

Outcome(b) == Becomes(b.sample)

\* The session, its artifacts and its diagnostics are decoded with the bundle, which
\* is passed over when that fails; the rest is decoded when the bundle is adopted.
PassedOver(b) == kind \in {"session", "artifact", "diagnostic_set"} /\ Outcome(b) = "refused"

BundlesOf(s) == {i \in DOMAIN journal : journal[i].session = s /\ ~PassedOver(journal[i])}

\* Mutant: the first bundle of a session wins.
Latest_first(s) == journal[CHOOSE i \in BundlesOf(s) : \A j \in BundlesOf(s) : i <= j]

Latest(s) == journal[CHOOSE i \in BundlesOf(s) : \A j \in BundlesOf(s) : j <= i]

Recovered(b) == IF Outcome(b) = "as sent" THEN b.sample ELSE Garbled

\* A target, an environment or a policy returns with its first generation.
Reinstated(b) ==
  IF kind = "toolchain" THEN register_toolchain_as(b.generation, Recovered(b))
  ELSE IF kind = "source" THEN add_as(b.generation, Recovered(b))
  ELSE intern_as(Recovered(b))

\* Mutant: an entry that an earlier session put back is in the way of the next.
Adopt_once(acc, s) ==
  IF ~acc.ok \/ BundlesOf(s) = {} THEN acc
  ELSE IF acc.entry # Absent \/ Outcome(Latest(s)) = "refused" THEN [acc EXCEPT !.ok = FALSE]
  ELSE LET e == Reinstated(Latest(s))
       IN  [ok |-> TRUE, entry |-> e, journal |-> Append(acc.journal, Bundle(s, e))]

\* A session is stored again once it is adopted.
Adopt(acc, s) ==
  IF ~acc.ok \/ BundlesOf(s) = {} THEN acc
  ELSE IF Outcome(Latest(s)) = "refused" THEN [acc EXCEPT !.ok = FALSE]
  ELSE LET e == Reinstated(Latest(s))
       IN  [ok |-> TRUE, entry |-> e, journal |-> Append(acc.journal, Bundle(s, e))]

\* The sessions are adopted in ascending order.
Adopted ==
  LET upTo[s \in 0..NSessions] ==
        IF s = 0 THEN [ok |-> TRUE, entry |-> Absent, journal |-> journal] ELSE Adopt(upTo[s - 1], s)
  IN  upTo

Restart ==
  /\ running = "down" /\ kind \in Saved
  /\ LET all == Adopted[NSessions]
     IN  /\ running' = IF all.ok THEN "up" ELSE "refused"
         /\ entry' = IF all.ok THEN all.entry ELSE Absent
         /\ journal' = all.journal
         /\ bound' = [s \in Sessions |-> IF BundlesOf(s) = {} THEN Absent ELSE bound[s]]
  /\ restarts' = restarts + 1
  /\ UNCHANGED <<kind, unusual, fate, wire, inbox, proposal>>

----------------------------------------------------------------------------
(* Messages. *)

Send ==
  /\ kind \in Messages \cup {"snapshot"} /\ inbox = "none" /\ wire = Plain
  /\ unusual # Plain /\ wire' = unusual
  /\ UNCHANGED <<kind, unusual, fate, entry, bound, journal, running, restarts, inbox, proposal>>

Receive ==
  /\ kind \in Messages \cup {"snapshot"} /\ wire # Plain /\ inbox = "none"
  /\ inbox' = Becomes(wire)
  /\ UNCHANGED <<kind, unusual, fate, entry, bound, journal, running, restarts, wire, proposal>>

\* An adapter proposes a plan, which create_session and decode_plan build.
Propose ==
  /\ kind = "plan" /\ ProposePlan
  /\ UNCHANGED <<kind, unusual, fate, entry, bound, journal, running, restarts, wire, inbox>>

Next ==
  \/ Register \/ Revise \/ Refresh \/ Update \/ CreateSession \/ Persist \/ Crash \/ Restart
  \/ Send \/ Receive \/ Propose

Spec == Init /\ [][Next]_vars

----------------------------------------------------------------------------
(* Properties. *)

\* The record being followed, the bundles and the message are what they may be.
SavedTypeOK ==
  /\ kind \in Kinds
  /\ entry.generation \in 0..MaxGeneration
  /\ running \in {"up", "down", "refused"}
  /\ restarts \in 0..MaxRestarts
  /\ inbox \in {"none", "as sent", "refused", "altered"}
  /\ \A i \in DOMAIN journal :
       journal[i].session \in Sessions /\ journal[i].generation \in 1..MaxGeneration

Guarded(b) == b.sample.path \notin Unguarded[kind]

\* The bundle that decides what a restart puts back: the last one of the highest session.
Deciding ==
  LET written == {i \in DOMAIN journal : \A j \in DOMAIN journal : journal[j].session <= journal[i].session}
  IN  journal[CHOOSE i \in written : \A j \in written : j <= i]

\* A restart puts back the last contents that were stored, whatever the validators and
\* the producers let through, in every record but those with an unguarded field; a
\* toolchain returns with the generation it had.
SavedIsRestored ==
  [][running = "down" /\ running' = "up" /\ journal # <<>> /\ Guarded(Deciding)
       => /\ entry'.sample = Deciding.sample
          /\ kind = "toolchain" => entry'.generation = Deciding.generation]_vars

\* Runtime::create refuses to start on state of its own writing only when some
\* bundle holds an unguarded field.
RefusesOnlyUnguarded ==
  running = "refused" => \E i \in DOMAIN journal : ~Guarded(journal[i])

\* Two contents never share a generation: a session whose binding is current is bound
\* to what the registry holds.  Toolchains and sources keep this across restarts, even
\* when the bundles of several sessions disagree; the generations of targets,
\* environments and policies are only kept within a process.
GenerationNamesContent ==
  running = "up" /\ (kind \in {"toolchain", "source"} \/ (kind \in Registered /\ restarts = 0))
    => \A s \in Sessions :
         bound[s] # Absent /\ bound[s].generation = entry.generation
           => \/ bound[s].sample = entry.sample
              \/ kind = "toolchain" /\ ~Differ(bound[s].sample, entry.sample)

\* A message is received as it was sent or refused, never as another message; the text
\* of a hello or of an error beyond the field ceiling is the exception.
ReceivedAsSent ==
  inbox = "altered" => kind \in {"hello", "error"} /\ wire.mag > kMaxFieldBytes
=============================================================================
