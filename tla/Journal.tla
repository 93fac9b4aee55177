------------------------------ MODULE Journal ------------------------------
(***************************************************************************)
(* PersistenceStore: the append-only journal, its snapshot, and the part of *)
(* Runtime::create that replays it.  A file is a sequence of cells, a      *)
(* few bytes each; a write may fail after any prefix, a flush after the     *)
(* whole write, and the process may end between any two system calls.  What *)
(* a failed write leaves behind stays in the file until it is overwritten.  *)
(***************************************************************************)
EXTENDS Integers, Sequences, Functions, FiniteSetsExt

CONSTANTS
  Sessions,     \* session identities, as numbers
  Bundles,      \* encoded session bundles: [session, size, decodes]
  NoBundle,     \* nothing was restored for a session
  MaxRecord,    \* PersistenceOptions::max_record_bytes, in cells
  MaxRecords,   \* PersistenceOptions::max_records_per_load
  MaxJournal,   \* PersistenceOptions::max_journal_bytes, in cells
  MaxEpoch,     \* starts that are modelled
  MaxFaults     \* writes and flushes that fail

ASSUME SessionsAreNumbers == Sessions \subseteq Nat

ASSUME BundlesAreSized ==
  Bundles \subseteq [session : Sessions, size : Nat \ {0}, decodes : BOOLEAN]

ASSUME NoBundleIsNone == NoBundle \notin [seq : Nat, body : Bundles]

ASSUME LimitsAreNumbers ==
  /\ MaxRecord \in Nat \ {0} /\ MaxRecords \in Nat /\ MaxJournal \in Nat
  /\ MaxEpoch \in Nat /\ MaxFaults \in Nat

VARIABLES
  file,         \* the journal; an absent file and an empty one are alike
  temp,         \* the snapshot's temporary file: [seq, written] or NoBundle
  snap,         \* the snapshot
  pc,           \* where the process is in create, in a call, or in shutdown
  bytes,        \* Impl::bytes
  last,         \* Impl::last_sequence
  epoch,        \* Impl::epoch and the runtime's epoch
  restored,     \* the bundle create found for each session
  todo,         \* the sessions create has still to save again
  acked,        \* the records whose append reported success, or that an open found,
                \* since the last reset
  served,       \* the last epoch in which a runtime was handed to its caller
  scars,        \* the write faults that can make the journal unreadable
  faults

disk == <<file, temp, snap>>
memory == <<bytes, last, epoch, restored, todo>>
vars == <<file, temp, snap, pc, bytes, last, epoch, restored, todo, acked, served, scars, faults>>

----------------------------------------------------------------------------
(* The layout of the file. *)

HeaderCells == 3
RecordHeaderCells == 2
EpochSize == 1

EpochBody(e) == [epoch |-> e]

\* The first cell holds the magic and the version, the second the epoch, and
\* the third their checksum.
JournalHeader(e) ==
  [i \in 1..HeaderCells |-> [is |-> "header", at |-> i, of |-> EpochBody(IF i = 1 THEN 0 ELSE e)]]

\* The checksum of a torn header does not match its epoch.
ValidHeader(f) ==
  /\ Len(f) >= HeaderCells
  /\ \A i \in 1..HeaderCells : f[i].is = "header" /\ f[i].at = i
  /\ f[3].of = f[2].of

\* A record is its header, checked as a whole, and its payload, whose checksum
\* is in the header.  stamp is the wall clock.
RecordCells(r) ==
  [i \in 1..RecordHeaderCells + r.size |->
     IF i <= RecordHeaderCells THEN [is |-> "record", at |-> i, of |-> r]
     ELSE [is |-> "payload", at |-> i - RecordHeaderCells, of |-> r.body]]

\* Impl::write_at for the cells s that were written before it returned.
WriteAt(f, offset, s) ==
  [i \in 1..Max({Len(f), offset + Len(s)}) |->
     IF i > offset /\ i <= offset + Len(s) THEN s[i - offset] ELSE f[i]]

----------------------------------------------------------------------------
(* scan_journal and load. *)

\* The locals of scan_journal, and what it returns once outcome is set.
ScanStart ==
  [cursor |-> HeaderCells, last |-> 0, records |-> <<>>, outcome |-> "reading", repaired |-> 0]

Stop(scan, outcome, repaired) == [scan EXCEPT !.outcome = outcome, !.repaired = repaired]

\* The record at the cursor has a whole, unmixed header.
HeaderIntact(f, cursor) ==
  \A i \in 1..RecordHeaderCells :
    f[cursor + i] = [is |-> "record", at |-> i, of |-> f[cursor + 1].of]

PayloadIntact(f, cursor, r) ==
  \A i \in 1..r.size :
    f[cursor + RecordHeaderCells + i] = [is |-> "payload", at |-> i, of |-> r.body]

\* One pass of the loop.
ScanRecord(f, scan) ==
  LET cursor == scan.cursor
      remaining == Len(f) - cursor
      r == f[cursor + 1].of
  IN  IF scan.outcome # "reading" THEN scan
      ELSE IF remaining = 0 THEN Stop(scan, IF scan.records = <<>> THEN "empty" ELSE "ok", 0)
      ELSE IF remaining < RecordHeaderCells THEN Stop(scan, "torn", remaining)
      ELSE IF f[cursor + 1].is # "record" \/ ~HeaderIntact(f, cursor) THEN Stop(scan, "corrupt", 0)
      ELSE IF r.size > MaxRecord THEN Stop(scan, "bounds", 0)
      ELSE IF r.size > remaining - RecordHeaderCells THEN Stop(scan, "torn", remaining)
      ELSE IF ~PayloadIntact(f, cursor, r) \/ r.seq < scan.last + 1 THEN Stop(scan, "corrupt", 0)
      ELSE IF Len(scan.records) + 1 > MaxRecords THEN Stop(scan, "bounds", 0)
      ELSE [scan EXCEPT !.cursor = cursor + RecordHeaderCells + r.size,
                        !.last = r.seq,
                        !.records = Append(@, [seq |-> r.seq, body |-> r.body])]

\* The locals after each pass.  A pass that does not end the loop consumes a
\* record header, so there are fewer passes than cells.
Passes(f) ==
  LET pass[n \in 0..Len(f)] == IF n = 0 THEN ScanStart ELSE ScanRecord(f, pass[n - 1])
  IN  pass

ScanJournal(f) ==
  IF Len(f) < HeaderCells THEN Stop(ScanStart, "empty", 0)
  ELSE IF ~ValidHeader(f) THEN Stop(ScanStart, "corrupt", 0)
  ELSE Passes(f)[Len(f)]

Load(f) == IF Len(f) > MaxJournal THEN Stop(ScanStart, "bounds", 0) ELSE ScanJournal(f)

Trustworthy(scan) == scan.outcome \in {"ok", "empty", "torn"}

LoadedEpoch(f) == IF ValidHeader(f) THEN f[2].of.epoch ELSE 0

----------------------------------------------------------------------------
(* What create makes of the records. *)

CarriesSession(r) == r.body \in Bundles

\* Mutant: the first bundle of a session wins.
ReplayFirst(records) ==
  [s \in Sessions |->
     LET mine == {i \in DOMAIN records :
                    /\ CarriesSession(records[i])
                    /\ records[i].body.decodes
                    /\ records[i].body.session = s}
     IN  IF mine = {} THEN NoBundle ELSE records[Min(mine)]]

\* The last bundle that decodes wins; one that does not is only counted.
Replay(records) ==
  [s \in Sessions |->
     LET mine == {i \in DOMAIN records :
                    /\ CarriesSession(records[i])
                    /\ records[i].body.decodes
                    /\ records[i].body.session = s}
     IN  IF mine = {} THEN NoBundle ELSE records[Max(mine)]]

----------------------------------------------------------------------------
Init ==
  /\ file = <<>> /\ temp = NoBundle /\ snap = NoBundle
  /\ pc = "down"
  /\ bytes = 0 /\ last = 0 /\ epoch = 0
  /\ restored = [s \in Sessions |-> NoBundle] /\ todo = {}
  /\ acked = {} /\ served = 0 /\ scars = {} /\ faults = 0

\* The process ends, or create returns an error and its store is destroyed.
Down ==
  /\ pc' = "down"
  /\ bytes' = 0 /\ last' = 0 /\ epoch' = 0
  /\ restored' = [s \in Sessions |-> NoBundle] /\ todo' = {}

Fault == faults < MaxFaults /\ faults' = faults + 1

----------------------------------------------------------------------------
(* PersistenceStore::open *)

OpenFresh ==
  /\ pc = "down" /\ file = <<>>
  /\ \/ /\ file' = JournalHeader(0)
        /\ pc' = "opened" /\ bytes' = HeaderCells
        /\ UNCHANGED <<last, epoch, restored, todo, faults>>
     \/ /\ Fault
        /\ \E n \in 0..HeaderCells : file' = SubSeq(JournalHeader(0), 1, n)
        /\ Down
  /\ UNCHANGED <<temp, snap, acked, served, scars>>

\* Mutant: a torn journal is cut back to its header.
ValidBytesNone(f, scan) == IF scan.repaired = 0 THEN Len(f) ELSE HeaderCells

ValidBytes(f, scan) == Len(f) - scan.repaired

\* A torn tail is cut off.  A file that ends inside its header is accepted as
\* an empty journal, and the next record goes where the file ends.
OpenExisting ==
  LET scan == Load(file)
      valid == ValidBytes(file, scan)
      repaired == SubSeq(file, 1, valid)
  IN  /\ pc = "down" /\ file # <<>>
      /\ Trustworthy(scan)
      /\ \/ /\ file' = repaired
            /\ pc' = "opened" /\ bytes' = valid
            /\ last' = scan.last
            /\ epoch' = LoadedEpoch(file)
            /\ scars' = scars \cup (IF Len(file) < HeaderCells THEN {"short"} ELSE {})
            /\ acked' = acked \cup Range(scan.records)
            /\ UNCHANGED <<restored, todo, faults>>
         \/ /\ scan.outcome = "torn"
            /\ Fault
            /\ file' \in {file, repaired}
            /\ Down
            /\ UNCHANGED <<scars, acked>>
      /\ UNCHANGED <<temp, snap, served>>

OpenRefused ==
  /\ pc = "down" /\ ~Trustworthy(Load(file))
  /\ pc' = "refused"
  /\ UNCHANGED <<disk, memory, acked, served, scars, faults>>

----------------------------------------------------------------------------
(* PersistenceStore::append *)

NewRecord(body, size) == [seq |-> last + 1, stamp |-> faults, body |-> body, size |-> size]

\* Mutant: the ceiling forgets the header of the record.
HasRoomForPayload(size) ==
  /\ size <= MaxRecord
  /\ bytes + size <= MaxJournal

HasRoom(size) ==
  /\ size <= MaxRecord
  /\ bytes + size + RecordHeaderCells <= MaxJournal

\* The remnant of an earlier failed append reaches past what is now written.
Uncovered(written) ==
  scars' = scars \cup (IF bytes + written < Len(file) THEN {"remnant"} ELSE {})

Appended(body, size) ==
  LET cells == RecordCells(NewRecord(body, size))
  IN  /\ HasRoom(size)
      /\ file' = WriteAt(file, bytes, cells)
      /\ bytes' = bytes + Len(cells)
      /\ last' = last + 1
      /\ acked' = acked \cup {[seq |-> last + 1, body |-> body]}
      /\ Uncovered(Len(cells))

\* The write stops after a prefix, or it is complete and the flush fails: the
\* record is not acknowledged, and neither the offset nor the sequence move.
AppendFails(body, size) ==
  LET cells == RecordCells(NewRecord(body, size))
  IN  /\ HasRoom(size)
      /\ Fault
      /\ \E n \in 0..Len(cells) :
           /\ file' = WriteAt(file, bytes, SubSeq(cells, 1, n))
           /\ Uncovered(n)
      /\ UNCHANGED acked

----------------------------------------------------------------------------
(* Runtime::create *)

\* record_epoch appends the new epoch before it rewrites the header.
RecordEpoch ==
  /\ pc = "opened" /\ epoch < MaxEpoch
  /\ \/ /\ Appended(EpochBody(epoch + 1), EpochSize)
        /\ pc' = "epoch" /\ epoch' = epoch + 1
        /\ restored' = Replay(Load(file).records)
        /\ todo' = {s \in Sessions : restored'[s] # NoBundle}
        /\ UNCHANGED faults
     \/ AppendFails(EpochBody(epoch + 1), EpochSize) /\ Down
     \/ ~HasRoom(EpochSize) /\ Down /\ UNCHANGED <<file, acked, scars, faults>>
  /\ UNCHANGED <<temp, snap, served>>

\* Mutant: the epoch is recorded in the journal and not in its header.
UpdateHeaderEpochSkipped ==
  /\ pc = "epoch"
  /\ pc' = "replay"
  /\ UNCHANGED <<disk, memory, acked, served, scars, faults>>

UpdateHeaderEpoch ==
  /\ pc = "epoch"
  /\ \/ /\ file' = WriteAt(file, 0, JournalHeader(epoch))
        /\ pc' = "replay"
        /\ UNCHANGED <<memory, scars, faults>>
     \/ /\ Fault
        /\ \E n \in 0..HeaderCells :
             /\ file' = WriteAt(file, 0, SubSeq(JournalHeader(epoch), 1, n))
             /\ scars' = scars \cup (IF n = 2 THEN {"header"} ELSE {})
        /\ Down
  /\ UNCHANGED <<temp, snap, acked, served>>

\* Each restored session is fenced and saved again, in the order of identities.
Readopt ==
  LET s == Min(todo)
      b == restored[s].body
  IN  /\ pc = "replay" /\ todo # {}
      /\ \/ /\ Appended(b, b.size)
            /\ todo' = todo \ {s}
            /\ UNCHANGED <<pc, epoch, restored, faults>>
         \/ AppendFails(b, b.size) /\ Down
         \/ ~HasRoom(b.size) /\ Down /\ UNCHANGED <<file, acked, scars, faults>>
      /\ UNCHANGED <<temp, snap, served>>

Created ==
  /\ pc = "replay" /\ todo = {}
  /\ pc' = "running" /\ served' = epoch
  /\ restored' = [s \in Sessions |-> NoBundle]
  /\ UNCHANGED <<disk, bytes, last, epoch, todo, acked, scars, faults>>

----------------------------------------------------------------------------
(* The running store. *)

\* Runtime::Impl::persist.  A caller whose append failed may try again.
Persist(b) ==
  /\ pc = "running"
  /\ \/ Appended(b, b.size) /\ UNCHANGED faults
     \/ AppendFails(b, b.size) /\ UNCHANGED <<bytes, last>>
  /\ UNCHANGED <<temp, snap, pc, epoch, restored, todo, served>>

\* A header and a payload, of which the first cells were written.
SnapshotCells == 2
Snapshot(written) == [seq |-> last, written |-> written]

\* Mutant: the snapshot is written in place.
WriteSnapshotInPlace ==
  /\ pc = "running"
  /\ \/ snap' = Snapshot(SnapshotCells) /\ UNCHANGED faults
     \/ Fault /\ \E n \in 0..SnapshotCells : snap' = Snapshot(n)
  /\ UNCHANGED <<file, temp, pc, memory, acked, served, scars>>

\* write_snapshot, up to the end of the temporary file.
WriteSnapshot ==
  /\ pc = "running"
  /\ \/ temp' = Snapshot(SnapshotCells) /\ pc' = "moving" /\ UNCHANGED faults
     \/ Fault /\ UNCHANGED pc /\ \E n \in 0..SnapshotCells : temp' = Snapshot(n)
  /\ UNCHANGED <<file, snap, memory, acked, served, scars>>

MoveSnapshot ==
  /\ pc = "moving"
  /\ \/ snap' = temp /\ UNCHANGED faults
     \/ Fault /\ UNCHANGED snap
  /\ temp' = NoBundle
  /\ pc' = "running"
  /\ UNCHANGED <<file, memory, acked, served, scars>>

\* read_snapshot over the file as it is.
ReadSnapshot ==
  IF snap = NoBundle THEN "missing"
  ELSE IF snap.written < SnapshotCells THEN "truncated" ELSE "ok"

\* The shutdown of an ephemeral runtime calls reset.
ResetJournal ==
  /\ pc = "running"
  /\ pc' = "reset"
  /\ file' = <<>> /\ acked' = {} /\ served' = 0 /\ scars' = {}
  /\ UNCHANGED <<temp, snap, memory, faults>>

ResetSnapshot ==
  /\ pc = "reset"
  /\ pc' = "recreate"
  /\ snap' = NoBundle /\ temp' = NoBundle
  /\ UNCHANGED <<file, memory, acked, served, scars, faults>>

ResetRecreate ==
  /\ pc = "recreate"
  /\ \/ file' = JournalHeader(0) /\ UNCHANGED faults
     \/ Fault /\ \E n \in 0..HeaderCells : file' = SubSeq(JournalHeader(0), 1, n)
  /\ Down
  /\ UNCHANGED <<temp, snap, acked, served, scars>>

Crash ==
  /\ pc # "down"
  /\ Down
  /\ UNCHANGED <<disk, acked, served, scars, faults>>

Next ==
  \/ OpenFresh \/ OpenExisting \/ OpenRefused
  \/ RecordEpoch \/ UpdateHeaderEpoch \/ Readopt \/ Created
  \/ \E b \in Bundles : Persist(b)
  \/ WriteSnapshot \/ MoveSnapshot
  \/ ResetJournal \/ ResetSnapshot \/ ResetRecreate
  \/ Crash

Spec == Init /\ [][Next]_vars

----------------------------------------------------------------------------
(* Properties *)

\* Offsets, sequences and epochs are numbers, the scan always has an outcome,
\* and the store never remembers more of the file than there is.
JournalTypeOK ==
  /\ pc \in {"down", "refused", "opened", "epoch", "replay", "running", "moving", "reset", "recreate"}
  /\ bytes \in 0..Max({HeaderCells, MaxJournal}) /\ last \in Nat /\ epoch \in 0..MaxEpoch /\ served \in 0..MaxEpoch
  /\ pc \in {"opened", "epoch", "replay", "running", "moving"} => bytes <= Len(file)
  /\ todo \subseteq Sessions
  /\ scars \subseteq {"short", "remnant", "header"} /\ faults \in 0..MaxFaults

\* Whatever the faults and the crashes, a journal that open accepts still holds
\* every bundle whose append was acknowledged, under its sequence number; its
\* records are in the order of their sequence numbers, and the only bundle in it
\* that was not acknowledged is the last one (append, open).
AckedSurvive ==
  LET scan == Load(file)
      held == scan.records
  IN  Trustworthy(scan) =>
        /\ {r \in acked : CarriesSession(r)} \subseteq Range(held)
        /\ \A i, j \in DOMAIN held : i < j => held[i].seq < held[j].seq
        /\ \A i \in DOMAIN held : CarriesSession(held[i]) /\ i < Len(held) => held[i] \in acked

\* Three things alone make open refuse the journal that the store itself wrote:
\* an append shorter than the remnant of a failed one, a torn rewrite of the
\* header, and a first header cut short; and with them a journal with more
\* records than one load admits, and options that admit no header or no record
\* (scan_journal, append, update_header_epoch).
UnscarredOpens ==
  /\ scars = {} /\ \A r \in acked : r.seq < MaxRecords
  /\ HeaderCells <= MaxJournal /\ 0 < MaxRecords
  => Trustworthy(Load(file))

\* What create restores of a session is never older than the last acknowledged
\* bundle of it that decodes (the replay loop of Runtime::create).
ReplayFindsAcked ==
  pc = "epoch" =>
    \A r \in acked :
      CarriesSession(r) /\ r.body.decodes =>
        LET found == restored[r.body.session]
        IN  found # NoBundle /\ found.seq >= r.seq

\* A runtime is handed out under an epoch no earlier one was handed out under,
\* although a start that crashed may leave its epoch to the next (record_epoch).
EpochsIncrease == [][pc = "replay" /\ pc' = "running" => served' > served]_vars

\* Until a reset, a reader of the snapshot finds none or a whole one, never a
\* part of one (write_snapshot).
SnapshotWhole == ReadSnapshot \in {"missing", "ok"}

=============================================================================
