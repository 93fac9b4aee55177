--------------------------- MODULE JournalProofs ---------------------------
(***************************************************************************)
(* The journal keeps what it acknowledged: the inductive invariant of       *)
(* Journal, and the properties that follow from it for every journal size,  *)
(* every set of bundles and every number of starts and of faults.           *)
(***************************************************************************)
EXTENDS JournalFile

\* Most leaves are first-order and go to Zenon; one that needs arithmetic or
\* sequences cites SMT.
USE Zenon

----------------------------------------------------------------------------
(* The invariant. *)

Stages == {"down", "refused", "opened", "epoch", "replay", "running", "moving", "reset", "recreate"}
Faults == {"short", "remnant", "header"}

StoreTypes ==
  /\ file \in Seq(Cells) /\ pc \in Stages
  /\ bytes \in Nat /\ (bytes <= HeaderCells \/ bytes <= MaxJournal)
  /\ last \in Nat /\ (pc = "down" => last = 0)
  /\ epoch \in 0..MaxEpoch /\ served \in 0..MaxEpoch
  /\ scars \subseteq Faults /\ faults \in 0..MaxFaults

RestoreTypes ==
  /\ restored \in [Sessions -> Restorable]
  /\ todo \subseteq Sessions /\ \A s \in todo : restored[s] # NoBundle

\* Where the process is, and what is then true of its epoch and its offset.
StageAs(f, p, b, e, sv) ==
  /\ p \in Up => b <= Len(f)
  /\ p \in Begun => HeaderCells <= b
  /\ p = "opened" => e >= sv
  /\ p \in {"epoch", "replay"} => e > sv
  /\ p = "replay" => ValidHeader(f) /\ f[2].of.epoch = e
  /\ p \in {"reset", "recreate"} => f = <<>>

JournalInv ==
  /\ StoreTypes /\ RestoreTypes
  /\ ShapeAs(file, acked, scars, pc, bytes, last)
  /\ HeadAs(file, served)
  /\ StageAs(file, pc, bytes, epoch, served)

\* The record an append writes.
LEMMA NewRecordIs ==
  ASSUME StoreTypes, NEW body \in Bodies, NEW size \in Nat
  PROVE  /\ NewRecord(body, size) \in Written /\ NewRecord(body, size).seq = last + 1
         /\ NewRecord(body, size).size = size /\ NewRecord(body, size).body = body
         /\ Len(RecordCells(NewRecord(body, size))) = RecordHeaderCells + size
<1> DEFINE r == NewRecord(body, size)
<1>1. last + 1 \in Nat /\ faults \in Nat
  BY LimitsAreNumbers, SMT DEF StoreTypes
<1>2. r \in Written
  BY <1>1 DEF NewRecord, Written
<1>3. r.seq = last + 1 /\ r.size = size /\ r.body = body
  BY SMT DEF NewRecord
<1> HIDE DEF r
<1>4. Len(RecordCells(r)) = RecordHeaderCells + r.size
  BY <1>2, RecordCellsAre
<1> QED
  BY <1>2, <1>3, <1>4 DEF r

\* An append that succeeds.
LEMMA AppendedStep ==
  ASSUME JournalInv, pc \in Up, NEW body \in Bodies, NEW size \in Nat,
         pc = "opened" => size = 1 /\ body \notin Bundles,
         Appended(body, size), pc' \in Begun
  PROVE  /\ file' \in Seq(Cells) /\ bytes' \in Nat /\ bytes' <= MaxJournal /\ last' \in Nat
         /\ scars' \subseteq Faults /\ bytes' <= Len(file') /\ HeaderCells <= bytes'
         /\ ShapeAs(file', acked', scars', pc', bytes', last') /\ HeadAs(file', served)
         /\ pc \in Begun => SameHead(file', file)
<1> DEFINE r == NewRecord(body, size)
           k == RecordHeaderCells + size
           x == [seq |-> r.seq, body |-> r.body]
<1>1. /\ r \in Written /\ r.seq = last + 1 /\ r.size = size /\ r.body = body
      /\ Len(RecordCells(r)) = k
  BY NewRecordIs DEF JournalInv
<1>2. /\ HasRoom(size) /\ file' = WriteAt(file, bytes, RecordCells(r))
      /\ bytes' = bytes + Len(RecordCells(r)) /\ last' = last + 1
      /\ acked' = acked \cup {[seq |-> last + 1, body |-> body]} /\ Uncovered(Len(RecordCells(r)))
  BY DEF Appended
<1> HIDE DEF r
<1>3. /\ file \in Seq(Cells) /\ bytes \in Nat /\ last \in Nat /\ bytes <= Len(file)
      /\ ShapeAs(file, acked, scars, pc, bytes, last) /\ HeadAs(file, served)
      /\ pc \in Begun => HeaderCells <= bytes
      /\ scars \subseteq Faults
  BY DEF JournalInv, StoreTypes, StageAs
<1>4. size <= MaxRecord /\ bytes + size + RecordHeaderCells <= MaxJournal
  BY <1>2 DEF HasRoom
<1>5. file' = Overwritten(file, bytes, r, RecordHeaderCells + r.size)
  BY <1>1, <1>2, OverwrittenWhole
<1>6. scars' = scars \cup (IF bytes + (RecordHeaderCells + r.size) < Len(file) THEN {"remnant"} ELSE {})
  BY <1>1, <1>2 DEF Uncovered
<1>7. acked' = acked \cup {x}
  BY <1>1, <1>2
<1>8. /\ k \in 0..RecordHeaderCells + r.size /\ bytes + k = bytes + RecordHeaderCells + size
      /\ bytes + k \in Nat /\ bytes + k <= MaxJournal /\ last + 1 \in Nat /\ HeaderCells <= bytes + k
  <2>1. \A a, b, m \in Nat :
          /\ RecordHeaderCells + b \in 0..RecordHeaderCells + b
          /\ a + (RecordHeaderCells + b) = a + RecordHeaderCells + b
          /\ a + (RecordHeaderCells + b) \in Nat
          /\ a + b + RecordHeaderCells <= m => a + (RecordHeaderCells + b) <= m
          /\ a + 1 \in Nat
    BY SMT DEF RecordHeaderCells
  <2>2. MaxJournal \in Nat
    BY LimitsAreNumbers
  <2>3. HeaderCells <= bytes + k
    <3>1. CASE pc = "opened"
      <4>1. \A a \in Nat : HeaderCells <= a + (RecordHeaderCells + 1)
        BY SMT DEF HeaderCells, RecordHeaderCells
      <4> QED
        BY <1>3, <3>1, <4>1
    <3>2. CASE pc # "opened"
      <4>1. HeaderCells <= bytes
        BY <1>3, <3>2 DEF Begun
      <4>2. \A a, b \in Nat : HeaderCells <= a => HeaderCells <= a + (RecordHeaderCells + b)
        BY SMT DEF HeaderCells, RecordHeaderCells
      <4> QED
        BY <1>3, <4>1, <4>2
    <3> QED
      BY <3>1, <3>2
  <2> QED
    BY <1>1, <1>3, <1>4, <2>1, <2>2, <2>3
<1>9. Holds(file', file, bytes, r, k)
  BY <1>1, <1>3, <1>5, <1>8, OverwrittenIs
<1>10. /\ file' \in Seq(Cells) /\ Len(file) <= Len(file') /\ bytes + k <= Len(file')
       /\ \A i \in 1..bytes : file'[i] = file[i]
  BY <1>9 DEF Holds
<1>11. ShapeAs(file', acked \cup {x}, scars', pc', bytes + RecordHeaderCells + r.size, last + 1)
  BY <1>1, <1>3, <1>4, <1>5, <1>6, AppendKeeps
<1>12. ShapeAs(file', acked', scars', pc', bytes', last')
  BY <1>1, <1>2, <1>7, <1>8, <1>11
<1>13. HeadAs(file', served) /\ (pc \in Begun => SameHead(file', file))
  BY <1>3, <1>10, HeadBehind
<1>14. scars' \subseteq Faults
  BY <1>3, <1>6 DEF Faults
<1>15. bytes' = bytes + k
  BY <1>1, <1>2
<1> QED
  BY <1>2, <1>8, <1>10, <1>12, <1>13, <1>14, <1>15

\* An append that fails.
LEMMA AppendFailsStep ==
  ASSUME JournalInv, pc \in Up, NEW body \in Bodies, NEW size \in Nat,
         pc = "opened" => size = 1, AppendFails(body, size),
         pc' \notin Up \/ (pc \in Begun /\ pc' = pc /\ bytes' = bytes /\ last' = last)
  PROVE  /\ file' \in Seq(Cells) /\ Len(file) <= Len(file')
         /\ scars' \subseteq Faults /\ faults' \in 0..MaxFaults
         /\ ShapeAs(file', acked', scars', pc', bytes', last') /\ HeadAs(file', served)
<1> DEFINE r == NewRecord(body, size)
<1>1. /\ r \in Written /\ r.seq = last + 1 /\ r.size = size /\ r.body = body
      /\ Len(RecordCells(r)) = RecordHeaderCells + size
  BY NewRecordIs DEF JournalInv
<1>2. /\ HasRoom(size) /\ Fault /\ acked' = acked
      /\ \E n \in 0..Len(RecordCells(r)) :
           file' = WriteAt(file, bytes, SubSeq(RecordCells(r), 1, n)) /\ Uncovered(n)
  BY DEF AppendFails
<1> HIDE DEF r
<1>3. PICK n \in 0..Len(RecordCells(r)) :
        file' = WriteAt(file, bytes, SubSeq(RecordCells(r), 1, n)) /\ Uncovered(n)
  BY <1>2
<1>4. /\ file \in Seq(Cells) /\ bytes \in Nat /\ last \in Nat /\ bytes <= Len(file)
      /\ ShapeAs(file, acked, scars, pc, bytes, last) /\ HeadAs(file, served)
      /\ pc \in Begun => HeaderCells <= bytes
      /\ scars \subseteq Faults /\ faults \in 0..MaxFaults
  BY DEF JournalInv, StoreTypes, StageAs
<1>5. size <= MaxRecord /\ bytes + size + RecordHeaderCells <= MaxJournal
  BY <1>2 DEF HasRoom
<1>6. n \in 0..RecordHeaderCells + r.size /\ file' = Overwritten(file, bytes, r, n)
  BY <1>1, <1>3 DEF Overwritten
<1>7. scars' = scars \cup (IF bytes + n < Len(file) THEN {"remnant"} ELSE {})
  BY <1>3 DEF Uncovered
<1>8. Holds(file', file, bytes, r, n)
  BY <1>1, <1>4, <1>6, OverwrittenIs
<1>9. /\ file' \in Seq(Cells) /\ Len(file) <= Len(file')
      /\ \A i \in 1..bytes : file'[i] = file[i]
  BY <1>8 DEF Holds
<1>10. ShapeAs(file', acked, scars', pc', bytes', last')
  BY <1>1, <1>4, <1>5, <1>6, <1>7, TearKeeps
<1>11. HeadAs(file', served)
  BY <1>4, <1>9, HeadBehind
<1>12. scars' \subseteq Faults
  BY <1>4, <1>7 DEF Faults
<1>13. faults' \in 0..MaxFaults
  BY <1>2, <1>4, LimitsAreNumbers, SMT DEF Fault
<1> QED
  BY <1>2, <1>9, <1>10, <1>11, <1>12, <1>13

\* A start that ends, or a process, leaves nothing but the disk.
LEMMA DownStep ==
  ASSUME Down, file' \in Seq(Cells), ShapeAs(file', acked', scars', pc', bytes', last'),
         HeadAs(file', served'), served' \in 0..MaxEpoch, scars' \subseteq Faults,
         faults' \in 0..MaxFaults
  PROVE  JournalInv'
<1>1. /\ pc' = "down" /\ bytes' = 0 /\ last' = 0 /\ epoch' = 0
      /\ restored' = [s \in Sessions |-> NoBundle] /\ todo' = {}
  BY DEF Down
<1>2. "down" \in Stages /\ "down" \notin Up /\ "down" \notin Begun /\ "down" \notin {"opened", "epoch", "replay", "reset", "recreate"}
  BY SMT DEF Stages, Up, Begun
<1>3. 0 \in Nat /\ 0 <= HeaderCells /\ 0 \in 0..MaxEpoch
  BY LimitsAreNumbers, SMT DEF HeaderCells
<1>4. StoreTypes'
  BY <1>1, <1>2, <1>3 DEF StoreTypes
<1>5. RestoreTypes'
  BY <1>1 DEF RestoreTypes, Restorable
<1>6. StageAs(file, pc, bytes, epoch, served)'
  BY <1>1, <1>2 DEF StageAs
<1> QED
  BY <1>4, <1>5, <1>6 DEF JournalInv

\* The first states.
LEMMA JournalInit == Init => JournalInv
<1> SUFFICES ASSUME Init PROVE JournalInv
  OBVIOUS
<1>1. /\ file = <<>> /\ pc = "down" /\ bytes = 0 /\ last = 0 /\ epoch = 0
      /\ restored = [s \in Sessions |-> NoBundle] /\ todo = {}
      /\ acked = {} /\ served = 0 /\ scars = {} /\ faults = 0
  BY DEF Init
<1>2. "down" \in Stages /\ "down" \notin Up /\ "down" \notin Begun /\ "down" \notin {"opened", "epoch", "replay", "reset", "recreate"}
  BY SMT DEF Stages, Up, Begun
<1>3. 0 \in Nat /\ 0 <= HeaderCells /\ 0 \in 0..MaxEpoch /\ 0 \in 0..MaxFaults
  BY LimitsAreNumbers, SMT DEF HeaderCells
<1>4. <<>> \in Seq(Cells) /\ Len(<<>>) = 0 /\ Len(<<>>) < HeaderCells /\ ~(1 <= Len(<<>>))
  BY SMT DEF HeaderCells
<1>5. ~ValidHeader(<<>>)
  <2>1. ~(Len(<<>>) >= HeaderCells)
    BY <1>4, SMT DEF HeaderCells
  <2> QED
    BY <2>1 DEF ValidHeader
<1>6. StoreTypes
  BY <1>1, <1>2, <1>3, <1>4 DEF StoreTypes
<1>7. RestoreTypes
  BY <1>1 DEF RestoreTypes, Restorable
<1>8. ShapeAs(file, acked, scars, pc, bytes, last)
  BY <1>1, <1>2, <1>4 DEF ShapeAs, ShortAs
<1>9. HeadAs(file, served)
  BY <1>1, <1>4, <1>5 DEF HeadAs
<1>10. StageAs(file, pc, bytes, epoch, served)
  BY <1>1, <1>2 DEF StageAs
<1> QED
  BY <1>6, <1>7, <1>8, <1>9, <1>10 DEF JournalInv

\* PersistenceStore::open of an absent file.
LEMMA OpenFreshKeeps == JournalInv /\ OpenFresh => JournalInv'
<1> SUFFICES ASSUME JournalInv, OpenFresh PROVE JournalInv'
  OBVIOUS
<1>1. /\ file \in Seq(Cells) /\ last \in Nat /\ (pc = "down" => last = 0)
      /\ epoch \in 0..MaxEpoch /\ served \in 0..MaxEpoch
      /\ scars \subseteq Faults /\ faults \in 0..MaxFaults
      /\ ShapeAs(file, acked, scars, pc, bytes, last) /\ HeadAs(file, served) /\ RestoreTypes
  BY DEF JournalInv, StoreTypes
<1>2. pc = "down" /\ file = <<>> /\ served' = served /\ acked' = acked /\ scars' = scars
  BY DEF OpenFresh
<1>3. Len(file) < HeaderCells
  BY <1>2, SMT DEF HeaderCells
<1>4. acked' = {} /\ served' = 0
  <2>1. ShortAs(file, acked, scars, pc, bytes)
    BY <1>1, <1>3, ShortShape
  <2> QED
    BY <1>1, <1>2, <1>3, <2>1 DEF ShortAs, HeadAs
<1>5. 0 \in 0..HeaderCells /\ HeaderCells \in 0..HeaderCells /\ HeaderCells \in Nat /\ HeaderCells <= HeaderCells
  BY SMT DEF HeaderCells
<1>6. CASE /\ file' = JournalHeader(0) /\ pc' = "opened" /\ bytes' = HeaderCells
           /\ UNCHANGED <<last, epoch, restored, todo, faults>>
  <2>1. file' = SubSeq(JournalHeader(0), 1, HeaderCells)
    <3>1. 0 \in 0..MaxEpoch
      BY LimitsAreNumbers, SMT
    <3>2. JournalHeader(0) \in Seq(Cells) /\ Len(JournalHeader(0)) = HeaderCells
      BY <3>1, HeaderIs
    <3>3. SubSeq(JournalHeader(0), 1, Len(JournalHeader(0))) = JournalHeader(0)
      BY <3>2, AllCells
    <3> QED
      BY <1>6, <3>2, <3>3
  <2>2. last' = 0 /\ epoch' = epoch /\ restored' = restored /\ todo' = todo /\ faults' = faults
    BY <1>1, <1>2, <1>6
  <2>3. /\ file' \in Seq(Cells) /\ Len(file') = HeaderCells
        /\ ShapeAs(file', {}, scars', pc', bytes', last') /\ HeadAs(file', 0)
    BY <1>5, <1>6, <2>1, <2>2, FreshKeeps
  <2>4. StoreTypes'
    <3>1. "opened" \in Stages /\ "opened" # "down"
      BY DEF Stages
    <3> QED
      BY <1>1, <1>2, <1>5, <1>6, <2>2, <2>3, <3>1 DEF StoreTypes
  <2>5. RestoreTypes'
    BY <1>1, <2>2 DEF RestoreTypes
  <2>6. StageAs(file, pc, bytes, epoch, served)'
    <3>1. epoch >= 0
      BY <1>1, LimitsAreNumbers, SMT
    <3>2. "opened" \notin Begun /\ "opened" \notin {"epoch", "replay", "reset", "recreate"}
      BY SMT DEF Begun
    <3> QED
      BY <1>4, <1>5, <1>6, <2>2, <2>3, <3>1, <3>2 DEF StageAs
  <2> QED
    BY <1>4, <2>3, <2>4, <2>5, <2>6 DEF JournalInv
<1>7. CASE /\ Fault /\ Down
           /\ \E n \in 0..HeaderCells : file' = SubSeq(JournalHeader(0), 1, n)
  <2>1. PICK n \in 0..HeaderCells : file' = SubSeq(JournalHeader(0), 1, n)
    BY <1>7
  <2>2. pc' \notin Up
    BY <1>7 DEF Down, Up
  <2>3. file' \in Seq(Cells) /\ ShapeAs(file', {}, scars', pc', bytes', last') /\ HeadAs(file', 0)
    BY <2>1, <2>2, FreshKeeps
  <2>4. faults' \in 0..MaxFaults
    BY <1>1, <1>7, LimitsAreNumbers, SMT DEF Fault
  <2> QED
    BY <1>1, <1>2, <1>4, <1>7, <2>3, <2>4, DownStep
<1> QED
  BY <1>6, <1>7 DEF OpenFresh

\* PersistenceStore::open of a journal that is there.
LEMMA OpenExistingKeeps == JournalInv /\ OpenExisting => JournalInv'
<1> SUFFICES ASSUME JournalInv, OpenExisting PROVE JournalInv'
  OBVIOUS
<1> DEFINE scan == Load(file)
           valid == ValidBytes(file, scan)
           repaired == SubSeq(file, 1, valid)
           T == scars \cup (IF Len(file) < HeaderCells THEN {"short"} ELSE {})
<1>1. /\ file \in Seq(Cells) /\ last \in Nat /\ epoch \in 0..MaxEpoch /\ served \in 0..MaxEpoch
      /\ scars \subseteq Faults /\ faults \in 0..MaxFaults
      /\ ShapeAs(file, acked, scars, pc, bytes, last) /\ HeadAs(file, served) /\ RestoreTypes
  BY DEF JournalInv, StoreTypes
<1>2. pc = "down" /\ file # <<>> /\ Trustworthy(scan) /\ served' = served
  BY DEF OpenExisting
<1>3. ShapeAs(file, acked, scars, "down", bytes, last)
  BY <1>1, <1>2
<1>4. /\ valid \in Nat /\ valid <= Len(file)
      /\ ShapeAs(repaired, acked \cup Range(scan.records), T, "opened", valid, scan.last)
      /\ ShapeAs(repaired, acked, scars, "down", 0, 0)
      /\ scan.last \in Nat
      /\ \/ Len(file) < HeaderCells /\ repaired = file
         \/ HeaderCells <= Len(file) /\ HeaderCells <= valid /\ ValidHeader(file)
  BY <1>1, <1>2, <1>3, OpenKeeps
<1>5. valid \in 0..Len(file)
  BY <1>1, <1>4, SMT
<1>6. repaired \in Seq(Cells) /\ Len(repaired) = valid /\ \A i \in 1..valid : repaired[i] = file[i]
  BY <1>1, <1>5, FirstCells
<1>7. HeadAs(repaired, served)
  <2>1. CASE Len(file) < HeaderCells /\ repaired = file
    BY <1>1, <2>1
  <2>2. CASE HeaderCells <= Len(file) /\ HeaderCells <= valid
    <3>1. \A i \in 1..HeaderCells : i \in 1..valid
      BY <1>4, <2>2, SMT DEF HeaderCells
    <3>2. \A i \in 1..HeaderCells : repaired[i] = file[i]
      BY <1>6, <3>1
    <3>3. HeaderCells <= Len(repaired)
      BY <1>6, <2>2
    <3> HIDE DEF repaired
    <3> QED
      BY <1>1, <1>6, <2>2, <3>2, <3>3, HeadKept
  <2> QED
    BY <1>4, <2>1, <2>2
<1>8. Len(file) \in Nat /\ Len(file) <= MaxJournal
  BY <1>1, <1>2, LoadCases
<1>9. T \subseteq Faults
  BY <1>1 DEF Faults
<1>10. LoadedEpoch(file) \in 0..MaxEpoch /\ LoadedEpoch(file) >= served
  <2>1. CASE ValidHeader(file)
    BY <1>1, <2>1, HeaderEpoch DEF LoadedEpoch, HeadAs
  <2>2. CASE ~ValidHeader(file)
    <3>1. LoadedEpoch(file) = 0 /\ served = 0
      BY <1>1, <1>4, <2>2 DEF LoadedEpoch, HeadAs
    <3> QED
      BY <3>1, LimitsAreNumbers, SMT
  <2> QED
    BY <2>1, <2>2
<1> HIDE DEF scan, valid, repaired, T
<1>11. CASE /\ file' = repaired /\ pc' = "opened" /\ bytes' = valid /\ last' = scan.last
            /\ epoch' = LoadedEpoch(file) /\ scars' = T /\ acked' = acked \cup Range(scan.records)
            /\ UNCHANGED <<restored, todo, faults>>
  <2>1. StoreTypes'
    <3>1. "opened" \in Stages /\ "opened" # "down"
      BY DEF Stages
    <3>2. valid <= MaxJournal
      <4>1. \A x, y, z \in Nat : x <= y /\ y <= z => x <= z
        BY SMT
      <4> QED
        BY <1>4, <1>8, <4>1, LimitsAreNumbers
    <3> QED
      BY <1>1, <1>2, <1>4, <1>6, <1>9, <1>10, <1>11, <3>1, <3>2 DEF StoreTypes
  <2>2. RestoreTypes'
    BY <1>1, <1>11 DEF RestoreTypes
  <2>3. StageAs(file, pc, bytes, epoch, served)'
    <3>1. valid <= Len(repaired)
      BY <1>4, <1>6, SMT
    <3>2. "opened" \notin Begun /\ "opened" \notin {"epoch", "replay", "reset", "recreate"}
      BY SMT DEF Begun
    <3> QED
      BY <1>2, <1>10, <1>11, <3>1, <3>2 DEF StageAs
  <2> QED
    BY <1>2, <1>4, <1>7, <1>11, <2>1, <2>2, <2>3 DEF JournalInv
<1>12. CASE Fault /\ Down /\ file' \in {file, repaired} /\ UNCHANGED <<scars, acked>>
  <2>1. pc' = "down" /\ bytes' = 0 /\ last' = 0
    BY <1>12 DEF Down
  <2>2. ShapeAs(file, acked, scars, "down", 0, 0)
    <3>1. "down" \notin Up
      BY DEF Up
    <3> QED
      BY <1>3, <3>1, ShapeDown
  <2>3. ShapeAs(file', acked', scars', pc', bytes', last')
    BY <1>4, <1>12, <2>1, <2>2
  <2>4. faults' \in 0..MaxFaults
    BY <1>1, <1>12, LimitsAreNumbers, SMT DEF Fault
  <2>5. file' \in Seq(Cells) /\ HeadAs(file', served')
    BY <1>1, <1>2, <1>6, <1>7, <1>12
  <2> QED
    BY <1>1, <1>2, <1>12, <2>3, <2>4, <2>5, DownStep
<1> QED
  BY <1>11, <1>12 DEF OpenExisting, scan, valid, repaired, T

\* PersistenceStore::open of a journal it does not trust.
LEMMA OpenRefusedKeeps == JournalInv /\ OpenRefused => JournalInv'
<1> SUFFICES ASSUME JournalInv, OpenRefused PROVE JournalInv'
  OBVIOUS
<1>1. /\ pc' = "refused" /\ file' = file /\ bytes' = bytes /\ last' = last /\ epoch' = epoch
      /\ restored' = restored /\ todo' = todo /\ acked' = acked /\ served' = served
      /\ scars' = scars /\ faults' = faults
  BY DEF OpenRefused, disk, memory
<1>2. /\ "refused" \in Stages /\ "refused" \notin Up /\ "refused" \notin Begun /\ "refused" # "down"
      /\ "refused" \notin {"opened", "epoch", "replay", "reset", "recreate"}
  BY SMT DEF Stages, Up, Begun
<1>3. StoreTypes' /\ RestoreTypes'
  BY <1>1, <1>2 DEF JournalInv, StoreTypes, RestoreTypes
<1>4. ShapeAs(file', acked', scars', pc', bytes', last')
  <2>1. ShapeAs(file, acked, scars, "refused", bytes, last)
    BY <1>2, ShapeDown DEF JournalInv
  <2> QED
    BY <1>1, <2>1
<1>5. HeadAs(file', served') /\ StageAs(file', pc', bytes', epoch', served')
  BY <1>1, <1>2 DEF JournalInv, StageAs
<1> QED
  BY <1>3, <1>4, <1>5 DEF JournalInv

\* The parts of the invariant that an append reads.
LEMMA InvParts ==
  ASSUME JournalInv
  PROVE  /\ file \in Seq(Cells) /\ pc \in Stages /\ bytes \in Nat /\ last \in Nat
         /\ epoch \in 0..MaxEpoch /\ served \in 0..MaxEpoch
         /\ scars \subseteq Faults /\ faults \in 0..MaxFaults
         /\ ShapeAs(file, acked, scars, pc, bytes, last) /\ HeadAs(file, served)
         /\ pc \in Up => bytes <= Len(file)
BY DEF JournalInv, StoreTypes, StageAs

\* A start that ends without a write.
LEMMA EndsKeeps ==
  ASSUME JournalInv, Down, UNCHANGED <<file, acked, served, scars, faults>>
  PROVE  JournalInv'
<1>1. pc' = "down" /\ pc' \notin Up
  BY DEF Down, Up
<1>2. ShapeAs(file, acked, scars, pc', bytes', last')
  BY <1>1, InvParts, ShapeDown
<1>3. /\ file' = file /\ acked' = acked /\ served' = served /\ scars' = scars /\ faults' = faults
  OBVIOUS
<1>4. /\ file' \in Seq(Cells) /\ HeadAs(file', served') /\ served' \in 0..MaxEpoch
      /\ scars' \subseteq Faults /\ faults' \in 0..MaxFaults
      /\ ShapeAs(file', acked', scars', pc', bytes', last')
  BY <1>2, <1>3, InvParts
<1> QED
  BY <1>4, DownStep

\* A start that ends with a failed append.
LEMMA TornKeeps ==
  ASSUME JournalInv, pc \in Up, NEW body \in Bodies, NEW size \in Nat,
         pc = "opened" => size = 1, AppendFails(body, size), Down, served' = served
  PROVE  JournalInv'
<1>1. pc' \notin Up
  BY DEF Down, Up
<1>2. /\ file' \in Seq(Cells) /\ scars' \subseteq Faults /\ faults' \in 0..MaxFaults
      /\ ShapeAs(file', acked', scars', pc', bytes', last') /\ HeadAs(file', served)
  BY <1>1, AppendFailsStep
<1> QED
  BY <1>2, InvParts, DownStep

\* The epoch of a start is a body.
LEMMA EpochIsBody ==
  ASSUME JournalInv, epoch < MaxEpoch
  PROVE  /\ epoch + 1 \in 0..MaxEpoch /\ EpochBody(epoch + 1) \in Bodies
         /\ EpochBody(epoch + 1) \notin Bundles /\ EpochSize \in Nat /\ EpochSize = 1
<1>1. epoch + 1 \in 0..MaxEpoch
  BY InvParts, LimitsAreNumbers, SMT
<1>2. EpochSize \in Nat /\ EpochSize = 1
  BY SMT DEF EpochSize
<1> QED
  BY <1>1, <1>2, EpochIsNoBundle DEF Bodies

\* record_epoch.
LEMMA RecordEpochKeeps == JournalInv /\ RecordEpoch => JournalInv'
<1> SUFFICES ASSUME JournalInv, RecordEpoch PROVE JournalInv'
  OBVIOUS
<1>1. pc = "opened" /\ epoch < MaxEpoch /\ served' = served
  BY DEF RecordEpoch
<1>2. /\ epoch + 1 \in 0..MaxEpoch /\ EpochBody(epoch + 1) \in Bodies
      /\ EpochBody(epoch + 1) \notin Bundles /\ EpochSize \in Nat /\ EpochSize = 1
  BY <1>1, EpochIsBody
<1>3. pc \in Up
  BY <1>1 DEF Up
<1>4. CASE /\ Appended(EpochBody(epoch + 1), EpochSize) /\ pc' = "epoch" /\ epoch' = epoch + 1
           /\ restored' = Replay(Load(file).records)
           /\ todo' = {s \in Sessions : restored'[s] # NoBundle} /\ UNCHANGED faults
  <2>1. pc' \in Begun
    BY <1>4 DEF Begun, Up
  <2>2. /\ file' \in Seq(Cells) /\ bytes' \in Nat /\ bytes' <= MaxJournal /\ last' \in Nat
        /\ scars' \subseteq Faults /\ bytes' <= Len(file') /\ HeaderCells <= bytes'
        /\ ShapeAs(file', acked', scars', pc', bytes', last') /\ HeadAs(file', served)
        /\ pc \in Begun => SameHead(file', file)
    BY <1>2, <1>3, <1>4, <2>1, AppendedStep
  <2>3. StoreTypes'
    <3>1. "epoch" \in Stages /\ "epoch" # "down"
      BY DEF Stages
    <3>2. served' \in 0..MaxEpoch /\ faults' \in 0..MaxFaults
      BY <1>1, <1>4, InvParts
    <3> QED
      BY <1>2, <1>4, <2>2, <3>1, <3>2 DEF StoreTypes
  <2>4. RestoreTypes'
    <3>1. Load(file).records \in Founds
      BY InvParts, LoadRecords
    <3>2. \A s \in Sessions : Replay(Load(file).records)[s] \in Restorable
      BY <3>1, ReplayIs
    <3>3. Replay(Load(file).records) \in [Sessions -> Restorable]
      BY <3>2 DEF Replay
    <3> QED
      BY <1>4, <3>3 DEF RestoreTypes
  <2>5. StageAs(file, pc, bytes, epoch, served)'
    <3>1. epoch + 1 > served
      <4>1. epoch >= served
        BY <1>1 DEF JournalInv, StageAs
      <4> QED
        BY <4>1, InvParts, LimitsAreNumbers, SMT
    <3>2. "epoch" # "opened" /\ "epoch" # "replay" /\ "epoch" \notin {"reset", "recreate"}
      BY SMT
    <3> QED
      BY <1>1, <1>4, <2>2, <3>1, <3>2 DEF StageAs
  <2> QED
    BY <1>1, <2>2, <2>3, <2>4, <2>5 DEF JournalInv
<1>5. CASE AppendFails(EpochBody(epoch + 1), EpochSize) /\ Down
  BY <1>1, <1>2, <1>3, <1>5, TornKeeps
<1>6. CASE Down /\ UNCHANGED <<file, acked, scars, faults>>
  BY <1>1, <1>6, EndsKeeps
<1> QED
  BY <1>4, <1>5, <1>6 DEF RecordEpoch

\* update_header_epoch.
LEMMA UpdateHeaderEpochKeeps == JournalInv /\ UpdateHeaderEpoch => JournalInv'
<1> SUFFICES ASSUME JournalInv, UpdateHeaderEpoch PROVE JournalInv'
  OBVIOUS
<1>1. pc = "epoch" /\ acked' = acked /\ served' = served
  BY DEF UpdateHeaderEpoch
<1>2. pc \in Up /\ pc \in Begun
  BY <1>1 DEF Up, Begun
<1>3. /\ file \in Seq(Cells) /\ bytes \in Nat /\ last \in Nat /\ epoch \in 0..MaxEpoch
      /\ served \in 0..MaxEpoch /\ scars \subseteq Faults /\ faults \in 0..MaxFaults
      /\ ShapeAs(file, acked, scars, pc, bytes, last) /\ HeadAs(file, served)
      /\ bytes <= Len(file)
  BY <1>2, InvParts
<1>4. HeaderCells <= bytes /\ epoch > served
  BY <1>1, <1>2 DEF JournalInv, StageAs
<1>5. HeaderCells <= Len(file) /\ served \in Nat
  BY <1>3, <1>4, LimitsAreNumbers, SMT DEF HeaderCells
<1>6. 2 # HeaderCells /\ HeaderCells \in 0..HeaderCells
  BY SMT DEF HeaderCells
<1>7. CASE file' = WriteAt(file, 0, JournalHeader(epoch)) /\ pc' = "replay" /\ UNCHANGED <<memory, scars, faults>>
  <2>1. /\ bytes' = bytes /\ last' = last /\ epoch' = epoch /\ restored' = restored /\ todo' = todo
        /\ scars' = scars /\ faults' = faults
    BY <1>7 DEF memory
  <2>2. file' = Rewritten(file, epoch, HeaderCells)
    <3>1. JournalHeader(epoch) \in Seq(Cells) /\ Len(JournalHeader(epoch)) = HeaderCells
      BY <1>3, HeaderIs
    <3>2. SubSeq(JournalHeader(epoch), 1, Len(JournalHeader(epoch))) = JournalHeader(epoch)
      BY <3>1, AllCells
    <3> QED
      BY <1>7, <3>1, <3>2 DEF Rewritten
  <2>3. /\ file' \in Seq(Cells) /\ Len(file') = Len(file)
        /\ \A i \in HeaderCells + 1..Len(file) : file'[i] = file[i]
        /\ HeadAs(file', served)
        /\ ValidHeader(file') /\ file'[2].of.epoch = epoch
    <3>1. Reheaded(file', file, served, epoch, HeaderCells)
      BY <1>3, <1>4, <1>5, <1>6, <2>2, HeadRewritten
    <3> QED
      BY <3>1 DEF Reheaded
  <2>4. "replay" \in Begun /\ "replay" \in Stages /\ "replay" # "down" /\ "replay" # "opened"
    BY DEF Begun, Up, Stages
  <2>5. ShapeAs(file', acked, scars, "replay", bytes, last)
    BY <1>2, <1>3, <2>3, <2>4, HeaderKeeps
  <2>6. StoreTypes' /\ RestoreTypes'
    BY <1>1, <1>7, <2>1, <2>3, <2>4 DEF JournalInv, StoreTypes, RestoreTypes
  <2>7. StageAs(file, pc, bytes, epoch, served)'
    <3>1. "replay" \notin {"reset", "recreate"}
      BY SMT
    <3> QED
      BY <1>1, <1>3, <1>4, <1>7, <2>1, <2>3, <2>4, <3>1 DEF StageAs
  <2> QED
    BY <1>1, <1>7, <2>1, <2>3, <2>5, <2>6, <2>7 DEF JournalInv
<1>8. CASE /\ Fault /\ Down
           /\ \E n \in 0..HeaderCells :
                /\ file' = WriteAt(file, 0, SubSeq(JournalHeader(epoch), 1, n))
                /\ scars' = scars \cup (IF n = 2 THEN {"header"} ELSE {})
  <2>1. PICK n \in 0..HeaderCells :
          /\ file' = Rewritten(file, epoch, n)
          /\ scars' = scars \cup (IF n = 2 THEN {"header"} ELSE {})
    BY <1>8 DEF Rewritten
  <2>2. /\ file' \in Seq(Cells) /\ Len(file') = Len(file)
        /\ \A i \in HeaderCells + 1..Len(file) : file'[i] = file[i]
        /\ HeadAs(file', served)
        /\ n # 2 /\ ValidHeader(file) => ValidHeader(file')
    <3>1. Reheaded(file', file, served, epoch, n)
      BY <1>3, <1>4, <1>5, <2>1, HeadRewritten
    <3> QED
      BY <3>1 DEF Reheaded
  <2>3. scars \subseteq scars' /\ scars' \subseteq Faults
    BY <1>3, <2>1 DEF Faults
  <2>4. "header" \notin scars' /\ ValidHeader(file) => ValidHeader(file')
    BY <2>1, <2>2
  <2>5. pc' \notin Up
    BY <1>8 DEF Down, Up
  <2>6. ShapeAs(file', acked, scars', pc', bytes', last')
    BY <1>2, <1>3, <2>2, <2>3, <2>4, <2>5, HeaderKeeps
  <2>7. faults' \in 0..MaxFaults
    BY <1>3, <1>8, LimitsAreNumbers, SMT DEF Fault
  <2> QED
    BY <1>1, <1>3, <1>8, <2>2, <2>3, <2>6, <2>7, DownStep
<1> QED
  BY <1>7, <1>8 DEF UpdateHeaderEpoch

\* A bundle is a body with a size.
LEMMA BundleIsBody ==
  ASSUME NEW b \in Bundles
  PROVE  b \in Bodies /\ b.size \in Nat
<1>1. b \in [session : Sessions, size : Nat \ {0}, decodes : BOOLEAN]
  BY BundlesAreSized
<1>2. b.size \in Nat
  BY <1>1, SMT
<1> QED
  BY <1>2 DEF Bodies

\* The replay loop of create, one session.
LEMMA ReadoptKeeps == JournalInv /\ Readopt => JournalInv'
<1> SUFFICES ASSUME JournalInv, Readopt PROVE JournalInv'
  OBVIOUS
<1> DEFINE s == Min(todo)
           b == restored[s].body
<1>1. pc = "replay" /\ todo # {} /\ served' = served
  BY DEF Readopt
<1>2. pc \in Up /\ pc \in Begun /\ pc # "opened"
  BY <1>1 DEF Up, Begun
<1>3. s \in todo
  <2>1. todo \subseteq Nat
    BY SessionsAreNumbers DEF JournalInv, RestoreTypes
  <2>2. \E x \in todo : \A y \in todo : x <= y
    BY <1>1, <2>1, LeastNumber
  <2> QED
    BY <2>2 DEF Min
<1> HIDE DEF s
<1>4. b \in Bundles
  <2>1. restored[s] \in Restorable /\ restored[s] # NoBundle
    BY <1>3 DEF JournalInv, RestoreTypes
  <2>2. restored[s] \in [seq : Nat, body : Bundles]
    BY <2>1 DEF Restorable
  <2> QED
    BY <2>2, SMT
<1> HIDE DEF b
<1>5. b \in Bodies /\ b.size \in Nat
  BY <1>4, BundleIsBody
<1>6. CASE Appended(b, b.size) /\ todo' = todo \ {s} /\ UNCHANGED <<pc, epoch, restored, faults>>
  <2>1. pc' = pc /\ epoch' = epoch /\ restored' = restored /\ faults' = faults
    BY <1>6
  <2>2. pc' \in Begun
    BY <1>2, <2>1
  <2>3. /\ file' \in Seq(Cells) /\ bytes' \in Nat /\ bytes' <= MaxJournal /\ last' \in Nat
        /\ scars' \subseteq Faults /\ bytes' <= Len(file') /\ HeaderCells <= bytes'
        /\ ShapeAs(file', acked', scars', pc', bytes', last') /\ HeadAs(file', served)
        /\ pc \in Begun => SameHead(file', file)
    BY <1>2, <1>5, <1>6, <2>2, AppendedStep
  <2>4. StoreTypes'
    BY <1>1, <2>1, <2>3, InvParts DEF StoreTypes
  <2>5. RestoreTypes'
    BY <1>6, <2>1 DEF JournalInv, RestoreTypes
  <2>6. StageAs(file, pc, bytes, epoch, served)'
    <3>1. epoch > served /\ ValidHeader(file) /\ file[2].of.epoch = epoch
      BY <1>1 DEF JournalInv, StageAs
    <3>2. ValidHeader(file') /\ file'[2].of.epoch = epoch
      BY <1>2, <2>3, <3>1 DEF SameHead
    <3>3. pc \notin {"reset", "recreate"}
      BY <1>1
    <3> QED
      BY <1>1, <1>2, <2>1, <2>3, <3>1, <3>2, <3>3 DEF StageAs
  <2> QED
    BY <1>1, <2>3, <2>4, <2>5, <2>6 DEF JournalInv
<1>7. CASE AppendFails(b, b.size) /\ Down
  BY <1>1, <1>2, <1>5, <1>7, TornKeeps
<1>8. CASE Down /\ UNCHANGED <<file, acked, scars, faults>>
  BY <1>1, <1>8, EndsKeeps
<1> QED
  BY <1>6, <1>7, <1>8 DEF Readopt, s, b

\* create hands out the runtime.
LEMMA CreatedKeeps == JournalInv /\ Created => JournalInv'
<1> SUFFICES ASSUME JournalInv, Created PROVE JournalInv'
  OBVIOUS
<1>1. /\ pc = "replay" /\ pc' = "running" /\ served' = epoch /\ todo = {}
      /\ restored' = [s \in Sessions |-> NoBundle]
      /\ file' = file /\ bytes' = bytes /\ last' = last /\ epoch' = epoch /\ todo' = todo
      /\ acked' = acked /\ scars' = scars /\ faults' = faults
  BY DEF Created, disk
<1>2. /\ "replay" \in Begun /\ "running" \in Begun /\ "running" \in Stages /\ "running" # "down"
      /\ "running" \notin {"opened", "epoch", "replay", "reset", "recreate"} /\ "replay" \in Up
  BY SMT DEF Begun, Up, Stages
<1>3. /\ ValidHeader(file) /\ file[2].of.epoch = epoch /\ HeaderCells <= bytes /\ bytes <= Len(file)
  BY <1>1, <1>2 DEF JournalInv, StageAs
<1>4. StoreTypes'
  BY <1>1, <1>2 DEF JournalInv, StoreTypes
<1>5. RestoreTypes'
  BY <1>1 DEF RestoreTypes, Restorable
<1>6. ShapeAs(file, acked, scars, "running", bytes, last)
  BY <1>1, <1>2, InvParts, ShapeGoesOn
<1>7. HeadAs(file, epoch)
  <2>1. Len(file) >= HeaderCells
    BY <1>3 DEF ValidHeader
  <2>2. ~(Len(file) < HeaderCells)
    BY <2>1, InvParts, SMT DEF HeaderCells
  <2>3. epoch >= epoch
    BY InvParts, LimitsAreNumbers, SMT
  <2>4. 1 <= Len(file) => file[1].is = "header" /\ file[1].at = 1
    BY InvParts DEF HeadAs
  <2> QED
    BY <1>3, <2>2, <2>3, <2>4 DEF HeadAs
<1>8. StageAs(file, pc, bytes, epoch, served)'
  BY <1>1, <1>2, <1>3 DEF StageAs
<1> QED
  BY <1>1, <1>4, <1>5, <1>6, <1>7, <1>8 DEF JournalInv

\* Runtime::Impl::persist.
LEMMA PersistKeeps == ASSUME NEW b \in Bundles PROVE JournalInv /\ Persist(b) => JournalInv'
<1> SUFFICES ASSUME JournalInv, Persist(b) PROVE JournalInv'
  OBVIOUS
<1>1. /\ pc = "running" /\ pc' = pc /\ epoch' = epoch /\ restored' = restored /\ todo' = todo
      /\ served' = served
  BY DEF Persist
<1>2. /\ pc \in Up /\ pc \in Begun /\ pc # "opened" /\ pc' \in Begun
      /\ pc \notin {"opened", "epoch", "replay", "reset", "recreate"}
  BY <1>1, SMT DEF Up, Begun
<1>3. b \in Bodies /\ b.size \in Nat
  BY BundleIsBody
<1>4. RestoreTypes'
  BY <1>1 DEF JournalInv, RestoreTypes
<1>5. CASE Appended(b, b.size) /\ UNCHANGED faults
  <2>1. /\ file' \in Seq(Cells) /\ bytes' \in Nat /\ bytes' <= MaxJournal /\ last' \in Nat
        /\ scars' \subseteq Faults /\ bytes' <= Len(file') /\ HeaderCells <= bytes'
        /\ ShapeAs(file', acked', scars', pc', bytes', last') /\ HeadAs(file', served)
        /\ pc \in Begun => SameHead(file', file)
    BY <1>2, <1>3, <1>5, AppendedStep
  <2>2. StoreTypes'
    BY <1>1, <1>5, <2>1, InvParts DEF StoreTypes
  <2>3. StageAs(file, pc, bytes, epoch, served)'
    BY <1>1, <1>2, <2>1 DEF StageAs
  <2> QED
    BY <1>1, <1>4, <2>1, <2>2, <2>3 DEF JournalInv
<1>6. CASE AppendFails(b, b.size) /\ UNCHANGED <<bytes, last>>
  <2>1. bytes' = bytes /\ last' = last
    BY <1>6
  <2>2. /\ file' \in Seq(Cells) /\ Len(file) <= Len(file')
        /\ scars' \subseteq Faults /\ faults' \in 0..MaxFaults
        /\ ShapeAs(file', acked', scars', pc', bytes', last') /\ HeadAs(file', served)
    BY <1>1, <1>2, <1>3, <1>6, <2>1, AppendFailsStep
  <2>3. StoreTypes'
    BY <1>1, <2>1, <2>2 DEF JournalInv, StoreTypes
  <2>4. bytes' <= Len(file')
    <3>1. Len(file) \in Nat /\ Len(file') \in Nat /\ bytes \in Nat /\ bytes <= Len(file)
      BY <1>2, <2>2, InvParts, SMT
    <3> QED
      BY <2>1, <2>2, <3>1, SMT
  <2>5. HeaderCells <= bytes'
    BY <1>2, <2>1 DEF JournalInv, StageAs
  <2>6. StageAs(file, pc, bytes, epoch, served)'
    BY <1>1, <1>2, <2>4, <2>5 DEF StageAs
  <2> QED
    BY <1>1, <1>4, <2>2, <2>3, <2>6 DEF JournalInv
<1> QED
  BY <1>5, <1>6 DEF Persist

\* A step between two stages of a begun process that leaves the file alone.
LEMMA GoesOnKeeps ==
  ASSUME JournalInv, pc \in {"running", "moving"}, pc' \in {"running", "moving"},
         UNCHANGED <<file, bytes, last, epoch, restored, todo, acked, served, scars>>,
         faults' \in 0..MaxFaults
  PROVE  JournalInv'
<1>1. /\ pc \in Begun /\ pc' \in Begun /\ pc \in Up /\ pc' \in Stages /\ pc' # "down"
      /\ pc' \notin {"opened", "epoch", "replay", "reset", "recreate"}
  BY DEF Begun, Up, Stages
<1>2. /\ file' = file /\ bytes' = bytes /\ last' = last /\ epoch' = epoch /\ restored' = restored
      /\ todo' = todo /\ acked' = acked /\ served' = served /\ scars' = scars
  OBVIOUS
<1>3. StoreTypes' /\ RestoreTypes'
  BY <1>1, <1>2 DEF JournalInv, StoreTypes, RestoreTypes
<1>4. ShapeAs(file, acked, scars, pc', bytes, last)
  BY <1>1, InvParts, ShapeGoesOn
<1>5. HeadAs(file', served') /\ StageAs(file', pc', bytes', epoch', served')
  BY <1>1, <1>2 DEF JournalInv, StageAs
<1> QED
  BY <1>2, <1>3, <1>4, <1>5 DEF JournalInv

\* write_snapshot, up to the temporary file.
LEMMA WriteSnapshotKeeps == JournalInv /\ WriteSnapshot => JournalInv'
<1> SUFFICES ASSUME JournalInv, WriteSnapshot PROVE JournalInv'
  OBVIOUS
<1>1. /\ pc \in {"running", "moving"} /\ pc' \in {"running", "moving"}
      /\ UNCHANGED <<file, bytes, last, epoch, restored, todo, acked, served, scars>>
  BY DEF WriteSnapshot, memory
<1>2. faults' \in 0..MaxFaults
  <2>1. faults' = faults \/ (faults < MaxFaults /\ faults' = faults + 1)
    BY DEF WriteSnapshot, Fault
  <2> QED
    BY <2>1, InvParts, LimitsAreNumbers, SMT
<1> QED
  BY <1>1, <1>2, GoesOnKeeps

\* write_snapshot, the rename.
LEMMA MoveSnapshotKeeps == JournalInv /\ MoveSnapshot => JournalInv'
<1> SUFFICES ASSUME JournalInv, MoveSnapshot PROVE JournalInv'
  OBVIOUS
<1>1. /\ pc \in {"running", "moving"} /\ pc' \in {"running", "moving"}
      /\ UNCHANGED <<file, bytes, last, epoch, restored, todo, acked, served, scars>>
  BY DEF MoveSnapshot, memory
<1>2. faults' \in 0..MaxFaults
  <2>1. faults' = faults \/ (faults < MaxFaults /\ faults' = faults + 1)
    BY DEF MoveSnapshot, Fault
  <2> QED
    BY <2>1, InvParts, LimitsAreNumbers, SMT
<1> QED
  BY <1>1, <1>2, GoesOnKeeps

\* reset removes the journal.
LEMMA ResetJournalKeeps == JournalInv /\ ResetJournal => JournalInv'
<1> SUFFICES ASSUME JournalInv, ResetJournal PROVE JournalInv'
  OBVIOUS
<1>1. /\ pc' = "reset" /\ file' = <<>> /\ acked' = {} /\ served' = 0 /\ scars' = {}
      /\ bytes' = bytes /\ last' = last /\ epoch' = epoch /\ restored' = restored /\ todo' = todo
      /\ faults' = faults
  BY DEF ResetJournal, memory
<1>2. /\ "reset" \in Stages /\ "reset" \notin Up /\ "reset" \notin Begun /\ "reset" # "down"
      /\ "reset" \notin {"opened", "epoch", "replay"}
  BY SMT DEF Stages, Up, Begun
<1>3. 0 \in 0..MaxEpoch
  BY LimitsAreNumbers, SMT
<1>4. <<>> \in Seq(Cells) /\ Len(<<>>) < HeaderCells /\ ~(1 <= Len(<<>>)) /\ ~(Len(<<>>) >= HeaderCells)
  BY SMT DEF HeaderCells
<1>5. StoreTypes' /\ RestoreTypes'
  BY <1>1, <1>2, <1>3, <1>4 DEF JournalInv, StoreTypes, RestoreTypes
<1>6. ShapeAs(file', acked', scars', pc', bytes', last')
  BY <1>1, <1>2, <1>4 DEF ShapeAs, ShortAs
<1>7. HeadAs(file', served')
  BY <1>1, <1>4 DEF HeadAs, ValidHeader
<1>8. StageAs(file', pc', bytes', epoch', served')
  BY <1>1, <1>2 DEF StageAs
<1> QED
  BY <1>5, <1>6, <1>7, <1>8 DEF JournalInv

\* reset removes the snapshot.
LEMMA ResetSnapshotKeeps == JournalInv /\ ResetSnapshot => JournalInv'
<1> SUFFICES ASSUME JournalInv, ResetSnapshot PROVE JournalInv'
  OBVIOUS
<1>1. /\ pc = "reset" /\ pc' = "recreate" /\ file' = file /\ acked' = acked /\ served' = served
      /\ scars' = scars /\ bytes' = bytes /\ last' = last /\ epoch' = epoch
      /\ restored' = restored /\ todo' = todo /\ faults' = faults
  BY DEF ResetSnapshot, memory
<1>2. /\ "recreate" \in Stages /\ "recreate" \notin Up /\ "recreate" \notin Begun /\ "recreate" # "down"
      /\ "recreate" \notin {"opened", "epoch", "replay"}
  BY SMT DEF Stages, Up, Begun
<1>3. StoreTypes' /\ RestoreTypes'
  BY <1>1, <1>2 DEF JournalInv, StoreTypes, RestoreTypes
<1>4. ShapeAs(file, acked, scars, "recreate", bytes, last)
  BY <1>2, InvParts, ShapeDown
<1>5. HeadAs(file', served') /\ StageAs(file', pc', bytes', epoch', served')
  BY <1>1, <1>2 DEF JournalInv, StageAs
<1> QED
  BY <1>1, <1>3, <1>4, <1>5 DEF JournalInv

\* reset writes a new header.
LEMMA ResetRecreateKeeps == JournalInv /\ ResetRecreate => JournalInv'
<1> SUFFICES ASSUME JournalInv, ResetRecreate PROVE JournalInv'
  OBVIOUS
<1>1. pc = "recreate" /\ Down /\ acked' = acked /\ served' = served /\ scars' = scars
  BY DEF ResetRecreate
<1>2. file = <<>>
  BY <1>1 DEF JournalInv, StageAs
<1>3. Len(file) < HeaderCells
  BY <1>2, SMT DEF HeaderCells
<1>4. acked' = {} /\ served' = 0
  <2>1. ShortAs(file, acked, scars, pc, bytes)
    BY <1>3, InvParts, ShortShape
  <2> QED
    BY <1>1, <1>3, <2>1, InvParts DEF ShortAs, HeadAs
<1>5. \E n \in 0..HeaderCells : file' = SubSeq(JournalHeader(0), 1, n)
  <2>1. CASE file' = JournalHeader(0)
    <3>1. 0 \in 0..MaxEpoch /\ HeaderCells \in 0..HeaderCells
      BY LimitsAreNumbers, SMT DEF HeaderCells
    <3>2. JournalHeader(0) \in Seq(Cells) /\ Len(JournalHeader(0)) = HeaderCells
      BY <3>1, HeaderIs
    <3>3. SubSeq(JournalHeader(0), 1, Len(JournalHeader(0))) = JournalHeader(0)
      BY <3>2, AllCells
    <3> QED
      BY <2>1, <3>1, <3>2, <3>3
  <2> QED
    BY <2>1 DEF ResetRecreate
<1>6. PICK n \in 0..HeaderCells : file' = SubSeq(JournalHeader(0), 1, n)
  BY <1>5
<1>7. pc' \notin Up
  BY <1>1 DEF Down, Up
<1>8. file' \in Seq(Cells) /\ ShapeAs(file', {}, scars', pc', bytes', last') /\ HeadAs(file', 0)
  BY <1>6, <1>7, FreshKeeps
<1>9. faults' \in 0..MaxFaults
  <2>1. faults' = faults \/ (faults < MaxFaults /\ faults' = faults + 1)
    BY DEF ResetRecreate, Fault
  <2> QED
    BY <2>1, InvParts, LimitsAreNumbers, SMT
<1> QED
  BY <1>1, <1>4, <1>8, <1>9, InvParts, DownStep

\* The process ends between two system calls.
LEMMA CrashKeeps == JournalInv /\ Crash => JournalInv'
BY EndsKeeps DEF Crash, disk

\* Every step keeps the invariant.
LEMMA JournalNext == JournalInv /\ [Next]_vars => JournalInv'
<1> SUFFICES ASSUME JournalInv, [Next]_vars PROVE JournalInv'
  OBVIOUS
<1>1. CASE Next
  BY <1>1, OpenFreshKeeps, OpenExistingKeeps, OpenRefusedKeeps, RecordEpochKeeps,
     UpdateHeaderEpochKeeps, ReadoptKeeps, CreatedKeeps, PersistKeeps, WriteSnapshotKeeps,
     MoveSnapshotKeeps, ResetJournalKeeps, ResetSnapshotKeeps, ResetRecreateKeeps, CrashKeeps
     DEF Next
<1>2. CASE UNCHANGED vars
  BY <1>2 DEF vars, JournalInv, StoreTypes, RestoreTypes
<1> QED
  BY <1>1, <1>2

\* The invariant holds in every behaviour.
THEOREM JournalInvariant == Spec => []JournalInv
<1> QED
  BY JournalInit, JournalNext, PTL DEF Spec

----------------------------------------------------------------------------
(* What follows from it. *)

\* Offsets, sequences and epochs stay within their bounds, and an open store
\* never remembers more of the file than there is.
THEOREM JournalTypes == Spec => []JournalTypeOK
<1>1. ASSUME JournalInv
      PROVE  JournalTypeOK
  <2>1. /\ pc \in Stages /\ bytes \in Nat /\ (bytes <= HeaderCells \/ bytes <= MaxJournal)
        /\ last \in Nat /\ epoch \in 0..MaxEpoch /\ served \in 0..MaxEpoch
        /\ scars \subseteq Faults /\ faults \in 0..MaxFaults /\ todo \subseteq Sessions
        /\ pc \in Up => bytes <= Len(file)
    BY <1>1 DEF JournalInv, StoreTypes, RestoreTypes, StageAs
  <2>2. HeaderCells \in Nat /\ MaxJournal \in Nat
    BY LimitsAreNumbers, SMT DEF HeaderCells
  <2>3. bytes \in 0..Max({HeaderCells, MaxJournal})
    <3> DEFINE m == Max({HeaderCells, MaxJournal})
    <3>1. m \in Nat /\ HeaderCells <= m /\ MaxJournal <= m
      BY <2>2, GreaterOfTwo
    <3> HIDE DEF m
    <3>2. bytes \in 0..m
      BY <2>1, <2>2, <3>1, SMT
    <3> QED
      BY <3>2 DEF m
  <2> QED
    BY <2>1, <2>3 DEF JournalTypeOK, Stages, Faults, Up
<1> QED
  BY <1>1, JournalInvariant, PTL

\* What a journal must hold of the acknowledged records A.
Kept(A, held) ==
  /\ {r \in A : CarriesSession(r)} \subseteq Range(held)
  /\ \A i, j \in DOMAIN held : i < j => held[i].seq < held[j].seq
  /\ \A i \in DOMAIN held : CarriesSession(held[i]) /\ i < Len(held) => held[i] \in A

\* The records that were read, and at most one more, keep what was promised.
LEMMA PromisedKept ==
  ASSUME NEW A, NEW n \in Nat, NEW R, Promised(A, n, R), NEW held \in Founds, NEW m \in Nat,
         Len(held) = m, m = n \/ m = n + 1,
         \A i \in 1..m : held[i].seq = i, \A i \in 1..n : held[i] = R[i]
  PROVE  Kept(A, held)
<1>1. DOMAIN held = 1..m
  BY SMT DEF Founds
<1>2. \A i \in 1..n : i \in 1..m
  BY SMT
<1>3. {r \in A : CarriesSession(r)} \subseteq Range(held)
  <2>1. SUFFICES ASSUME NEW r \in A, CarriesSession(r) PROVE r \in Range(held)
    OBVIOUS
  <2>2. PICK i \in 1..n : r = R[i]
    BY <2>1 DEF Promised
  <2>3. i \in DOMAIN held /\ r = held[i]
    BY <1>1, <1>2, <2>2
  <2> QED
    BY <2>3 DEF Range
<1>4. \A i, j \in DOMAIN held : i < j => held[i].seq < held[j].seq
  BY <1>1
<1>5. \A i \in 1..m : i < m => i \in 1..n
  BY SMT
<1>6. \A i \in DOMAIN held : CarriesSession(held[i]) /\ i < Len(held) => held[i] \in A
  BY <1>1, <1>5 DEF Promised
<1> QED
  BY <1>3, <1>4, <1>6 DEF Kept

\* A trusted load of a file in any of its shapes keeps what was promised.
LEMMA ShapeKept ==
  ASSUME NEW f \in Seq(Cells), NEW A, NEW S, NEW p, NEW b, NEW l, ShapeAs(f, A, S, p, b, l),
         Trustworthy(Load(f))
  PROVE  Kept(A, Load(f).records)
<1>1. /\ Len(f) \in Nat /\ Len(f) <= MaxJournal
      /\ \/ Len(f) < HeaderCells /\ Load(f) = Stop(ScanStart, "empty", 0)
         \/ /\ Len(f) >= HeaderCells /\ ValidHeader(f)
            /\ Load(f) = Passes(f)[Len(f)] /\ Trustworthy(Passes(f)[Len(f)])
  BY LoadCases
<1>2. ASSUME Load(f).records = <<>>, \A r \in A : ~CarriesSession(r)
      PROVE  Kept(A, Load(f).records)
  <2>1. /\ <<>> \in Founds /\ 0 \in Nat /\ Len(<<>>) = 0 /\ (\A i \in 1..0 : FALSE)
    BY SMT DEF Founds
  <2>2. Promised(A, 0, <<>>)
    BY <1>2, PromisedNothing
  <2>3. (\A i \in 1..0 : <<>>[i].seq = i) /\ (\A i \in 1..0 : <<>>[i] = <<>>[i])
    BY <2>1
  <2>4. Kept(A, <<>>)
    BY <2>1, <2>2, <2>3, PromisedKept
  <2> QED
    BY <1>2, <2>4
<1>3. CASE Len(f) < HeaderCells /\ Load(f) = Stop(ScanStart, "empty", 0)
  <2>1. Load(f).records = <<>>
    BY <1>3, ScanOfShort
  <2>2. A = {}
    BY <1>3, ShortShape DEF ShortAs
  <2> QED
    BY <1>2, <2>1, <2>2
<1>4. CASE /\ Len(f) >= HeaderCells /\ ValidHeader(f)
           /\ Load(f) = Passes(f)[Len(f)] /\ Trustworthy(Passes(f)[Len(f)])
  <2>1. ~ShortAs(f, A, S, p, b) /\ ~DeadAs(f, S, p)
    <3>1. ~(Len(f) < HeaderCells)
      BY <1>1, <1>4, SMT DEF HeaderCells
    <3> QED
      BY <1>4, <3>1 DEF ShortAs, DeadAs
  <2>2. ~TooManyAs(f, A, p, b)
    BY <1>4, TooManyRefused DEF TooManyAs, DoomedAs
  <2>3. CASE SkewAs(f, A, S, p, b)
    <3>1. Skewed(f) /\ (Len(f) = HeaderCells + 1 => \A r \in A : ~CarriesSession(r))
      BY <2>3 DEF SkewAs
    <3>2. Len(f) = HeaderCells + 1 /\ EndsAt(f, 0, <<>>, HeaderCells)
      BY <1>4, <3>1, SkewedScan
    <3>3. Load(f).records = <<>>
      BY <1>4, <3>2 DEF EndsAt
    <3> QED
      BY <1>2, <3>1, <3>2, <3>3
  <2>4. CASE InPlaceAs(f, A, S, p, b, l)
    <3>1. PICK n, R, c : LaidAs(f, A, S, n, R, c)
      BY <2>4 DEF InPlaceAs
    <3>2. Read(f, n, R, c) /\ Leftover(f, c, n) /\ Promised(A, n, R)
      BY <3>1 DEF LaidAs
    <3>3. n \in Nat /\ R \in Founds /\ Len(R) = n /\ (\A i \in 1..n : R[i].seq = i)
      BY <3>2 DEF Read
    <3>4. CASE EndsAt(f, n, R, c)
      <4>1. Load(f).records = R
        BY <1>4, <3>4 DEF EndsAt
      <4>2. Kept(A, R)
        BY <3>2, <3>3, PromisedKept
      <4> QED
        BY <4>1, <4>2
    <3>5. ASSUME NEW r \in Written, OneMore(f, n, R, c, r)
          PROVE  Kept(A, Load(f).records)
      <4> DEFINE d == c + RecordHeaderCells + r.size
                 x == [seq |-> r.seq, body |-> r.body]
                 Q == Append(R, x)
      <4>1. /\ WholeAt(f, c, r) /\ r.seq = n + 1 /\ r.size <= MaxRecord /\ n < MaxRecords
            /\ EndsAt(f, n + 1, Q, d)
        BY <3>5 DEF OneMore
      <4>2. Read(f, n + 1, Q, d)
        BY <3>2, <4>1, ReadOneMore
      <4>3. x \in Found
        <5>1. r.seq \in Nat /\ r.body \in Bodies
          BY SMT DEF Written
        <5> QED
          BY <5>1 DEF Found
      <4>4. \A i \in 1..n : Q[i] = R[i]
        <5> HIDE DEF x
        <5> QED
          BY <3>3, <4>3, SMT DEF Founds
      <4> HIDE DEF d, Q
      <4>5. n + 1 \in Nat /\ Q \in Founds /\ Len(Q) = n + 1 /\ (\A i \in 1..n + 1 : Q[i].seq = i)
        BY <4>2 DEF Read
      <4>6. Kept(A, Q)
        BY <3>2, <3>3, <4>4, <4>5, PromisedKept
      <4> QED
        BY <1>4, <4>1, <4>6 DEF EndsAt
    <3>6. EndsAt(f, n, R, c) \/ \E r \in Written : OneMore(f, n, R, c, r)
      BY <1>4, <3>2, ScanOfLaid
    <3> QED
      BY <3>4, <3>5, <3>6
  <2> QED
    BY <2>1, <2>2, <2>3, <2>4 DEF ShapeAs
<1> QED
  BY <1>1, <1>3, <1>4

\* Whatever the faults and the crashes, a journal that open accepts holds every
\* bundle whose append was acknowledged, in the order of their sequence numbers,
\* and at most one, the last, that was not.
THEOREM AcknowledgedSurvive == Spec => []AckedSurvive
<1>1. ASSUME JournalInv
      PROVE  AckedSurvive
  <2>1. Trustworthy(Load(file)) => Kept(acked, Load(file).records)
    BY <1>1, InvParts, ShapeKept
  <2> QED
    BY <2>1 DEF AckedSurvive, Kept
<1> QED
  BY <1>1, JournalInvariant, PTL

\* A file in any of its shapes is trusted, unless one of the three faults happened
\* to it, it has a record too many, or the options admit no header or no record.
LEMMA ShapeOpens ==
  ASSUME NEW f \in Seq(Cells), NEW A, NEW p, NEW b, NEW l, ShapeAs(f, A, {}, p, b, l),
         \A r \in A : r.seq < MaxRecords, HeaderCells <= MaxJournal, 0 < MaxRecords
  PROVE  Trustworthy(Load(f))
<1>1. Len(f) \in Nat /\ MaxJournal \in Nat /\ HeaderCells \in Nat
  BY LimitsAreNumbers, SMT DEF HeaderCells
<1>2. ~SkewAs(f, A, {}, p, b) /\ ~DeadAs(f, {}, p)
  BY DEF SkewAs, DeadAs
<1>3. ~TooManyAs(f, A, p, b)
  BY DEF TooManyAs, DoomedAs
<1>4. CASE ShortAs(f, A, {}, p, b)
  <2>1. Len(f) < HeaderCells
    BY <1>4 DEF ShortAs
  <2>2. ~(Len(f) > MaxJournal)
    BY <1>1, <2>1, SMT
  <2>3. Load(f) = Stop(ScanStart, "empty", 0)
    BY <2>1, <2>2 DEF Load, ScanJournal
  <2>4. Stop(ScanStart, "empty", 0).outcome = "empty"
    BY SMT DEF Stop, ScanStart
  <2> QED
    BY <2>3, <2>4 DEF Trustworthy
<1>5. CASE InPlaceAs(f, A, {}, p, b, l)
  <2>1. PICK n, R, c : LaidAs(f, A, {}, n, R, c)
    BY <1>5 DEF InPlaceAs
  <2>2. Read(f, n, R, c) /\ Promised(A, n, R) /\ Within(f) /\ ValidHeader(f) /\ Exact(f, c, n)
    BY <2>1 DEF LaidAs
  <2>3. n \in Nat /\ R \in Founds /\ Len(R) = n /\ (\A i \in 1..n : R[i].seq = i)
    BY <2>2 DEF Read
  <2>4. Len(f) <= MaxJournal
    <3>1. Len(f) <= HeaderCells \/ Len(f) <= MaxJournal
      BY <2>2 DEF Within
    <3> QED
      BY <1>1, <3>1, SMT
  <2>5. Load(f) = Passes(f)[Len(f)]
    BY <2>2, <2>4, LoadOfValid
  <2>6. n < MaxRecords
    <3>1. CASE n = 0
      BY <3>1
    <3>2. CASE n # 0
      <4>1. n \in 1..n
        BY <2>3, <3>2, SMT
      <4>2. R[n] \in A /\ R[n].seq = n
        BY <2>2, <2>3, <4>1 DEF Promised
      <4> QED
        BY <4>2
    <3> QED
      BY <3>1, <3>2
  <2>7. CASE Len(f) = c
    <3>1. Trustworthy(Passes(f)[Len(f)])
      BY <2>2, <2>7, WholeFile
    <3> QED
      BY <2>5, <3>1
  <2>8. CASE Len(f) # c
    <3>1. PICK r \in Written :
            /\ r.seq = n + 1 /\ r.size <= MaxRecord
            /\ Len(f) <= c + RecordHeaderCells + r.size
            /\ Begins(f, c, r)
      BY <2>2, <2>8 DEF Exact
    <3>2. Trustworthy(Passes(f)[Len(f)])
      <4>1. Read(f, n, R, c)
        BY <2>2
      <4>2. r.seq = n + 1 /\ r.size <= MaxRecord
        BY <3>1
      <4>3. Len(f) <= c + RecordHeaderCells + r.size
        BY <3>1
      <4>4. Begins(f, c, r)
        BY <3>1
      <4> QED
        BY <2>6, <4>1, <4>2, <4>3, <4>4, PrefixTrusted
    <3> QED
      BY <2>5, <3>2
  <2> QED
    BY <2>7, <2>8
<1> QED
  BY <1>2, <1>3, <1>4, <1>5 DEF ShapeAs

\* open refuses a journal the store itself wrote only after an append shorter than
\* the remnant of a failed one, a torn rewrite of the header or a first header cut
\* short, or when it has more records than one load admits.
THEOREM UnscarredJournalsOpen == Spec => []UnscarredOpens
<1>1. ASSUME JournalInv
      PROVE  UnscarredOpens
  <2> SUFFICES ASSUME scars = {}, \A r \in acked : r.seq < MaxRecords,
                      HeaderCells <= MaxJournal, 0 < MaxRecords
               PROVE  Trustworthy(Load(file))
    BY DEF UnscarredOpens
  <2>1. file \in Seq(Cells) /\ ShapeAs(file, acked, {}, pc, bytes, last)
    BY <1>1, InvParts
  <2> QED
    BY <2>1, ShapeOpens
<1> QED
  BY <1>1, JournalInvariant, PTL

\* The bundle a replay finds for an acknowledged one is not older.
LEMMA ReplayNotOlder ==
  ASSUME NEW A, NEW n \in Nat, NEW R \in Founds, Len(R) = n, Promised(A, n, R),
         \A i \in 1..n : R[i].seq = i,
         NEW r \in A, CarriesSession(r), r.body.decodes
  PROVE  /\ Replay(R)[r.body.session] # NoBundle
         /\ Replay(R)[r.body.session].seq >= r.seq
<1> DEFINE s == r.body.session
<1>1. s \in Sessions
  <2>1. r.body \in [session : Sessions, size : Nat \ {0}, decodes : BOOLEAN]
    BY BundlesAreSized DEF CarriesSession
  <2> QED
    BY <2>1, SMT
<1>2. DOMAIN R = 1..n
  BY SMT DEF Founds
<1>3. PICK i \in 1..n : r = R[i]
  BY DEF Promised
<1>4. i \in Mine(R, s)
  BY <1>2, <1>3 DEF Mine
<1> HIDE DEF s
<1>5. /\ Replay(R)[s] # NoBundle
      /\ \E j \in DOMAIN R : i <= j /\ Replay(R)[s] = R[j]
  BY <1>1, <1>4, ReplayIs
<1>6. PICK j \in DOMAIN R : i <= j /\ Replay(R)[s] = R[j]
  BY <1>5
<1>7. R[j].seq = j /\ R[i].seq = i
  BY <1>2, <1>6
<1>8. j >= i
  BY <1>2, <1>6, SMT
<1> QED
  BY <1>3, <1>5, <1>6, <1>7, <1>8 DEF s

\* record_epoch, which also is the replay of the journal as open left it.
LEMMA ReplayFinds ==
  ASSUME JournalInv, RecordEpoch, pc' = "epoch"
  PROVE  ReplayFindsAcked'
<1>1. pc = "opened" /\ epoch < MaxEpoch
  BY DEF RecordEpoch
<1>2. /\ Appended(EpochBody(epoch + 1), EpochSize) /\ restored' = Replay(Load(file).records)
  <2>1. Down => pc' # "epoch"
    BY DEF Down
  <2> QED
    BY <2>1 DEF RecordEpoch
<1>3. /\ acked' = acked \cup {[seq |-> last + 1, body |-> EpochBody(epoch + 1)]}
      /\ bytes + EpochSize + RecordHeaderCells <= MaxJournal
  BY <1>2 DEF Appended, HasRoom
<1>4. SUFFICES ASSUME NEW r \in acked', CarriesSession(r), r.body.decodes
               PROVE  restored'[r.body.session] # NoBundle /\ restored'[r.body.session].seq >= r.seq
  BY DEF ReplayFindsAcked, CarriesSession
<1>5. r \in acked
  <2>1. EpochBody(epoch + 1) \notin Bundles
    BY EpochIsNoBundle
  <2>2. [seq |-> last + 1, body |-> EpochBody(epoch + 1)].body = EpochBody(epoch + 1)
    OBVIOUS
  <2> QED
    BY <1>3, <1>4, <2>1, <2>2 DEF CarriesSession
<1>6. /\ file \in Seq(Cells) /\ bytes \in Nat
      /\ ShapeAs(file, acked, scars, pc, bytes, last) /\ pc \in Up
  BY <1>1, InvParts DEF Up
<1>7. InPlaceAs(file, acked, scars, pc, bytes, last)
  <2>1. ~ShortAs(file, acked, scars, pc, bytes)
    BY <1>5 DEF ShortAs
  <2> QED
    BY <1>1, <1>6, <2>1 DEF ShapeAs, SkewAs, DeadAs, TooManyAs
<1>8. PICK n, R, c : LaidAs(file, acked, scars, n, R, c) /\ bytes = c /\ Len(file) = c /\ ValidHeader(file)
  BY <1>1, <1>6, <1>7 DEF InPlaceAs
<1>9. Read(file, n, R, c) /\ Promised(acked, n, R)
  BY <1>8 DEF LaidAs
<1>10. n \in Nat /\ R \in Founds /\ Len(R) = n /\ (\A i \in 1..n : R[i].seq = i)
  BY <1>9 DEF Read
<1>11. Len(file) <= MaxJournal
  <2>1. bytes <= MaxJournal
    BY <1>3, <1>6, LimitsAreNumbers, SMT DEF EpochSize, RecordHeaderCells
  <2> QED
    BY <1>8, <2>1
<1>12. Load(file).records = R
  <2>1. Load(file) = Passes(file)[Len(file)]
    BY <1>6, <1>8, <1>11, LoadOfValid
  <2>2. EndsAt(file, n, R, c)
    BY <1>6, <1>8, <1>9, WholeFile
  <2> QED
    BY <2>1, <2>2 DEF EndsAt
<1>13. /\ Replay(R)[r.body.session] # NoBundle
       /\ Replay(R)[r.body.session].seq >= r.seq
  BY <1>4, <1>5, <1>9, <1>10, ReplayNotOlder
<1> QED
  BY <1>2, <1>12, <1>13

\* What create restores of a session is never older than the last acknowledged
\* bundle of it that decodes.
THEOREM ReplayFindsAcknowledged == Spec => []ReplayFindsAcked
<1>1. Init => ReplayFindsAcked
  BY DEF Init, ReplayFindsAcked
<1>2. ASSUME JournalInv, ReplayFindsAcked, [Next]_vars
      PROVE  ReplayFindsAcked'
  <2>1. CASE pc' # "epoch"
    BY <2>1 DEF ReplayFindsAcked
  <2>2. CASE pc' = "epoch" /\ Next
    <3>1. RecordEpoch
      <4>1. Down => pc' # "epoch"
        BY DEF Down
      <4>2. ~OpenFresh /\ ~OpenExisting /\ ~OpenRefused
        BY <2>2, <4>1 DEF OpenFresh, OpenExisting, OpenRefused
      <4>3. ~UpdateHeaderEpoch /\ ~Readopt /\ ~Created
        BY <2>2, <4>1 DEF UpdateHeaderEpoch, Readopt, Created
      <4>4. ~(\E b \in Bundles : Persist(b)) /\ ~WriteSnapshot /\ ~MoveSnapshot
        BY <2>2 DEF Persist, WriteSnapshot, MoveSnapshot
      <4>5. ~ResetJournal /\ ~ResetSnapshot /\ ~ResetRecreate /\ ~Crash
        BY <2>2, <4>1 DEF ResetJournal, ResetSnapshot, ResetRecreate, Crash
      <4> QED
        BY <2>2, <4>2, <4>3, <4>4, <4>5 DEF Next
    <3> QED
      BY <1>2, <2>2, <3>1, ReplayFinds
  <2>3. CASE UNCHANGED vars
    BY <1>2, <2>3 DEF vars, ReplayFindsAcked
  <2> QED
    BY <1>2, <2>1, <2>2, <2>3
<1> QED
  BY <1>1, <1>2, JournalInvariant, PTL DEF Spec

\* A runtime is handed out under an epoch no earlier one was handed out under.
THEOREM EpochsAreNew == Spec => EpochsIncrease
<1>1. ASSUME JournalInv, [Next]_vars
      PROVE  [pc = "replay" /\ pc' = "running" => served' > served]_vars
  <2>1. CASE Created
    <3>1. pc = "replay" /\ served' = epoch
      BY <2>1 DEF Created
    <3>2. epoch > served
      BY <1>1, <3>1 DEF JournalInv, StageAs
    <3> QED
      BY <3>1, <3>2
  <2>2. CASE Next /\ ~Created
    <3>1. Down => pc' # "running"
      BY DEF Down
    <3>2. SUFFICES ASSUME pc = "replay", pc' = "running" PROVE FALSE
      OBVIOUS
    <3>3. ~OpenFresh /\ ~OpenExisting /\ ~OpenRefused
      BY <3>2 DEF OpenFresh, OpenExisting, OpenRefused
    <3>4. ~RecordEpoch /\ ~UpdateHeaderEpoch /\ ~Readopt
      BY <3>1, <3>2 DEF RecordEpoch, UpdateHeaderEpoch, Readopt
    <3>5. ~(\E b \in Bundles : Persist(b)) /\ ~WriteSnapshot /\ ~MoveSnapshot
      BY <3>2 DEF Persist, WriteSnapshot, MoveSnapshot
    <3>6. ~ResetJournal /\ ~ResetSnapshot /\ ~ResetRecreate /\ ~Crash
      BY <3>1, <3>2 DEF ResetJournal, ResetSnapshot, ResetRecreate, Crash
    <3> QED
      BY <2>2, <3>3, <3>4, <3>5, <3>6 DEF Next
  <2>3. CASE UNCHANGED vars
    BY <2>3
  <2> QED
    BY <1>1, <2>1, <2>2, <2>3
<1> QED
  BY <1>1, JournalInvariant, PTL DEF Spec, EpochsIncrease

\* The snapshot is missing or whole, and so is the temporary file that is about to
\* replace it.
SnapshotInv ==
  /\ snap # NoBundle => snap.written = SnapshotCells
  /\ pc = "moving" => temp.written = SnapshotCells

\* Only the move of a whole temporary file replaces the snapshot.
LEMMA SnapshotNext == SnapshotInv /\ [Next]_vars => SnapshotInv'
<1> SUFFICES ASSUME SnapshotInv, [Next]_vars PROVE SnapshotInv'
  OBVIOUS
<1>1. Down => pc' # "moving"
  BY DEF Down
<1>2. CASE OpenFresh \/ OpenExisting \/ OpenRefused
  <2>1. UNCHANGED snap /\ pc' # "moving"
    BY <1>1, <1>2 DEF OpenFresh, OpenExisting, OpenRefused, disk
  <2> QED
    BY <2>1 DEF SnapshotInv
<1>3. CASE RecordEpoch \/ UpdateHeaderEpoch \/ Readopt \/ Created
  <2>1. UNCHANGED snap
    BY <1>3 DEF RecordEpoch, UpdateHeaderEpoch, Readopt, Created, disk
  <2>2. pc' # "moving"
    BY <1>1, <1>3 DEF RecordEpoch, UpdateHeaderEpoch, Readopt, Created
  <2> QED
    BY <2>1, <2>2 DEF SnapshotInv
<1>4. CASE \E b \in Bundles : Persist(b)
  BY <1>4 DEF Persist, SnapshotInv
<1>5. CASE WriteSnapshot
  <2>1. UNCHANGED snap
    BY <1>5 DEF WriteSnapshot
  <2>2. CASE pc' = "moving"
    <3>1. temp' = Snapshot(SnapshotCells)
      BY <1>5, <2>2 DEF WriteSnapshot
    <3>2. Snapshot(SnapshotCells).written = SnapshotCells
      BY DEF Snapshot
    <3> QED
      BY <2>1, <3>1, <3>2 DEF SnapshotInv
  <2>3. CASE pc' # "moving"
    BY <2>1, <2>3 DEF SnapshotInv
  <2> QED
    BY <2>2, <2>3
<1>6. CASE MoveSnapshot
  BY <1>6 DEF MoveSnapshot, SnapshotInv
<1>7. CASE ResetJournal \/ ResetSnapshot \/ ResetRecreate
  BY <1>1, <1>7 DEF ResetJournal, ResetSnapshot, ResetRecreate, SnapshotInv
<1>8. CASE Crash
  BY <1>1, <1>8 DEF Crash, disk, SnapshotInv
<1>9. CASE UNCHANGED vars
  BY <1>9 DEF vars, disk, SnapshotInv
<1> QED
  BY <1>2, <1>3, <1>4, <1>5, <1>6, <1>7, <1>8, <1>9 DEF Next

\* A reader of the snapshot finds none or a whole one, whatever write or crash
\* came before.
THEOREM SnapshotsAreWhole == Spec => []SnapshotWhole
<1>1. Init => SnapshotInv
  BY DEF Init, SnapshotInv
<1>2. SnapshotInv => SnapshotWhole
  <2>1. ~(SnapshotCells < SnapshotCells)
    BY SMT DEF SnapshotCells
  <2> QED
    BY <2>1 DEF SnapshotInv, SnapshotWhole, ReadSnapshot
<1> QED
  BY <1>1, <1>2, SnapshotNext, PTL DEF Spec
=============================================================================
