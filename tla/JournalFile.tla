---------------------------- MODULE JournalFile ----------------------------
(***************************************************************************)
(* The file of the journal.  What scan_journal makes of it: the loop of the *)
(* scan is an iteration, it depends on the cells it has passed alone, and a *)
(* journal that consists of whole records and of what failed appends left   *)
(* behind is read back as those records and at most one more.  What a write *)
(* that stops after any of its cells leaves of it, what open makes of that, *)
(* and the five shapes that a file can have.                                *)
(***************************************************************************)
EXTENDS Journal, WellFoundedInduction, TLAPS

\* Most leaves are first-order and go to Zenon; one that needs arithmetic or
\* sequences cites SMT.
USE Zenon

----------------------------------------------------------------------------
(* Induction over sets of numbers. *)

\* A set of naturals has a least element.
LEMMA LeastNumber ==
  ASSUME NEW T \in SUBSET Nat, T # {}
  PROVE  \E x \in T : \A y \in T : x <= y
<1> DEFINE R == OpToRel(<, Nat)
<1>1. IsWellFoundedOn(R, Nat)
  BY NatLessThanWellFounded
<1>2. \A x, y \in Nat : <<x, y>> \in R <=> x < y
  BY SMT DEF OpToRel
<1> HIDE DEF R
<1>3. PICK x \in T : \A y \in T : ~(<<y, x>> \in R)
  BY <1>1, WFMin
<1>4. \A y \in T : x <= y
  <2> TAKE y \in T
  <2>1. ~(y < x)
    BY <1>2, <1>3
  <2> QED
    BY <2>1, SMT
<1> QED
  BY <1>4

\* A set of naturals that holds 0 and the successor of all it holds is Nat.
LEMMA Induction ==
  ASSUME NEW S \in SUBSET Nat, 0 \in S, \A n \in S : n + 1 \in S
  PROVE  S = Nat
<1> SUFFICES ASSUME S # Nat
             PROVE  FALSE
  OBVIOUS
<1>1. PICK x \in Nat \ S : \A y \in Nat \ S : x <= y
  BY LeastNumber
<1>2. x # 0 /\ x - 1 \in Nat
  BY <1>1, SMT
<1>3. x - 1 \in S
  BY <1>1, <1>2, SMT
<1>4. x - 1 + 1 \in S
  BY <1>3
<1> QED
  BY <1>1, <1>4, SMT

\* A bounded set of naturals has a greatest element, the one Max names.
LEMMA GreatestNumber ==
  ASSUME NEW N \in Nat, NEW T \in SUBSET (0..N), T # {}
  PROVE  Max(T) \in T /\ \A y \in T : y <= Max(T)
<1> DEFINE U == {N - t : t \in T}
<1>1. U \in SUBSET Nat /\ U # {}
  <2>1. \A t \in T : N - t \in Nat
    BY SMT
  <2> QED
    BY <2>1
<1>2. PICK u \in U : \A v \in U : u <= v
  BY <1>1, LeastNumber
<1>3. PICK x \in T : u = N - x
  BY <1>2
<1>4. \A y \in T : x >= y
  <2> TAKE y \in T
  <2>1. N - x <= N - y
    BY <1>2, <1>3
  <2> QED
    BY <2>1, SMT
<1>5. Max(T) \in T /\ \A y \in T : Max(T) >= y
  BY <1>4 DEF Max
<1> QED
  BY <1>5, SMT

Iterable(X, x0, step, N) ==
  \E g \in [0..N -> X] : g[0] = x0 /\ \A i \in 1..N : g[i] = step[g[i - 1]]

\* A step applied again and again defines a function of the number of times.
LEMMA IterationExists ==
  ASSUME NEW X, NEW x0 \in X, NEW step \in [X -> X], NEW N \in Nat
  PROVE  Iterable(X, x0, step, N)
<1> DEFINE Goes(g, n) == g[0] = x0 /\ \A i \in 1..n : g[i] = step[g[i - 1]]
           S == {n \in Nat : \E g \in [0..n -> X] : Goes(g, n)}
<1>1. 0 \in S
  <2>1. [i \in 0..0 |-> x0] \in [0..0 -> X] /\ Goes([i \in 0..0 |-> x0], 0)
    BY SMT
  <2> QED
    BY <2>1
<1>2. \A n \in S : n + 1 \in S
  <2> TAKE n \in S
  <2>1. PICK g \in [0..n -> X] : Goes(g, n)
    OBVIOUS
  <2> DEFINE h == [i \in 0..n + 1 |-> IF i <= n THEN g[i] ELSE step[g[n]]]
  <2>2. n \in Nat /\ n + 1 \in Nat
    BY SMT
  <2>3. h \in [0..n + 1 -> X]
    BY <2>1, <2>2, SMT
  <2>4. h[0] = x0
    BY <2>1, <2>2, SMT
  <2>5. \A i \in 1..n + 1 : h[i] = step[h[i - 1]]
    <3> TAKE i \in 1..n + 1
    <3>1. CASE i <= n
      <4>1. h[i] = g[i] /\ h[i - 1] = g[i - 1] /\ i \in 1..n
        BY <2>2, <3>1, SMT
      <4> QED
        BY <4>1, <2>1
    <3>2. CASE ~(i <= n)
      BY <2>2, <3>2, SMT
    <3> QED
      BY <3>1, <3>2
  <2> QED
    BY <2>2, <2>3, <2>4, <2>5
<1>3. S = Nat
  <2> HIDE DEF S
  <2>1. S \in SUBSET Nat
    BY DEF S
  <2> QED
    BY <1>1, <1>2, <2>1, Induction
<1> QED
  BY <1>3 DEF Iterable

----------------------------------------------------------------------------
(* The cells of a file and the locals of the scan. *)

Bodies == Bundles \cup {EpochBody(e) : e \in 0..MaxEpoch}

\* A record as it is written, and as the scan reports it.
Written == [seq : Nat, stamp : Nat, body : Bodies, size : Nat]
Found == [seq : Nat, body : Bodies]
Founds == Seq(Found)

HeaderCell == [is : {"header"}, at : 1..HeaderCells, of : {EpochBody(e) : e \in 0..MaxEpoch}]
RecordCell == [is : {"record"}, at : 1..RecordHeaderCells, of : Written]
PayloadCell == [is : {"payload"}, at : Nat, of : Bodies]

Cells == HeaderCell \cup RecordCell \cup PayloadCell

Outcomes == {"reading", "empty", "ok", "torn", "corrupt", "bounds"}

Scans ==
  [cursor : Nat, last : Nat, records : Founds, outcome : Outcomes, repaired : Nat]

\* A cell with the mark of a record header holds one.
LEMMA RecordCellHolds ==
  ASSUME NEW x \in Cells, x.is = "record"
  PROVE  x.of \in Written /\ x.at \in 1..RecordHeaderCells
<1>1. x \in RecordCell
  BY SMT DEF Cells, HeaderCell, RecordCell, PayloadCell
<1> QED
  BY <1>1 DEF RecordCell

\* The cells of a record: the header, then the payload.
LEMMA RecordCellsAre ==
  ASSUME NEW r \in Written
  PROVE  /\ RecordCells(r) \in Seq(Cells) /\ Len(RecordCells(r)) = RecordHeaderCells + r.size
         /\ \A i \in 1..RecordHeaderCells : RecordCells(r)[i] = [is |-> "record", at |-> i, of |-> r]
         /\ \A i \in 1..r.size :
              RecordCells(r)[RecordHeaderCells + i] = [is |-> "payload", at |-> i, of |-> r.body]
<1>1. r.size \in Nat /\ r.body \in Bodies
  BY SMT DEF Written
<1>2. RecordHeaderCells + r.size \in Nat
  BY <1>1, SMT DEF RecordHeaderCells
<1>3. \A i \in 1..RecordHeaderCells : i \in 1..RecordHeaderCells + r.size /\ i <= RecordHeaderCells
  BY <1>1, SMT DEF RecordHeaderCells
<1>4. \A i \in 1..RecordHeaderCells : RecordCells(r)[i] = [is |-> "record", at |-> i, of |-> r]
  BY <1>3 DEF RecordCells
<1>5. \A i \in 1..r.size :
        RecordCells(r)[RecordHeaderCells + i] = [is |-> "payload", at |-> i, of |-> r.body]
  <2> TAKE i \in 1..r.size
  <2>1. RecordHeaderCells + i \in 1..RecordHeaderCells + r.size /\ ~(RecordHeaderCells + i <= RecordHeaderCells)
    BY <1>1, SMT DEF RecordHeaderCells
  <2>2. RecordCells(r)[RecordHeaderCells + i] =
          [is |-> "payload", at |-> (RecordHeaderCells + i) - RecordHeaderCells, of |-> r.body]
    <3> DEFINE k == RecordHeaderCells + i
    <3>1. k \in 1..RecordHeaderCells + r.size /\ ~(k <= RecordHeaderCells)
      BY <2>1
    <3> HIDE DEF k
    <3>2. RecordCells(r)[k] = [is |-> "payload", at |-> k - RecordHeaderCells, of |-> r.body]
      BY <3>1 DEF RecordCells
    <3> QED
      BY <3>2 DEF k
  <2>3. (RecordHeaderCells + i) - RecordHeaderCells = i
    BY <1>1, SMT DEF RecordHeaderCells
  <2> QED
    BY <2>2, <2>3
<1>6. \A i \in 1..RecordHeaderCells + r.size :
        (IF i <= RecordHeaderCells THEN [is |-> "record", at |-> i, of |-> r]
         ELSE [is |-> "payload", at |-> i - RecordHeaderCells, of |-> r.body]) \in Cells
  <2> TAKE i \in 1..RecordHeaderCells + r.size
  <2>1. CASE i <= RecordHeaderCells
    <3>1. i \in 1..RecordHeaderCells
      BY <1>1, <2>1, SMT DEF RecordHeaderCells
    <3>2. [is |-> "record", at |-> i, of |-> r] \in RecordCell
      BY <3>1 DEF RecordCell
    <3> QED
      BY <2>1, <3>2 DEF Cells
  <2>2. CASE ~(i <= RecordHeaderCells)
    <3>1. i - RecordHeaderCells \in Nat
      BY <1>1, <2>2, SMT DEF RecordHeaderCells
    <3>2. [is |-> "payload", at |-> i - RecordHeaderCells, of |-> r.body] \in PayloadCell
      BY <1>1, <3>1 DEF PayloadCell
    <3> QED
      BY <2>2, <3>2 DEF Cells
  <2> QED
    BY <2>1, <2>2
<1>7. RecordCells(r) \in [1..RecordHeaderCells + r.size -> Cells]
  BY <1>6 DEF RecordCells
<1>8. RecordCells(r) \in Seq(Cells) /\ Len(RecordCells(r)) = RecordHeaderCells + r.size
  <2> DEFINE length == RecordHeaderCells + r.size
  <2> HIDE DEF length
  <2>1. length \in Nat /\ RecordCells(r) \in [1..length -> Cells]
    BY <1>2, <1>7 DEF length
  <2>2. RecordCells(r) \in Seq(Cells) /\ Len(RecordCells(r)) = length
    BY <2>1, SMT
  <2> QED
    BY <2>2 DEF length
<1> QED
  BY <1>4, <1>5, <1>8

\* What stops the loop changes the outcome and the repaired bytes alone.
LEMMA StopFields ==
  ASSUME NEW scan \in Scans, NEW outcome \in Outcomes, NEW repaired \in Nat
  PROVE  /\ Stop(scan, outcome, repaired) \in Scans
         /\ Stop(scan, outcome, repaired).cursor = scan.cursor
         /\ Stop(scan, outcome, repaired).last = scan.last
         /\ Stop(scan, outcome, repaired).records = scan.records
         /\ Stop(scan, outcome, repaired).outcome = outcome
         /\ Stop(scan, outcome, repaired).repaired = repaired
<1> DEFINE first == [scan EXCEPT !.outcome = outcome]
           second == [first EXCEPT !.repaired = repaired]
<1>1. /\ first \in Scans /\ first.outcome = outcome
      /\ first.cursor = scan.cursor /\ first.last = scan.last /\ first.records = scan.records
  BY SMT DEF Scans
<1>2. Stop(scan, outcome, repaired) = second
  BY SMT DEF Stop
<1> HIDE DEF first
<1>3. /\ second \in Scans /\ second.outcome = first.outcome /\ second.repaired = repaired
      /\ second.cursor = first.cursor /\ second.last = first.last /\ second.records = first.records
  BY <1>1, SMT DEF Scans
<1> QED
  BY <1>1, <1>2, <1>3

\* The loop starts before the first record.
LEMMA ScanStartType == ScanStart \in Scans
<1>1. <<>> \in Founds
  BY SMT DEF Founds
<1> QED
  BY <1>1, SMT DEF ScanStart, Scans, Outcomes, HeaderCells

\* A record that stands whole at the offset c: its header and its payload.
WholeAt(f, c, r) ==
  /\ c + RecordHeaderCells + r.size <= Len(f)
  /\ f[c + 1].is = "record" /\ f[c + 1].of = r
  /\ HeaderIntact(f, c) /\ PayloadIntact(f, c, r)

\* The loop goes on behind the record r.
Advanced(scan, r) ==
  [scan EXCEPT !.cursor = scan.cursor + RecordHeaderCells + r.size,
               !.last = r.seq,
               !.records = Append(@, [seq |-> r.seq, body |-> r.body])]

\* The locals behind a record are locals of the scan.
LEMMA AdvancedFields ==
  ASSUME NEW scan \in Scans, NEW r \in Written
  PROVE  /\ Advanced(scan, r) \in Scans
         /\ Advanced(scan, r).cursor = scan.cursor + RecordHeaderCells + r.size
         /\ Advanced(scan, r).last = r.seq
         /\ Advanced(scan, r).records = Append(scan.records, [seq |-> r.seq, body |-> r.body])
         /\ Advanced(scan, r).outcome = scan.outcome
         /\ Advanced(scan, r).repaired = scan.repaired
<1> DEFINE found == [seq |-> r.seq, body |-> r.body]
           longer == Append(scan.records, found)
<1>1. found \in Found /\ r.seq \in Nat /\ r.size \in Nat
  BY SMT DEF Written, Found
<1>2. longer \in Founds /\ scan.cursor + RecordHeaderCells + r.size \in Nat
  BY <1>1, SMT DEF Scans, Founds, RecordHeaderCells
<1> HIDE DEF found
<1> DEFINE first == [scan EXCEPT !.cursor = scan.cursor + RecordHeaderCells + r.size]
           second == [first EXCEPT !.last = r.seq]
           third == [second EXCEPT !.records = longer]
<1>3. /\ first \in Scans /\ first.cursor = scan.cursor + RecordHeaderCells + r.size
      /\ first.records = scan.records /\ first.outcome = scan.outcome /\ first.repaired = scan.repaired
  BY <1>2, SMT DEF Scans
<1>4. Advanced(scan, r) = third
  BY SMT DEF Advanced, found, Scans
<1> HIDE DEF first
<1>5. /\ second \in Scans /\ second.cursor = first.cursor /\ second.last = r.seq
      /\ second.records = first.records /\ second.outcome = first.outcome /\ second.repaired = first.repaired
  BY <1>1, <1>3, SMT DEF Scans
<1> HIDE DEF second, longer
<1>6. /\ third \in Scans /\ third.cursor = second.cursor /\ third.last = second.last
      /\ third.records = longer
      /\ third.outcome = second.outcome /\ third.repaired = second.repaired
  BY <1>2, <1>5, SMT DEF Scans
<1> QED
  BY <1>3, <1>4, <1>5, <1>6 DEF found, longer

----------------------------------------------------------------------------
(* One pass. *)

\* The comparisons of a pass, as comparisons of offsets.
LEMMA PassArithmetic ==
  /\ \A c, length, size \in Nat :
       /\ ~(size > length - c - RecordHeaderCells) <=> c + RecordHeaderCells + size <= length
       /\ c + RecordHeaderCells + size <= length => length - c # 0 /\ ~(length - c < RecordHeaderCells)
  /\ \A size \in Nat : ~(size > MaxRecord) <=> size <= MaxRecord
  /\ \A seq, previous \in Nat : ~(seq < previous + 1) <=> seq > previous
  /\ \A number \in Nat : ~(number + 1 > MaxRecords) <=> number < MaxRecords
  BY LimitsAreNumbers, SMT DEF RecordHeaderCells

\* A pass stops at the end of the file, at a torn tail, at a record it refuses, or
\* goes on behind a whole record.
LEMMA PassCases ==
  ASSUME NEW f \in Seq(Cells), NEW scan \in Scans,
         scan.cursor <= Len(f), scan.outcome = "reading"
  PROVE  \/ /\ scan.cursor = Len(f)
            /\ ScanRecord(f, scan) = Stop(scan, IF scan.records = <<>> THEN "empty" ELSE "ok", 0)
         \/ /\ scan.cursor < Len(f)
            /\ ScanRecord(f, scan) = Stop(scan, "torn", Len(f) - scan.cursor)
         \/ ScanRecord(f, scan) \in {Stop(scan, "corrupt", 0), Stop(scan, "bounds", 0)}
         \/ \E r \in Written :
              /\ WholeAt(f, scan.cursor, r) /\ r.size <= MaxRecord
              /\ r.seq > scan.last /\ Len(scan.records) < MaxRecords
              /\ ScanRecord(f, scan) = Advanced(scan, r)
<1> DEFINE c == scan.cursor
           r == f[c + 1].of
           remaining == Len(f) - c
           Go == /\ remaining # 0 /\ ~(remaining < RecordHeaderCells)
                 /\ ~(f[c + 1].is # "record" \/ ~HeaderIntact(f, c))
                 /\ ~(r.size > MaxRecord)
                 /\ ~(r.size > remaining - RecordHeaderCells)
                 /\ ~(~PayloadIntact(f, c, r) \/ r.seq < scan.last + 1)
                 /\ ~(Len(scan.records) + 1 > MaxRecords)
<1>0. c \in Nat /\ Len(f) \in Nat /\ scan.last \in Nat /\ Len(scan.records) \in Nat
  BY SMT DEF Scans, Founds
<1>1. \/ remaining = 0 /\ ScanRecord(f, scan) = Stop(scan, IF scan.records = <<>> THEN "empty" ELSE "ok", 0)
      \/ remaining # 0 /\ ScanRecord(f, scan) = Stop(scan, "torn", remaining)
      \/ ScanRecord(f, scan) \in {Stop(scan, "corrupt", 0), Stop(scan, "bounds", 0)}
      \/ Go /\ ScanRecord(f, scan) = Advanced(scan, r)
  BY DEF ScanRecord, Advanced
<1>2. ASSUME Go
      PROVE  /\ r \in Written /\ WholeAt(f, c, r) /\ r.size <= MaxRecord
             /\ r.seq > scan.last /\ Len(scan.records) < MaxRecords
  <2>1. c + 1 \in 1..Len(f)
    BY <1>0, <1>2, SMT DEF RecordHeaderCells
  <2>2. f[c + 1] \in Cells
    BY <2>1, SMT
  <2>3. r \in Written
    BY <1>2, <2>2, RecordCellHolds
  <2>4. r.size \in Nat /\ r.seq \in Nat
    BY <2>3, SMT DEF Written
  <2>5. ~(r.size > Len(f) - c - RecordHeaderCells) /\ ~(r.size > MaxRecord)
    BY <1>2
  <2>6. c + RecordHeaderCells + r.size <= Len(f)
    <3> HIDE DEF c, r
    <3> QED
      BY <1>0, <2>4, <2>5, SMT DEF RecordHeaderCells
  <2>7. r.size <= MaxRecord
    BY <2>4, <2>5, PassArithmetic
  <2>8. r.seq > scan.last /\ Len(scan.records) < MaxRecords
    BY <1>0, <1>2, <2>4, PassArithmetic
  <2> QED
    BY <1>2, <2>3, <2>6, <2>7, <2>8 DEF WholeAt
<1>3. remaining = 0 => c = Len(f)
  BY <1>0, SMT
<1>4. remaining # 0 => c < Len(f)
  BY <1>0, SMT
<1> HIDE DEF Go
<1> QED
  BY <1>1, <1>2, <1>3, <1>4

\* Behind a whole record that fits the limits the loop goes on.
LEMMA PassAdvances ==
  ASSUME NEW f \in Seq(Cells), NEW scan \in Scans, NEW r \in Written,
         scan.outcome = "reading", WholeAt(f, scan.cursor, r), r.size <= MaxRecord,
         r.seq > scan.last
  PROVE  ScanRecord(f, scan) =
           IF Len(scan.records) < MaxRecords THEN Advanced(scan, r) ELSE Stop(scan, "bounds", 0)
<1> DEFINE c == scan.cursor
           remaining == Len(f) - c
<1>0. c \in Nat /\ Len(f) \in Nat /\ scan.last \in Nat /\ Len(scan.records) \in Nat
  BY SMT DEF Scans, Founds
<1>1. r.size \in Nat /\ r.seq \in Nat
  BY SMT DEF Written
<1>2. /\ f[c + 1].of = r /\ f[c + 1].is = "record" /\ HeaderIntact(f, c) /\ PayloadIntact(f, c, r)
      /\ c + RecordHeaderCells + r.size <= Len(f)
  BY DEF WholeAt
<1>3. /\ remaining # 0 /\ ~(remaining < RecordHeaderCells) /\ ~(r.size > MaxRecord)
      /\ ~(r.size > remaining - RecordHeaderCells) /\ ~(r.seq < scan.last + 1)
  BY <1>0, <1>1, <1>2, PassArithmetic
<1>4. Len(scan.records) + 1 > MaxRecords <=> ~(Len(scan.records) < MaxRecords)
  BY <1>0, PassArithmetic
<1> QED
  BY <1>2, <1>3, <1>4 DEF ScanRecord, Advanced

----------------------------------------------------------------------------
(* The passes. *)

\* The locals while the loop is within the file.
ScansOf(f) == {scan \in Scans : HeaderCells <= scan.cursor /\ scan.cursor <= Len(f)}

\* A pass that does not stop has read a whole record.
LEMMA PassReads ==
  ASSUME NEW f \in Seq(Cells), NEW scan \in Scans, scan.cursor <= Len(f),
         scan.outcome = "reading", ScanRecord(f, scan).outcome = "reading"
  PROVE  \E r \in Written :
              /\ WholeAt(f, scan.cursor, r) /\ r.size <= MaxRecord
              /\ r.seq > scan.last /\ Len(scan.records) < MaxRecords
              /\ ScanRecord(f, scan) = Advanced(scan, r)
<1>0. scan.cursor \in Nat /\ Len(f) \in Nat /\ 0 \in Nat
  BY SMT DEF Scans
<1>1. ASSUME NEW outcome \in Outcomes, outcome # "reading", NEW repaired \in Nat
      PROVE  ScanRecord(f, scan) # Stop(scan, outcome, repaired)
  <2>1. Stop(scan, outcome, repaired).outcome = outcome
    BY StopFields
  <2> QED
    BY <1>1, <2>1
<1>2. \A o \in {"empty", "ok", "torn", "corrupt", "bounds"} : o \in Outcomes /\ o # "reading"
  BY DEF Outcomes
<1>3. scan.cursor < Len(f) => Len(f) - scan.cursor \in Nat
  BY <1>0, SMT
<1>4. (IF scan.records = <<>> THEN "empty" ELSE "ok") \in {"empty", "ok", "torn", "corrupt", "bounds"}
  OBVIOUS
<1> QED
  BY <1>0, <1>1, <1>2, <1>3, <1>4, PassCases

\* A pass leads from locals within the file to locals within the file.
LEMMA PassType ==
  ASSUME NEW f \in Seq(Cells), NEW scan \in ScansOf(f)
  PROVE  ScanRecord(f, scan) \in ScansOf(f)
<1>0. /\ scan \in Scans /\ scan.cursor \in Nat /\ Len(f) \in Nat /\ 0 \in Nat
      /\ HeaderCells <= scan.cursor /\ scan.cursor <= Len(f)
  BY SMT DEF Scans, ScansOf
<1>1. CASE scan.outcome # "reading"
  BY <1>1 DEF ScanRecord
<1>2. CASE scan.outcome = "reading"
  <2>1. ASSUME NEW outcome \in Outcomes, NEW repaired \in Nat,
               ScanRecord(f, scan) = Stop(scan, outcome, repaired)
        PROVE  ScanRecord(f, scan) \in ScansOf(f)
    <3>1. /\ Stop(scan, outcome, repaired) \in Scans
          /\ Stop(scan, outcome, repaired).cursor = scan.cursor
      BY <1>0, StopFields
    <3> QED
      BY <1>0, <2>1, <3>1 DEF ScansOf
  <2>2. ASSUME NEW r \in Written, WholeAt(f, scan.cursor, r), ScanRecord(f, scan) = Advanced(scan, r)
        PROVE  ScanRecord(f, scan) \in ScansOf(f)
    <3>1. /\ Advanced(scan, r) \in Scans
          /\ Advanced(scan, r).cursor = scan.cursor + RecordHeaderCells + r.size
      BY <1>0, AdvancedFields
    <3>2. r.size \in Nat
      BY SMT DEF Written
    <3>3. HeaderCells <= scan.cursor + RecordHeaderCells + r.size
      BY <1>0, <3>2, SMT DEF HeaderCells, RecordHeaderCells
    <3> QED
      BY <2>2, <3>1, <3>3 DEF WholeAt, ScansOf
  <2>3. \A o \in {"empty", "ok", "torn", "corrupt", "bounds"} : o \in Outcomes
    BY DEF Outcomes
  <2>4. scan.cursor < Len(f) => Len(f) - scan.cursor \in Nat
    BY <1>0, SMT
  <2>5. (IF scan.records = <<>> THEN "empty" ELSE "ok") \in Outcomes
    BY <2>3
  <2> QED
    BY <1>0, <1>2, <2>1, <2>2, <2>3, <2>4, <2>5, PassCases
<1> QED
  BY <1>1, <1>2

\* The passes over a file of at least a header exist: each is one pass after the
\* one before it.
LEMMA PassesStep ==
  ASSUME NEW f \in Seq(Cells), Len(f) >= HeaderCells
  PROVE  /\ Passes(f)[0] = ScanStart
         /\ \A n \in 0..Len(f) - 1 : Passes(f)[n + 1] = ScanRecord(f, Passes(f)[n])
         /\ \A n \in 0..Len(f) : Passes(f)[n] \in ScansOf(f)
<1> DEFINE X == ScansOf(f)
           step == [s \in X |-> ScanRecord(f, s)]
           P(g) == g = [n \in 0..Len(f) |-> IF n = 0 THEN ScanStart ELSE ScanRecord(f, g[n - 1])]
<1>1. Len(f) \in Nat
  BY SMT
<1>2. ScanStart \in X
  <2>1. HeaderCells <= HeaderCells /\ ScanStart.cursor = HeaderCells
    BY SMT DEF ScanStart, HeaderCells
  <2> QED
    BY <2>1, ScanStartType DEF ScansOf
<1>3. step \in [X -> X]
  BY PassType
<1> HIDE DEF X, step
<1>4. PICK g \in [0..Len(f) -> X] : g[0] = ScanStart /\ \A i \in 1..Len(f) : g[i] = step[g[i - 1]]
  <2>1. Iterable(X, ScanStart, step, Len(f))
    BY <1>1, <1>2, <1>3, IterationExists
  <2> QED
    BY <2>1 DEF Iterable
<1>5. \A n \in 1..Len(f) : n \in 0..Len(f) /\ n - 1 \in 0..Len(f) /\ n # 0
  BY <1>1, SMT
<1>6. \A n \in 0..Len(f) : n # 0 => n \in 1..Len(f)
  BY <1>1, SMT
<1>7. \A n \in 1..Len(f) : g[n] = ScanRecord(f, g[n - 1])
  BY <1>4, <1>5 DEF step
<1>8. P(g)
  <2>1. \A n \in 0..Len(f) : g[n] = IF n = 0 THEN ScanStart ELSE ScanRecord(f, g[n - 1])
    BY <1>4, <1>6, <1>7
  <2>2. g = [n \in 0..Len(f) |-> g[n]]
    BY <1>4
  <2> QED
    BY <2>1, <2>2
<1>9. Passes(f) = CHOOSE h : P(h)
  BY DEF Passes
<1>10. P(Passes(f))
  <2> HIDE DEF P
  <2> QED
    BY <1>8, <1>9
<1>11. 0 \in 0..Len(f)
  BY <1>1, SMT
<1>12. Passes(f)[0] = ScanStart
  BY <1>10, <1>11
<1>13. \A n \in 0..Len(f) - 1 : Passes(f)[n + 1] = ScanRecord(f, Passes(f)[n])
  <2>1. \A n \in 1..Len(f) : Passes(f)[n] = ScanRecord(f, Passes(f)[n - 1])
    BY <1>5, <1>10
  <2> TAKE n \in 0..Len(f) - 1
  <2>2. n + 1 \in 1..Len(f) /\ n + 1 - 1 = n
    BY <1>1, SMT
  <2>3. Passes(f)[n + 1] = ScanRecord(f, Passes(f)[n + 1 - 1])
    BY <2>1, <2>2, SMT
  <2> QED
    BY <2>2, <2>3
<1>14. \A n \in 0..Len(f) : Passes(f)[n] \in X
  <2> DEFINE S == {n \in Nat : n \in 0..Len(f) => Passes(f)[n] \in X}
  <2>1. 0 \in S
    BY <1>2, <1>12, SMT
  <2>2. ASSUME NEW n \in S
        PROVE  n + 1 \in S
    <3>1. n \in Nat /\ n + 1 \in Nat
      BY SMT
    <3> SUFFICES ASSUME n + 1 \in 0..Len(f)
                 PROVE  Passes(f)[n + 1] \in X
      BY <3>1
    <3>2. n \in 0..Len(f) /\ n \in 0..Len(f) - 1
      BY <1>1, <3>1, SMT
    <3>3. Passes(f)[n] \in X
      BY <3>2
    <3>4. ScanRecord(f, Passes(f)[n]) \in X
      BY <3>3, PassType DEF X
    <3>5. Passes(f)[n + 1] = ScanRecord(f, Passes(f)[n])
      BY <1>13, <3>2
    <3> QED
      BY <3>4, <3>5
  <2>3. S = Nat
    <3>1. S \in SUBSET Nat
      OBVIOUS
    <3> HIDE DEF S
    <3> QED
      BY <2>1, <2>2, <3>1, Induction
  <2>4. \A n \in 0..Len(f) : n \in Nat
    BY <1>1, SMT
  <2> QED
    BY <2>3, <2>4
<1> QED
  BY <1>12, <1>13, <1>14 DEF X

----------------------------------------------------------------------------
(* What the passes have read. *)

\* After n passes the loop stands at c and has found the records R, of which the
\* i-th has the sequence number i.
Read(f, n, R, c) ==
  /\ n \in Nat /\ c \in Nat /\ HeaderCells + RecordHeaderCells * n <= c /\ c <= Len(f)
  /\ R \in Founds /\ Len(R) = n /\ \A i \in 1..n : R[i].seq = i
  /\ Passes(f)[n] =
       [cursor |-> c, last |-> n, records |-> R, outcome |-> "reading", repaired |-> 0]

\* Before the first pass nothing is read.
LEMMA ReadNothing ==
  ASSUME NEW f \in Seq(Cells), Len(f) >= HeaderCells
  PROVE  Read(f, 0, <<>>, HeaderCells)
<1>1. Passes(f)[0] = ScanStart
  BY PassesStep
<1>2. HeaderCells + RecordHeaderCells * 0 <= HeaderCells /\ HeaderCells \in Nat /\ HeaderCells <= Len(f)
  BY SMT DEF HeaderCells, RecordHeaderCells
<1>3. <<>> \in Founds /\ Len(<<>>) = 0 /\ \A i \in 1..0 : <<>>[i].seq = i
  BY SMT DEF Founds
<1> QED
  BY <1>1, <1>2, <1>3 DEF Read, ScanStart

\* There are fewer passes than cells.
LEMMA ReadWithin ==
  ASSUME NEW f \in Seq(Cells), NEW n, NEW R, NEW c, Read(f, n, R, c)
  PROVE  /\ Len(f) \in Nat /\ Len(f) >= HeaderCells
         /\ n \in 0..Len(f) /\ n \in 0..Len(f) - 1 /\ n + 1 \in 0..Len(f) /\ n + 1 \in 0..Len(f) - 1
         /\ n + 2 \in 0..Len(f) /\ n + 1 + 1 = n + 2
  BY SMT DEF Read, HeaderCells, RecordHeaderCells

\* The locals after the passes are those of the scan.
LEMMA ReadScan ==
  ASSUME NEW f \in Seq(Cells), NEW n, NEW R, NEW c, Read(f, n, R, c)
  PROVE  /\ Passes(f)[n] \in Scans
         /\ Passes(f)[n].cursor = c /\ Passes(f)[n].last = n /\ Passes(f)[n].records = R
         /\ Passes(f)[n].outcome = "reading" /\ Passes(f)[n].repaired = 0
<1>1. Passes(f)[n] \in Scans
  BY ReadWithin, PassesStep DEF ScansOf
<1>2. Passes(f)[n] =
        [cursor |-> c, last |-> n, records |-> R, outcome |-> "reading", repaired |-> 0]
  BY DEF Read
<1> QED
  BY <1>1, <1>2, SMT

\* A whole record behind what was read, with the next sequence number, is read too,
\* unless there are too many.
LEMMA ReadOneMore ==
  ASSUME NEW f \in Seq(Cells), NEW n, NEW R, NEW c, Read(f, n, R, c),
         NEW r \in Written, WholeAt(f, c, r), r.seq = n + 1, r.size <= MaxRecord, n < MaxRecords
  PROVE  Read(f, n + 1, Append(R, [seq |-> r.seq, body |-> r.body]), c + RecordHeaderCells + r.size)
<1> DEFINE scan == Passes(f)[n]
           found == [seq |-> r.seq, body |-> r.body]
           longer == Append(R, found)
           next == c + RecordHeaderCells + r.size
<1>1. n \in Nat /\ c \in Nat /\ r.size \in Nat /\ n + 1 > n /\ R \in Founds /\ Len(R) = n
  BY SMT DEF Read, Written
<1>0. /\ scan \in Scans /\ scan.cursor = c /\ scan.last = n /\ scan.records = R
      /\ scan.outcome = "reading" /\ scan.repaired = 0
  BY ReadScan, SMT
<1>2. ScanRecord(f, scan) = Advanced(scan, r)
  <2> HIDE DEF scan
  <2>1. WholeAt(f, scan.cursor, r) /\ r.seq > scan.last /\ Len(scan.records) < MaxRecords
    BY <1>0, <1>1
  <2> QED
    BY <1>0, <2>1, PassAdvances
<1>3. Passes(f)[n + 1] = Advanced(scan, r)
  BY <1>2, ReadWithin, PassesStep
<1>4. Advanced(scan, r) = [cursor |-> next, last |-> n + 1, records |-> longer,
                           outcome |-> "reading", repaired |-> 0]
  <2>1. /\ Advanced(scan, r) \in Scans /\ Advanced(scan, r).cursor = next
        /\ Advanced(scan, r).last = n + 1 /\ Advanced(scan, r).records = longer
        /\ Advanced(scan, r).outcome = "reading" /\ Advanced(scan, r).repaired = 0
    <3> HIDE DEF scan
    <3> QED
      BY <1>0, AdvancedFields
  <2> HIDE DEF scan, next, longer
  <2> QED
    BY <2>1, SMT DEF Scans
<1>5. found \in Found
  BY SMT DEF Found, Written
<1>6. /\ longer \in Founds /\ Len(longer) = n + 1 /\ longer[n + 1] = found
      /\ \A i \in 1..n : longer[i] = R[i]
  <2> HIDE DEF found
  <2> QED
    BY <1>1, <1>5, SMT DEF Founds
<1>7. \A i \in 1..n + 1 : longer[i].seq = i
  <2>1. \A i \in 1..n + 1 : i = n + 1 \/ i \in 1..n
    BY <1>1, SMT
  <2>2. found.seq = n + 1
    OBVIOUS
  <2> HIDE DEF found, longer
  <2> QED
    BY <1>6, <2>1, <2>2 DEF Read
<1>8. /\ n + 1 \in Nat /\ next \in Nat
      /\ HeaderCells + RecordHeaderCells * (n + 1) <= next
  BY <1>1, SMT DEF Read, HeaderCells, RecordHeaderCells
<1>9. next <= Len(f)
  BY DEF WholeAt
<1> HIDE DEF scan, longer, next
<1>10. Read(f, n + 1, longer, next)
  BY <1>3, <1>4, <1>6, <1>7, <1>8, <1>9 DEF Read
<1> QED
  BY <1>10 DEF longer, next, found

\* A scan that has stopped stays as it is.
LEMMA StoppedStays ==
  ASSUME NEW f \in Seq(Cells), Len(f) >= HeaderCells, NEW m \in 0..Len(f),
         Passes(f)[m].outcome # "reading"
  PROVE  Passes(f)[Len(f)] = Passes(f)[m]
<1> DEFINE S == {n \in Nat : m + n <= Len(f) => Passes(f)[m + n] = Passes(f)[m]}
<1>1. m \in Nat /\ Len(f) \in Nat /\ m + 0 = m
  BY SMT
<1>2. 0 \in S
  BY <1>1
<1>3. ASSUME NEW n \in S
      PROVE  n + 1 \in S
  <2>1. n \in Nat /\ n + 1 \in Nat
    BY SMT
  <2> SUFFICES ASSUME m + (n + 1) <= Len(f)
               PROVE  Passes(f)[m + (n + 1)] = Passes(f)[m]
    BY <2>1
  <2>2. m + n <= Len(f) /\ m + n \in 0..Len(f) - 1 /\ m + (n + 1) = (m + n) + 1
    BY <1>1, <2>1, SMT
  <2>3. Passes(f)[m + n] = Passes(f)[m]
    BY <2>2
  <2>4. Passes(f)[(m + n) + 1] = ScanRecord(f, Passes(f)[m + n])
    BY <2>2, PassesStep
  <2>5. ScanRecord(f, Passes(f)[m + n]) = Passes(f)[m + n]
    BY <2>3 DEF ScanRecord
  <2> QED
    BY <2>2, <2>3, <2>4, <2>5
<1>4. S = Nat
  <2>1. S \in SUBSET Nat
    OBVIOUS
  <2> HIDE DEF S
  <2> QED
    BY <1>2, <1>3, <2>1, Induction
<1>5. Len(f) - m \in Nat /\ m + (Len(f) - m) = Len(f) /\ Len(f) <= Len(f)
  BY <1>1, SMT
<1>6. Passes(f)[m + (Len(f) - m)] = Passes(f)[m]
  BY <1>4, <1>5
<1> QED
  BY <1>5, <1>6

\* A record that stands whole does so in every file that agrees up to its end.
LEMMA WholeElsewhere ==
  ASSUME NEW f \in Seq(Cells), NEW g \in Seq(Cells), NEW c \in Nat, NEW r \in Written, NEW d \in Nat,
         HeaderCells <= c, c + RecordHeaderCells + r.size <= d, d <= Len(g),
         \A i \in HeaderCells + 1..d : g[i] = f[i],
         WholeAt(f, c, r)
  PROVE  WholeAt(g, c, r)
<1>1. r.size \in Nat
  BY SMT DEF Written
<1>2. \A i \in 1..RecordHeaderCells : c + i \in HeaderCells + 1..d
  BY <1>1, SMT DEF HeaderCells, RecordHeaderCells
<1>3. \A i \in 1..r.size : c + RecordHeaderCells + i \in HeaderCells + 1..d
  BY <1>1, SMT DEF HeaderCells, RecordHeaderCells
<1>4. 1 \in 1..RecordHeaderCells
  BY SMT DEF RecordHeaderCells
<1>5. \A i \in 1..RecordHeaderCells : g[c + i] = f[c + i]
  BY <1>2
<1>6. \A i \in 1..r.size : g[c + RecordHeaderCells + i] = f[c + RecordHeaderCells + i]
  BY <1>3
<1>7. c + RecordHeaderCells + r.size <= Len(g)
  BY <1>1, SMT DEF RecordHeaderCells
<1>8. HeaderIntact(g, c)
  BY <1>4, <1>5 DEF WholeAt, HeaderIntact
<1>9. PayloadIntact(g, c, r)
  BY <1>6 DEF WholeAt, PayloadIntact
<1> QED
  BY <1>4, <1>5, <1>7, <1>8, <1>9 DEF WholeAt

\* What the passes read depends on the cells they have passed alone.
LEMMA PassesElsewhere ==
  ASSUME NEW f \in Seq(Cells), NEW g \in Seq(Cells), Len(f) >= HeaderCells, Len(g) >= HeaderCells
  PROVE  \A n \in Nat :
           /\ n <= Len(f) /\ n <= Len(g)
           /\ Passes(f)[n].outcome = "reading" /\ Passes(f)[n].cursor <= Len(g)
           /\ \A i \in HeaderCells + 1..Passes(f)[n].cursor : g[i] = f[i]
           => Passes(g)[n] = Passes(f)[n]
<1> DEFINE Agree(d) == \A i \in HeaderCells + 1..d : g[i] = f[i]
           If(n) == /\ n <= Len(f) /\ n <= Len(g)
                    /\ Passes(f)[n].outcome = "reading" /\ Passes(f)[n].cursor <= Len(g)
                    /\ Agree(Passes(f)[n].cursor)
           S == {n \in Nat : If(n) => Passes(g)[n] = Passes(f)[n]}
<1>0. Len(f) \in Nat /\ Len(g) \in Nat /\ HeaderCells \in Nat
  BY SMT DEF HeaderCells
<1>1. 0 \in S
  BY PassesStep
<1>2. ASSUME NEW n \in S
      PROVE  n + 1 \in S
  <2>1. n \in Nat /\ n + 1 \in Nat
    BY SMT
  <2> SUFFICES ASSUME If(n + 1)
               PROVE  Passes(g)[n + 1] = Passes(f)[n + 1]
    BY <2>1
  <2> DEFINE scan == Passes(f)[n]
             next == Passes(f)[n + 1]
  <2>2. /\ n <= Len(f) /\ n <= Len(g) /\ n \in 0..Len(f) - 1 /\ n \in 0..Len(g) - 1
        /\ n \in 0..Len(f) /\ n \in 0..Len(g)
    BY <1>0, <2>1, SMT
  <2>3. next = ScanRecord(f, scan) /\ scan \in ScansOf(f)
    BY <2>2, PassesStep
  <2>4. scan.outcome = "reading"
    BY <2>3 DEF ScanRecord
  <2>5. scan \in Scans /\ HeaderCells <= scan.cursor /\ scan.cursor <= Len(f) /\ scan.cursor \in Nat
    BY <2>3, SMT DEF ScansOf, Scans
  <2>6. PICK r \in Written :
              /\ WholeAt(f, scan.cursor, r) /\ r.size <= MaxRecord
              /\ r.seq > scan.last /\ Len(scan.records) < MaxRecords
              /\ ScanRecord(f, scan) = Advanced(scan, r)
    BY <2>3, <2>4, <2>5, PassReads
  <2>7. next.cursor = scan.cursor + RecordHeaderCells + r.size
    <3>1. Advanced(scan, r).cursor = scan.cursor + RecordHeaderCells + r.size
      BY <2>5, AdvancedFields
    <3> QED
      BY <2>3, <2>6, <3>1
  <2>8. r.size \in Nat
    BY SMT DEF Written
  <2>9. /\ scan.cursor <= Len(g) /\ next.cursor \in Nat
        /\ \A i \in HeaderCells + 1..scan.cursor : i \in HeaderCells + 1..next.cursor
    <3>1. \A a, b, z, h \in Nat :
            /\ a + RecordHeaderCells + z \in Nat
            /\ a + RecordHeaderCells + z <= b => a <= b
            /\ \A i \in h + 1..a : i \in h + 1..a + RecordHeaderCells + z
      BY SMT DEF RecordHeaderCells
    <3>2. next.cursor <= Len(g)
      OBVIOUS
    <3> HIDE DEF scan, next, If, S
    <3>3. /\ scan.cursor + RecordHeaderCells + r.size \in Nat
          /\ scan.cursor + RecordHeaderCells + r.size <= Len(g) => scan.cursor <= Len(g)
          /\ \A i \in HeaderCells + 1..scan.cursor :
               i \in HeaderCells + 1..scan.cursor + RecordHeaderCells + r.size
      BY <1>0, <2>5, <2>8, <3>1
    <3> QED
      BY <2>7, <3>2, <3>3
  <2>10. Passes(g)[n] = scan
    BY <2>2, <2>4, <2>9
  <2>11. WholeAt(g, scan.cursor, r)
    <3>1. scan.cursor + RecordHeaderCells + r.size <= next.cursor
      BY <2>7, <2>9, SMT
    <3> HIDE DEF scan, next
    <3> QED
      BY <2>5, <2>6, <2>9, <3>1, WholeElsewhere DEF next
  <2>12. ScanRecord(g, scan) = Advanced(scan, r)
    <3> HIDE DEF scan
    <3> QED
      BY <2>4, <2>5, <2>6, <2>11, PassAdvances
  <2>13. Passes(g)[n + 1] = ScanRecord(g, Passes(g)[n])
    BY <2>2, PassesStep
  <2> QED
    BY <2>3, <2>6, <2>10, <2>12, <2>13
<1>3. S = Nat
  <2>1. S \in SUBSET Nat
    OBVIOUS
  <2> HIDE DEF S
  <2> QED
    BY <1>1, <1>2, <2>1, Induction
<1> QED
  BY <1>3

\* A file that agrees with another one up to c is read alike up to c.
LEMMA ReadElsewhere ==
  ASSUME NEW f \in Seq(Cells), NEW g \in Seq(Cells), NEW n, NEW R, NEW c, Read(f, n, R, c),
         c <= Len(g), \A i \in HeaderCells + 1..c : g[i] = f[i]
  PROVE  Read(g, n, R, c)
<1>1. /\ Len(f) \in Nat /\ Len(g) \in Nat /\ n \in Nat /\ n <= Len(f) /\ n <= Len(g)
      /\ Len(f) >= HeaderCells /\ Len(g) >= HeaderCells
  BY SMT DEF Read, HeaderCells, RecordHeaderCells
<1>2. Passes(f)[n].outcome = "reading" /\ Passes(f)[n].cursor = c
  BY ReadScan, SMT
<1>3. Passes(g)[n] = Passes(f)[n]
  BY <1>1, <1>2, PassesElsewhere
<1> QED
  BY <1>3 DEF Read

----------------------------------------------------------------------------
(* How the scan ends. *)

\* The scan is trusted, holds the records R and stops before the cell c + 1.
EndsAt(f, n, R, c) ==
  /\ Passes(f)[Len(f)].records = R /\ Passes(f)[Len(f)].last = n
  /\ Passes(f)[Len(f)].repaired \in Nat /\ Len(f) - Passes(f)[Len(f)].repaired = c

\* A scan that stops where it stands, and is trusted, holds what it had read.
LEMMA StopsHere ==
  ASSUME NEW f \in Seq(Cells), NEW n, NEW R, NEW c, Read(f, n, R, c),
         Passes(f)[n + 1].outcome # "reading", Trustworthy(Passes(f)[Len(f)])
  PROVE  EndsAt(f, n, R, c)
<1> DEFINE scan == Passes(f)[n]
           end == Passes(f)[Len(f)]
<1>0. /\ scan \in Scans /\ scan.cursor = c /\ scan.last = n /\ scan.records = R
      /\ scan.outcome = "reading" /\ scan.repaired = 0
  BY ReadScan, SMT
<1>1. c \in Nat /\ Len(f) \in Nat /\ c <= Len(f) /\ 0 \in Nat /\ Len(f) - 0 = Len(f)
  BY SMT DEF Read
<1>2. n \in 0..Len(f) - 1 /\ n + 1 \in 0..Len(f) /\ Len(f) >= HeaderCells
  BY ReadWithin
<1>3. end = Passes(f)[n + 1]
  BY <1>2, StoppedStays
<1>4. Passes(f)[n + 1] = ScanRecord(f, scan)
  BY <1>2, PassesStep
<1>5. end = ScanRecord(f, scan) /\ end.outcome # "reading" /\ end.outcome \in {"ok", "empty", "torn"}
  BY <1>3, <1>4 DEF Trustworthy
<1> HIDE DEF scan, end
<1>6. ASSUME NEW outcome \in Outcomes, NEW repaired \in Nat,
             end = Stop(scan, outcome, repaired), Len(f) - repaired = c
      PROVE  EndsAt(f, n, R, c)
  <2>1. /\ Stop(scan, outcome, repaired).records = scan.records
        /\ Stop(scan, outcome, repaired).last = scan.last
        /\ Stop(scan, outcome, repaired).repaired = repaired
    BY <1>0, StopFields
  <2>2. end.records = R /\ end.last = n /\ end.repaired = repaired
    BY <1>0, <1>6, <2>1
  <2> QED
    BY <1>6, <2>2 DEF EndsAt, end
<1>7. \A o \in {"empty", "ok", "torn", "corrupt", "bounds"} : o \in Outcomes
  BY DEF Outcomes
<1>8. CASE c = Len(f) /\ end = Stop(scan, IF scan.records = <<>> THEN "empty" ELSE "ok", 0)
  <2>1. (IF scan.records = <<>> THEN "empty" ELSE "ok") \in Outcomes
    BY <1>7
  <2> QED
    BY <1>1, <1>6, <1>8, <2>1
<1>9. CASE c < Len(f) /\ end = Stop(scan, "torn", Len(f) - c)
  <2>1. Len(f) - c \in Nat /\ Len(f) - (Len(f) - c) = c
    BY <1>1, <1>9, SMT
  <2> QED
    BY <1>6, <1>7, <1>9, <2>1
<1>10. end \notin {Stop(scan, "corrupt", 0), Stop(scan, "bounds", 0)}
  <2>1. Stop(scan, "corrupt", 0).outcome = "corrupt" /\ Stop(scan, "bounds", 0).outcome = "bounds"
    <3>1. "corrupt" \in Outcomes /\ "bounds" \in Outcomes
      BY <1>7
    <3>2. \A outcome \in Outcomes : Stop(scan, outcome, 0).outcome = outcome
      BY <1>0, <1>1, StopFields
    <3> QED
      BY <3>1, <3>2
  <2> QED
    BY <1>5, <2>1
<1>11. \A r \in Written : end # Advanced(scan, r)
  BY <1>0, <1>5, AdvancedFields
<1> QED
  BY <1>0, <1>1, <1>5, <1>8, <1>9, <1>10, <1>11, PassCases

\* What failed appends leave behind the offset c: the header of a record with the
\* next sequence number, or a part of it, and parts of payloads.
Leftover(f, c, n) ==
  \A i \in c + 1..Len(f) :
    \/ f[i].is = "payload"
    \/ f[i].is = "record" /\ i <= c + RecordHeaderCells /\ f[i].of.seq = n + 1

\* A record that was read behind the others although its append had failed.
OneMore(f, n, R, c, r) ==
  /\ WholeAt(f, c, r) /\ r.seq = n + 1 /\ r.size <= MaxRecord /\ n < MaxRecords
  /\ EndsAt(f, n + 1, Append(R, [seq |-> r.seq, body |-> r.body]), c + RecordHeaderCells + r.size)

\* A trusted scan of whole records and of what is left over behind them holds the
\* records, and at most one more.
LEMMA ScanOfLaid ==
  ASSUME NEW f \in Seq(Cells), NEW n, NEW R, NEW c, Read(f, n, R, c), Leftover(f, c, n),
         Trustworthy(Passes(f)[Len(f)])
  PROVE  EndsAt(f, n, R, c) \/ \E r \in Written : OneMore(f, n, R, c, r)
<1> DEFINE scan == Passes(f)[n]
<1>1. CASE Passes(f)[n + 1].outcome # "reading"
  BY <1>1, StopsHere
<1>2. CASE Passes(f)[n + 1].outcome = "reading"
  <2>0. /\ scan \in Scans /\ scan.cursor = c /\ scan.last = n /\ scan.records = R
        /\ scan.outcome = "reading" /\ scan.repaired = 0
    BY ReadScan, SMT
  <2>1. c \in Nat /\ n \in Nat /\ Len(f) \in Nat /\ c <= Len(f) /\ Len(R) = n
    BY SMT DEF Read
  <2>2. /\ n \in 0..Len(f) - 1 /\ n + 1 \in 0..Len(f) - 1 /\ n + 1 + 1 \in 0..Len(f)
        /\ Len(f) >= HeaderCells
    BY ReadWithin, SMT
  <2>3. Passes(f)[n + 1] = ScanRecord(f, scan)
    BY <2>2, PassesStep
  <2>4. PICK r \in Written :
              /\ WholeAt(f, c, r) /\ r.size <= MaxRecord
              /\ r.seq > n /\ n < MaxRecords
              /\ ScanRecord(f, scan) = Advanced(scan, r)
    <3>1. \E r \in Written :
              /\ WholeAt(f, scan.cursor, r) /\ r.size <= MaxRecord
              /\ r.seq > scan.last /\ Len(scan.records) < MaxRecords
              /\ ScanRecord(f, scan) = Advanced(scan, r)
      <4> HIDE DEF scan
      <4> QED
        BY <1>2, <2>0, <2>1, <2>3, PassReads
    <3> QED
      BY <2>0, <2>1, <3>1
  <2> DEFINE next == c + RecordHeaderCells + r.size
             longer == Append(R, [seq |-> r.seq, body |-> r.body])
  <2>5. r.size \in Nat /\ next <= Len(f) /\ f[c + 1].of = r /\ f[c + 1].is = "record"
    BY <2>4, SMT DEF WholeAt, Written
  <2>6. c + 1 \in c + 1..Len(f) /\ next \in Nat
    BY <2>1, <2>5, SMT DEF RecordHeaderCells
  <2>7. r.seq = n + 1
    BY <2>5, <2>6 DEF Leftover
  <2>8. Read(f, n + 1, longer, next)
    BY <2>4, <2>7, ReadOneMore
  <2>9. ASSUME Passes(f)[n + 1 + 1].outcome = "reading"
        PROVE  FALSE
    <3> DEFINE behind == Passes(f)[n + 1]
    <3>1. /\ behind \in Scans /\ behind.cursor = next /\ behind.outcome = "reading"
      BY <2>8, ReadScan, SMT
    <3>2. Passes(f)[n + 1 + 1] = ScanRecord(f, behind)
      BY <2>2, PassesStep
    <3>3. PICK q \in Written : WholeAt(f, behind.cursor, q)
      <4> HIDE DEF behind
      <4> QED
        BY <2>5, <2>9, <3>1, <3>2, PassReads
    <3>4. WholeAt(f, next, q)
      BY <3>1, <3>3
    <3>5. f[next + 1].is = "record" /\ q.size \in Nat /\ next + RecordHeaderCells + q.size <= Len(f)
      BY <3>4, SMT DEF WholeAt, Written
    <3>6. next + 1 \in c + 1..Len(f) /\ ~(next + 1 <= c + RecordHeaderCells)
      <4>1. \A a, b, z, y \in Nat :
              a + RecordHeaderCells + z + RecordHeaderCells + y <= b =>
                /\ a + RecordHeaderCells + z + 1 \in a + 1..b
                /\ ~(a + RecordHeaderCells + z + 1 <= a + RecordHeaderCells)
        BY SMT DEF RecordHeaderCells
      <4> QED
        BY <2>1, <2>5, <3>5, <4>1
    <3> QED
      BY <3>5, <3>6 DEF Leftover
  <2>10. EndsAt(f, n + 1, longer, next)
    BY <2>8, <2>9, StopsHere
  <2> QED
    BY <2>4, <2>7, <2>10 DEF OneMore
<1> QED
  BY <1>1, <1>2

\* A pass that stops decides the outcome of the scan.
LEMMA StopsWith ==
  ASSUME NEW f \in Seq(Cells), NEW n, NEW R, NEW c, Read(f, n, R, c),
         NEW outcome \in Outcomes, outcome # "reading", NEW repaired \in Nat,
         ScanRecord(f, Passes(f)[n]) = Stop(Passes(f)[n], outcome, repaired)
  PROVE  Passes(f)[n + 1].outcome = outcome /\ Passes(f)[Len(f)].outcome = outcome
<1>1. n \in 0..Len(f) - 1 /\ n + 1 \in 0..Len(f) /\ Len(f) >= HeaderCells
  BY ReadWithin
<1>2. Passes(f)[n + 1] = Stop(Passes(f)[n], outcome, repaired)
  BY <1>1, PassesStep
<1>3. Passes(f)[n] \in Scans
  BY ReadScan
<1>4. Stop(Passes(f)[n], outcome, repaired).outcome = outcome
  BY <1>3, StopFields
<1>5. Passes(f)[n + 1].outcome = outcome
  BY <1>2, <1>4
<1>6. Passes(f)[Len(f)] = Passes(f)[n + 1]
  BY <1>1, <1>5, StoppedStays
<1> QED
  BY <1>5, <1>6

\* A file of whole records is trusted and read as those records.
LEMMA WholeFile ==
  ASSUME NEW f \in Seq(Cells), NEW n, NEW R, NEW c, Read(f, n, R, c), c = Len(f)
  PROVE  Trustworthy(Passes(f)[Len(f)]) /\ EndsAt(f, n, R, c)
<1> DEFINE scan == Passes(f)[n]
           outcome == IF scan.records = <<>> THEN "empty" ELSE "ok"
<1>1. scan.cursor = c /\ scan.outcome = "reading"
  BY ReadScan, SMT
<1>2. Len(f) \in Nat /\ Len(f) - Len(f) = 0 /\ 0 \in Nat
  BY SMT
<1>3. ScanRecord(f, scan) = Stop(scan, outcome, 0)
  BY <1>1, <1>2 DEF ScanRecord
<1>4. outcome \in Outcomes /\ outcome # "reading" /\ outcome \in {"ok", "empty", "torn"}
  BY DEF Outcomes
<1> HIDE DEF outcome
<1>5. Passes(f)[n + 1].outcome = outcome /\ Passes(f)[Len(f)].outcome = outcome
  BY <1>2, <1>3, <1>4, StopsWith
<1>6. Trustworthy(Passes(f)[Len(f)])
  BY <1>4, <1>5 DEF Trustworthy
<1> QED
  BY <1>4, <1>5, <1>6, StopsHere

\* What stands behind the offset c is a prefix of the record r.
Begins(f, c, r) == \A i \in 1..Len(f) - c : f[c + i] = RecordCells(r)[i]

\* A part of one record behind whole records is trusted: it is a torn tail, or the
\* whole record.
LEMMA PrefixTrusted ==
  ASSUME NEW f \in Seq(Cells), NEW n, NEW R, NEW c, Read(f, n, R, c), n < MaxRecords,
         NEW r \in Written, r.seq = n + 1, r.size <= MaxRecord,
         Len(f) <= c + RecordHeaderCells + r.size,
         Begins(f, c, r)
  PROVE  Trustworthy(Passes(f)[Len(f)])
<1>0. \A i \in 1..Len(f) - c : f[c + i] = RecordCells(r)[i]
  BY DEF Begins
<1> USE <1>0
<1> DEFINE scan == Passes(f)[n]
           remaining == Len(f) - c
<1>1. scan.cursor = c /\ scan.outcome = "reading"
  BY ReadScan, SMT
<1>2. Len(f) \in Nat /\ c \in Nat /\ c <= Len(f) /\ r.size \in Nat /\ MaxRecord \in Nat
  BY LimitsAreNumbers, SMT DEF Read, Written
<1>3. "torn" \in Outcomes /\ "torn" # "reading"
  BY DEF Outcomes
<1>4. ASSUME remaining \in Nat, ScanRecord(f, scan) = Stop(scan, "torn", remaining)
      PROVE  Trustworthy(Passes(f)[Len(f)])
  <2>1. Passes(f)[Len(f)].outcome = "torn"
    BY <1>3, <1>4, StopsWith
  <2> QED
    BY <2>1 DEF Trustworthy
<1>5. CASE remaining = 0
  <2>1. c = Len(f)
    BY <1>2, <1>5, SMT
  <2> QED
    BY <2>1, WholeFile
<1>6. CASE remaining # 0 /\ remaining < RecordHeaderCells
  <2>1. remaining \in Nat
    BY <1>2, SMT
  <2>2. ScanRecord(f, scan) = Stop(scan, "torn", remaining)
    BY <1>1, <1>6 DEF ScanRecord
  <2> QED
    BY <1>4, <2>1, <2>2
<1>7. CASE remaining # 0 /\ ~(remaining < RecordHeaderCells)
  <2>1. remaining \in Nat /\ 1 \in 1..RecordHeaderCells
    BY <1>2, <1>7, SMT DEF RecordHeaderCells
  <2>2. \A i \in 1..RecordHeaderCells : i \in 1..Len(f) - c
    BY <1>2, <1>7, SMT DEF RecordHeaderCells
  <2>3. \A i \in 1..RecordHeaderCells : f[c + i] = [is |-> "record", at |-> i, of |-> r]
    <3> TAKE i \in 1..RecordHeaderCells
    <3>1. f[c + i] = RecordCells(r)[i]
      BY <2>2
    <3>2. RecordCells(r)[i] = [is |-> "record", at |-> i, of |-> r]
      BY RecordCellsAre
    <3> QED
      BY <3>1, <3>2
  <2>4. f[c + 1].of = r /\ f[c + 1].is = "record"
    <3>1. f[c + 1] = [is |-> "record", at |-> 1, of |-> r]
      BY <2>1, <2>3
    <3> QED
      BY <3>1, SMT
  <2>5. HeaderIntact(f, c)
    BY <2>3, <2>4 DEF HeaderIntact
  <2>6. CASE r.size > remaining - RecordHeaderCells
    <3>1. ~(r.size > MaxRecord)
      BY <1>2, SMT
    <3>2. ScanRecord(f, scan) = Stop(scan, "torn", remaining)
      BY <1>1, <1>7, <2>4, <2>5, <2>6, <3>1 DEF ScanRecord
    <3> QED
      BY <1>4, <2>1, <3>2
  <2>7. CASE ~(r.size > remaining - RecordHeaderCells)
    <3>1. c + RecordHeaderCells + r.size <= Len(f) /\ c + RecordHeaderCells + r.size = Len(f)
      BY <1>2, <2>7, SMT DEF RecordHeaderCells
    <3>2. PayloadIntact(f, c, r)
      <4>1. \A i \in 1..r.size : RecordHeaderCells + i \in 1..Len(f) - c
        BY <1>2, <3>1, SMT DEF RecordHeaderCells
      <4>2. \A i \in 1..r.size : f[c + RecordHeaderCells + i] = [is |-> "payload", at |-> i, of |-> r.body]
        <5> TAKE i \in 1..r.size
        <5>1. RecordHeaderCells + i \in 1..Len(f) - c
          BY <4>1
        <5>2. f[c + (RecordHeaderCells + i)] = RecordCells(r)[RecordHeaderCells + i]
          BY <5>1
        <5>3. c + (RecordHeaderCells + i) = c + RecordHeaderCells + i
          BY <1>2, SMT DEF RecordHeaderCells
        <5>4. RecordCells(r)[RecordHeaderCells + i] = [is |-> "payload", at |-> i, of |-> r.body]
          BY RecordCellsAre
        <5> QED
          BY <5>2, <5>3, <5>4
      <4> QED
        BY <4>2 DEF PayloadIntact
    <3>3. WholeAt(f, c, r)
      BY <2>4, <2>5, <3>1, <3>2 DEF WholeAt
    <3>4. Read(f, n + 1, Append(R, [seq |-> r.seq, body |-> r.body]), c + RecordHeaderCells + r.size)
      BY <3>3, ReadOneMore
    <3> QED
      BY <3>1, <3>4, WholeFile
  <2> QED
    BY <2>6, <2>7
<1> QED
  BY <1>5, <1>6, <1>7

\* One record more than a load admits makes the journal unreadable.
LEMMA TooManyRefused ==
  ASSUME NEW f \in Seq(Cells), NEW n, NEW R, NEW c, Read(f, n, R, c), ~(n < MaxRecords),
         NEW r \in Written, WholeAt(f, c, r), r.seq > n, r.size <= MaxRecord
  PROVE  ~Trustworthy(Passes(f)[Len(f)])
<1> DEFINE scan == Passes(f)[n]
<1>1. /\ scan \in Scans /\ scan.cursor = c /\ scan.last = n /\ scan.records = R
      /\ scan.outcome = "reading"
  BY ReadScan, SMT
<1>2. Len(R) = n /\ 0 \in Nat
  BY DEF Read
<1>3. ScanRecord(f, scan) = Stop(scan, "bounds", 0)
  <2> HIDE DEF scan
  <2>1. WholeAt(f, scan.cursor, r) /\ r.seq > scan.last /\ ~(Len(scan.records) < MaxRecords)
    BY <1>1, <1>2
  <2> QED
    BY <1>1, <2>1, PassAdvances
<1>4. "bounds" \in Outcomes /\ "bounds" # "reading"
  BY DEF Outcomes
<1>5. Passes(f)[Len(f)].outcome = "bounds"
  BY <1>2, <1>3, <1>4, StopsWith
<1> QED
  BY <1>5 DEF Trustworthy

\* The first record was written over the end of a header that was cut short, so
\* that none begins behind the header.
Skewed(f) ==
  Len(f) > HeaderCells /\ ~(f[HeaderCells + 1].is = "record" /\ f[HeaderCells + 1].at = 1)

\* Such a file is trusted only if it ends in the one cell, which is then cut off.
LEMMA SkewedScan ==
  ASSUME NEW f \in Seq(Cells), Skewed(f), Trustworthy(Passes(f)[Len(f)])
  PROVE  Len(f) = HeaderCells + 1 /\ EndsAt(f, 0, <<>>, HeaderCells)
<1> DEFINE scan == Passes(f)[0]
<1>0. Len(f) \in Nat /\ Len(f) >= HeaderCells /\ Len(f) > HeaderCells /\ HeaderCells \in Nat
  BY SMT DEF Skewed, HeaderCells
<1>1. Read(f, 0, <<>>, HeaderCells)
  BY <1>0, ReadNothing
<1>2. scan \in Scans /\ scan.cursor = HeaderCells /\ scan.outcome = "reading"
  BY <1>1, ReadScan, SMT
<1>3. ~(f[HeaderCells + 1].is = "record" /\ HeaderIntact(f, HeaderCells))
  <2> SUFFICES ASSUME HeaderIntact(f, HeaderCells)
               PROVE  f[HeaderCells + 1].at = 1
    BY DEF Skewed
  <2>1. 1 \in 1..RecordHeaderCells
    BY SMT DEF RecordHeaderCells
  <2>2. f[HeaderCells + 1] = [is |-> "record", at |-> 1, of |-> f[HeaderCells + 1].of]
    BY <2>1 DEF HeaderIntact
  <2> QED
    BY <2>2, SMT
<1>4. Passes(f)[0 + 1].outcome # "reading"
  <2> SUFFICES ASSUME Passes(f)[0 + 1].outcome = "reading"
               PROVE  FALSE
    OBVIOUS
  <2>1. 0 \in 0..Len(f) - 1
    BY <1>0, SMT
  <2>2. Passes(f)[0 + 1] = ScanRecord(f, scan)
    BY <1>0, <2>1, PassesStep
  <2>3. PICK r \in Written : WholeAt(f, scan.cursor, r)
    <3> HIDE DEF scan
    <3>1. scan.cursor <= Len(f)
      BY <1>0, <1>2
    <3> QED
      BY <1>2, <2>2, <3>1, PassReads
  <2>4. WholeAt(f, HeaderCells, r)
    BY <1>2, <2>3
  <2> QED
    BY <1>3, <2>4 DEF WholeAt
<1>5. EndsAt(f, 0, <<>>, HeaderCells)
  BY <1>1, <1>4, StopsHere
<1>6. Len(f) = HeaderCells + 1
  <2> SUFFICES ASSUME Len(f) # HeaderCells + 1
               PROVE  FALSE
    OBVIOUS
  <2>1. Len(f) - HeaderCells # 0 /\ ~(Len(f) - HeaderCells < RecordHeaderCells)
    <3>1. \A k \in Nat : k > HeaderCells /\ k # HeaderCells + 1 =>
                         k - HeaderCells # 0 /\ ~(k - HeaderCells < RecordHeaderCells)
      BY SMT DEF HeaderCells, RecordHeaderCells
    <3> QED
      BY <1>0, <3>1
  <2>2. ScanRecord(f, scan) = Stop(scan, "corrupt", 0)
    BY <1>2, <1>3, <2>1 DEF ScanRecord
  <2>3. "corrupt" \in Outcomes /\ "corrupt" # "reading" /\ 0 \in Nat
    BY DEF Outcomes
  <2>4. Passes(f)[Len(f)].outcome = "corrupt"
    BY <1>1, <2>2, <2>3, StopsWith
  <2> QED
    BY <2>4 DEF Trustworthy
<1> QED
  BY <1>5, <1>6

----------------------------------------------------------------------------
(* Writing, cutting and the header. *)

\* The members of a sequence are in the set it is over.
LEMMA MemberOfSeq ==
  ASSUME NEW S, NEW s \in Seq(S), NEW i \in 1..Len(s)
  PROVE  s[i] \in S
  BY SMT

\* The greater of two numbers.
LEMMA GreaterOfTwo ==
  ASSUME NEW a \in Nat, NEW b \in Nat
  PROVE  /\ Max({a, b}) \in Nat /\ a <= Max({a, b}) /\ b <= Max({a, b})
         /\ Max({a, b}) = a \/ Max({a, b}) = b
<1>1. \E x \in {a, b} : \A y \in {a, b} : x >= y
  BY SMT
<1>2. Max({a, b}) \in {a, b} /\ \A y \in {a, b} : Max({a, b}) >= y
  BY <1>1 DEF Max
<1> QED
  BY <1>2, SMT

\* The cells of a file after a write that starts within it.
LEMMA WriteAtIs ==
  ASSUME NEW f \in Seq(Cells), NEW s \in Seq(Cells), NEW offset \in Nat, offset <= Len(f)
  PROVE  /\ WriteAt(f, offset, s) \in Seq(Cells)
         /\ Len(f) <= Len(WriteAt(f, offset, s)) /\ offset + Len(s) <= Len(WriteAt(f, offset, s))
         /\ Len(WriteAt(f, offset, s)) \in {Len(f), offset + Len(s)}
         /\ \A i \in 1..offset : WriteAt(f, offset, s)[i] = f[i]
         /\ \A i \in 1..Len(s) : WriteAt(f, offset, s)[offset + i] = s[i]
         /\ \A i \in offset + Len(s) + 1..Len(f) : WriteAt(f, offset, s)[i] = f[i]
<1> DEFINE m == Max({Len(f), offset + Len(s)})
           g == WriteAt(f, offset, s)
<1>1. Len(f) \in Nat /\ Len(s) \in Nat /\ offset + Len(s) \in Nat
  BY SMT
<1>2. m \in Nat /\ Len(f) <= m /\ offset + Len(s) <= m /\ m \in {Len(f), offset + Len(s)}
  BY <1>1, GreaterOfTwo
<1> HIDE DEF m
<1>3. g = [i \in 1..m |-> IF i > offset /\ i <= offset + Len(s) THEN s[i - offset] ELSE f[i]]
  BY DEF WriteAt, m
<1>4. \A i \in 1..m :
        (IF i > offset /\ i <= offset + Len(s) THEN s[i - offset] ELSE f[i]) \in Cells
  <2> TAKE i \in 1..m
  <2>1. CASE i > offset /\ i <= offset + Len(s)
    <3>1. i - offset \in 1..Len(s)
      BY <1>1, <1>2, <2>1, SMT
    <3>2. s[i - offset] \in Cells
      BY <3>1, MemberOfSeq
    <3> QED
      BY <2>1, <3>2
  <2>2. CASE ~(i > offset /\ i <= offset + Len(s))
    <3>1. i \in 1..Len(f)
      BY <1>1, <1>2, <2>2, SMT
    <3>2. f[i] \in Cells
      BY <3>1, MemberOfSeq
    <3> QED
      BY <2>2, <3>2
  <2> QED
    BY <2>1, <2>2
<1>5. g \in [1..m -> Cells]
  BY <1>3, <1>4
<1>6. g \in Seq(Cells) /\ Len(g) = m
  BY <1>2, <1>5, SMT
<1>7. \A i \in 1..offset : g[i] = f[i]
  <2> TAKE i \in 1..offset
  <2>1. i \in 1..m /\ ~(i > offset)
    BY <1>1, <1>2, SMT
  <2> QED
    BY <1>3, <2>1
<1>8. \A i \in 1..Len(s) : g[offset + i] = s[i]
  <2> TAKE i \in 1..Len(s)
  <2> DEFINE k == offset + i
  <2>1. k \in 1..m /\ k > offset /\ k <= offset + Len(s) /\ k - offset = i
    BY <1>1, <1>2, SMT
  <2> HIDE DEF k
  <2>2. g[k] = s[k - offset]
    BY <1>3, <2>1
  <2> QED
    BY <2>1, <2>2 DEF k
<1>9. \A i \in offset + Len(s) + 1..Len(f) : g[i] = f[i]
  <2> TAKE i \in offset + Len(s) + 1..Len(f)
  <2>1. i \in 1..m /\ ~(i <= offset + Len(s))
    BY <1>1, <1>2, SMT
  <2> QED
    BY <1>3, <2>1
<1> HIDE DEF g
<1>10. /\ g \in Seq(Cells) /\ Len(f) <= Len(g) /\ offset + Len(s) <= Len(g)
       /\ Len(g) \in {Len(f), offset + Len(s)}
  BY <1>2, <1>6
<1> QED
  BY <1>7, <1>8, <1>9, <1>10 DEF g

\* The first n cells of a file.
LEMMA FirstCells ==
  ASSUME NEW f \in Seq(Cells), NEW n \in 0..Len(f)
  PROVE  /\ SubSeq(f, 1, n) \in Seq(Cells) /\ Len(SubSeq(f, 1, n)) = n
         /\ \A i \in 1..n : SubSeq(f, 1, n)[i] = f[i]
<1>1. Len(f) \in Nat /\ n \in Nat /\ n <= Len(f)
  BY SMT
<1> QED
  BY <1>1, SMT

\* The header of a journal is three cells, each in its place.
LEMMA HeaderIs ==
  ASSUME NEW e \in 0..MaxEpoch
  PROVE  /\ JournalHeader(e) \in Seq(Cells) /\ Len(JournalHeader(e)) = HeaderCells
         /\ \A i \in 1..HeaderCells : JournalHeader(e)[i].is = "header" /\ JournalHeader(e)[i].at = i
         /\ JournalHeader(e)[2].of = EpochBody(e) /\ JournalHeader(e)[3].of = EpochBody(e)
<1>1. HeaderCells \in Nat /\ 2 \in 1..HeaderCells /\ 3 \in 1..HeaderCells /\ 2 # 1 /\ 3 # 1
  BY SMT DEF HeaderCells
<1>2. 0 \in 0..MaxEpoch
  BY LimitsAreNumbers, SMT
<1>3. \A i \in 1..HeaderCells :
        JournalHeader(e)[i] = [is |-> "header", at |-> i, of |-> EpochBody(IF i = 1 THEN 0 ELSE e)]
  BY DEF JournalHeader
<1>4. \A i \in 1..HeaderCells :
        [is |-> "header", at |-> i, of |-> EpochBody(IF i = 1 THEN 0 ELSE e)] \in Cells
  <2> TAKE i \in 1..HeaderCells
  <2>1. (IF i = 1 THEN 0 ELSE e) \in 0..MaxEpoch
    BY <1>2
  <2>2. EpochBody(IF i = 1 THEN 0 ELSE e) \in {EpochBody(x) : x \in 0..MaxEpoch}
    BY <2>1
  <2>3. [is |-> "header", at |-> i, of |-> EpochBody(IF i = 1 THEN 0 ELSE e)] \in HeaderCell
    BY <2>2 DEF HeaderCell
  <2> QED
    BY <2>3 DEF Cells
<1>5. JournalHeader(e) \in [1..HeaderCells -> Cells]
  BY <1>4 DEF JournalHeader
<1>6. JournalHeader(e) \in Seq(Cells) /\ Len(JournalHeader(e)) = HeaderCells
  BY <1>1, <1>5, SMT
<1>7. \A i \in 1..HeaderCells : JournalHeader(e)[i].is = "header" /\ JournalHeader(e)[i].at = i
  <2> TAKE i \in 1..HeaderCells
  <2>1. JournalHeader(e)[i] = [is |-> "header", at |-> i, of |-> EpochBody(IF i = 1 THEN 0 ELSE e)]
    BY <1>3
  <2> QED
    BY <2>1, SMT
<1>8. JournalHeader(e)[2].of = EpochBody(e) /\ JournalHeader(e)[3].of = EpochBody(e)
  <2>1. /\ JournalHeader(e)[2] = [is |-> "header", at |-> 2, of |-> EpochBody(IF 2 = 1 THEN 0 ELSE e)]
        /\ JournalHeader(e)[3] = [is |-> "header", at |-> 3, of |-> EpochBody(IF 3 = 1 THEN 0 ELSE e)]
    BY <1>1, <1>3
  <2>2. (IF 2 = 1 THEN 0 ELSE e) = e /\ (IF 3 = 1 THEN 0 ELSE e) = e
    BY <1>1
  <2>3. /\ JournalHeader(e)[2].of = EpochBody(IF 2 = 1 THEN 0 ELSE e)
        /\ JournalHeader(e)[3].of = EpochBody(IF 3 = 1 THEN 0 ELSE e)
    BY <2>1, SMT
  <2> QED
    BY <2>2, <2>3
<1> QED
  BY <1>6, <1>7, <1>8

----------------------------------------------------------------------------
(* The journal as appends and starts leave it. *)

\* What stands behind the records is nothing, or a prefix of the next one.
Exact(f, c, n) ==
  \/ Len(f) = c
  \/ \E r \in Written :
       /\ r.seq = n + 1 /\ r.size <= MaxRecord
       /\ Len(f) <= c + RecordHeaderCells + r.size
       /\ Begins(f, c, r)

\* The records that were read are acknowledged, and every acknowledged bundle is
\* among them.
Promised(A, n, R) ==
  /\ \A i \in 1..n : R[i] \in A
  /\ \A r \in A : CarriesSession(r) => \E i \in 1..n : r = R[i]

Within(f) == Len(f) <= HeaderCells \/ Len(f) <= MaxJournal

\* A journal of the n records R, which end at c, of which A were acknowledged and
\* to which the faults S happened.
LaidAs(f, A, S, n, R, c) ==
  /\ Read(f, n, R, c) /\ Leftover(f, c, n) /\ Promised(A, n, R) /\ Within(f)
  /\ "header" \notin S => ValidHeader(f)
  /\ "remnant" \notin S => Exact(f, c, n)

\* A journal with a record too many.
DoomedAs(f, A, n, R, c, r) ==
  /\ Read(f, n, R, c) /\ ~(n < MaxRecords)
  /\ r \in Written /\ WholeAt(f, c, r) /\ r.seq > n /\ r.size <= MaxRecord
  /\ \E a \in A : ~(a.seq < MaxRecords)

\* A file over which the first k cells of a record were written.
Overwritten(f, c, r, k) == WriteAt(f, c, SubSeq(RecordCells(r), 1, k))

\* The file g is f but for the first k cells of the record r at c.
Holds(g, f, c, r, k) ==
  /\ g \in Seq(Cells) /\ Len(f) <= Len(g) /\ c + k <= Len(g)
  /\ Len(g) \in {Len(f), c + k}
  /\ \A i \in 1..c : g[i] = f[i]
  /\ \A i \in 1..k : g[c + i] = RecordCells(r)[i]
  /\ \A i \in c + k + 1..Len(f) : g[i] = f[i]

\* The first k cells of a record, written at c.
LEMMA OverwrittenIs ==
  ASSUME NEW f \in Seq(Cells), NEW c \in Nat, c <= Len(f), NEW r \in Written,
         NEW k \in 0..RecordHeaderCells + r.size
  PROVE  Holds(Overwritten(f, c, r, k), f, c, r, k)
<1> DEFINE s == SubSeq(RecordCells(r), 1, k)
<1>1. RecordCells(r) \in Seq(Cells) /\ Len(RecordCells(r)) = RecordHeaderCells + r.size
  BY RecordCellsAre
<1>2. k \in 0..Len(RecordCells(r))
  BY <1>1
<1>3. s \in Seq(Cells) /\ Len(s) = k /\ \A i \in 1..k : s[i] = RecordCells(r)[i]
  BY <1>1, <1>2, FirstCells
<1> HIDE DEF s
<1> DEFINE g == WriteAt(f, c, s)
<1>4. /\ g \in Seq(Cells) /\ Len(f) <= Len(g) /\ c + Len(s) <= Len(g)
      /\ Len(g) \in {Len(f), c + Len(s)}
      /\ \A i \in 1..c : g[i] = f[i]
      /\ \A i \in 1..Len(s) : g[c + i] = s[i]
      /\ \A i \in c + Len(s) + 1..Len(f) : g[i] = f[i]
  BY <1>3, WriteAtIs
<1> HIDE DEF g
<1>5. Overwritten(f, c, r, k) = g
  BY DEF Overwritten, g, s
<1>6. Holds(g, f, c, r, k)
  BY <1>3, <1>4 DEF Holds
<1> QED
  BY <1>5, <1>6

\* A record written whole is the prefix with all of its cells.
LEMMA OverwrittenWhole ==
  ASSUME NEW f, NEW c, NEW r \in Written
  PROVE  WriteAt(f, c, RecordCells(r)) = Overwritten(f, c, r, RecordHeaderCells + r.size)
<1> DEFINE n == RecordHeaderCells + r.size
           s == RecordCells(r)
<1>1. s \in Seq(Cells) /\ Len(s) = n
  BY RecordCellsAre
<1>2. n \in Nat
  BY <1>1, SMT
<1> HIDE DEF n, s
<1>3. n \in 0..Len(s)
  BY <1>1, <1>2, SMT
<1>4. SubSeq(s, 1, n) \in Seq(Cells) /\ Len(SubSeq(s, 1, n)) = n /\ \A i \in 1..n : SubSeq(s, 1, n)[i] = s[i]
  BY <1>1, <1>3, FirstCells
<1>5. SubSeq(s, 1, n) = s
  BY <1>1, <1>4, SMT
<1> QED
  BY <1>5 DEF Overwritten, n, s

\* What stands behind a prefix of the next record is still left over.
LEMMA LeftoverBehind ==
  ASSUME NEW f \in Seq(Cells), NEW c \in Nat, NEW n \in Nat, c <= Len(f), Leftover(f, c, n),
         NEW r \in Written, r.seq = n + 1, NEW k \in 0..RecordHeaderCells + r.size
  PROVE  Leftover(Overwritten(f, c, r, k), c, n)
<1> DEFINE g == Overwritten(f, c, r, k)
<1>0. Holds(g, f, c, r, k)
  BY OverwrittenIs
<1> HIDE DEF g
<1>1. /\ g \in Seq(Cells) /\ Len(f) <= Len(g) /\ c + k <= Len(g)
      /\ Len(g) \in {Len(f), c + k}
      /\ \A i \in 1..c : g[i] = f[i]
      /\ \A i \in 1..k : g[c + i] = RecordCells(r)[i]
      /\ \A i \in c + k + 1..Len(f) : g[i] = f[i]
  BY <1>0 DEF Holds
<1>2. r.size \in Nat /\ Len(f) \in Nat /\ Len(g) \in Nat /\ RecordHeaderCells = 2
  BY <1>1, SMT DEF Written, RecordHeaderCells
<1>3. SUFFICES ASSUME NEW i \in c + 1..Len(g)
               PROVE  \/ g[i].is = "payload"
                      \/ g[i].is = "record" /\ i <= c + RecordHeaderCells /\ g[i].of.seq = n + 1
  BY DEF Leftover, g
<1>4. CASE i \in c + k + 1..Len(f)
  <2>1. g[i] = f[i] /\ i \in c + 1..Len(f)
    <3>1. i \in c + 1..Len(f)
      BY <1>2, <1>4, SMT
    <3> QED
      BY <1>1, <1>4, <3>1
  <2> QED
    BY <2>1 DEF Leftover
<1>5. CASE i \notin c + k + 1..Len(f)
  <2> DEFINE j == i - c
  <2>1. j \in 1..k /\ i = c + j /\ j \in 1..RecordHeaderCells + r.size
    BY <1>1, <1>2, <1>5, SMT
  <2> HIDE DEF j
  <2>2. g[i] = RecordCells(r)[j]
    BY <1>1, <2>1
  <2>3. CASE j \in 1..RecordHeaderCells
    <3>1. RecordCells(r)[j] = [is |-> "record", at |-> j, of |-> r]
      BY <2>3, RecordCellsAre
    <3>2. g[i].is = "record" /\ g[i].of = r
      BY <2>2, <3>1, SMT
    <3>3. i <= c + RecordHeaderCells
      BY <1>2, <2>1, <2>3, SMT
    <3> QED
      BY <3>2, <3>3
  <2>4. CASE j \notin 1..RecordHeaderCells
    <3> DEFINE l == j - RecordHeaderCells
    <3>1. l \in 1..r.size /\ j = RecordHeaderCells + l
      BY <1>2, <2>1, <2>4, SMT
    <3> HIDE DEF l
    <3>2. RecordCells(r)[j] = [is |-> "payload", at |-> l, of |-> r.body]
      BY <3>1, RecordCellsAre
    <3> QED
      BY <2>2, <3>2, SMT
  <2> QED
    BY <2>3, <2>4
<1> QED
  BY <1>4, <1>5

\* The parts of a journal that are numbers.
LEMMA ReadNumbers ==
  ASSUME NEW f \in Seq(Cells), NEW n, NEW R, NEW c, Read(f, n, R, c)
  PROVE  /\ n \in Nat /\ c \in Nat /\ HeaderCells <= c /\ c <= Len(f) /\ Len(f) \in Nat
         /\ HeaderCells + RecordHeaderCells * n <= c
         /\ R \in Founds /\ Len(R) = n /\ \A i \in 1..n : R[i].seq = i
<1>1. /\ n \in Nat /\ c \in Nat /\ HeaderCells + RecordHeaderCells * n <= c /\ c <= Len(f)
      /\ R \in Founds /\ Len(R) = n /\ \A i \in 1..n : R[i].seq = i
  BY DEF Read
<1>2. Len(f) \in Nat
  BY SMT
<1>3. \A x, y \in Nat : HeaderCells + RecordHeaderCells * x <= y => HeaderCells <= y
  BY SMT DEF HeaderCells, RecordHeaderCells
<1> QED
  BY <1>1, <1>2, <1>3

\* The header of a file is that of a file with the same first cells.
LEMMA HeaderElsewhere ==
  ASSUME NEW f \in Seq(Cells), NEW g \in Seq(Cells), Len(g) >= HeaderCells,
         \A i \in 1..HeaderCells : g[i] = f[i], ValidHeader(f)
  PROVE  ValidHeader(g)
<1>1. 2 \in 1..HeaderCells /\ 3 \in 1..HeaderCells
  BY SMT DEF HeaderCells
<1>2. g[2] = f[2] /\ g[3] = f[3]
  BY <1>1
<1> QED
  BY <1>2 DEF ValidHeader

\* An append that writes the first k cells of the next record leaves the journal
\* laid out, and the faults of it are counted.
LEMMA TearLaid ==
  ASSUME NEW f \in Seq(Cells), NEW A, NEW S, NEW n, NEW R, NEW c, LaidAs(f, A, S, n, R, c),
         NEW r \in Written, r.seq = n + 1, r.size <= MaxRecord,
         c + r.size + RecordHeaderCells <= MaxJournal,
         NEW k \in 0..RecordHeaderCells + r.size, NEW T,
         T = S \cup (IF c + k < Len(f) THEN {"remnant"} ELSE {})
  PROVE  LaidAs(Overwritten(f, c, r, k), A, T, n, R, c)
<1> DEFINE g == Overwritten(f, c, r, k)
<1>1. /\ Read(f, n, R, c) /\ Leftover(f, c, n) /\ Promised(A, n, R) /\ Within(f)
      /\ "header" \notin S => ValidHeader(f)
      /\ "remnant" \notin S => Exact(f, c, n)
  BY DEF LaidAs
<1>2. n \in Nat /\ c \in Nat /\ HeaderCells <= c /\ c <= Len(f) /\ Len(f) \in Nat
  BY <1>1, ReadNumbers
<1>0. Holds(g, f, c, r, k)
  BY <1>2, OverwrittenIs
<1>4. Leftover(g, c, n)
  BY <1>1, <1>2, LeftoverBehind
<1> HIDE DEF g
<1>3. /\ g \in Seq(Cells) /\ Len(f) <= Len(g) /\ c + k <= Len(g)
      /\ Len(g) \in {Len(f), c + k}
      /\ \A i \in 1..c : g[i] = f[i]
      /\ \A i \in 1..k : g[c + i] = RecordCells(r)[i]
      /\ \A i \in c + k + 1..Len(f) : g[i] = f[i]
  BY <1>0 DEF Holds
<1>5. r.size \in Nat /\ k \in Nat /\ k <= RecordHeaderCells + r.size /\ Len(g) \in Nat /\ RecordHeaderCells = 2
  BY <1>3, SMT DEF Written, RecordHeaderCells
<1>6. Read(g, n, R, c)
  <2>1. c <= Len(g)
    BY <1>2, <1>3, <1>5, SMT
  <2>2. \A i \in HeaderCells + 1..c : i \in 1..c
    BY <1>2, SMT DEF HeaderCells
  <2>3. \A i \in HeaderCells + 1..c : g[i] = f[i]
    BY <1>3, <2>2
  <2> QED
    BY <1>1, <1>3, <2>1, <2>3, ReadElsewhere
<1>7. Within(g)
  <2>1. c + k <= MaxJournal
    BY <1>2, <1>5, LimitsAreNumbers, SMT
  <2> QED
    BY <1>1, <1>3, <2>1 DEF Within
<1>8. "header" \notin T => ValidHeader(g)
  <2>1. Len(g) >= HeaderCells /\ \A i \in 1..HeaderCells : i \in 1..c
    BY <1>2, <1>3, <1>5, SMT DEF HeaderCells
  <2>2. \A i \in 1..HeaderCells : g[i] = f[i]
    BY <1>3, <2>1
  <2>3. "header" \notin T => "header" \notin S
    OBVIOUS
  <2> QED
    BY <1>1, <1>3, <2>1, <2>2, <2>3, HeaderElsewhere
<1>9. "remnant" \notin T => Exact(g, c, n)
  <2> HAVE "remnant" \notin T
  <2>1. ~(c + k < Len(f))
    OBVIOUS
  <2>2. Len(g) = c + k /\ Len(g) - c = k /\ Len(g) <= c + RecordHeaderCells + r.size
    BY <1>2, <1>3, <1>5, <2>1, SMT
  <2>3. \A i \in 1..Len(g) - c : g[c + i] = RecordCells(r)[i]
    BY <1>3, <2>2
  <2> QED
    BY <2>2, <2>3 DEF Exact, Begins
<1> QED
  BY <1>1, <1>4, <1>6, <1>7, <1>8, <1>9 DEF LaidAs, g

\* A record written whole stands whole.
LEMMA WholeWritten ==
  ASSUME NEW f \in Seq(Cells), NEW g, NEW c \in Nat, NEW r \in Written,
         Holds(g, f, c, r, RecordHeaderCells + r.size)
  PROVE  WholeAt(g, c, r)
<1>1. r.size \in Nat /\ RecordHeaderCells = 2
  BY SMT DEF Written, RecordHeaderCells
<1>2. c + (RecordHeaderCells + r.size) = c + RecordHeaderCells + r.size
  BY <1>1, SMT
<1>3. c + RecordHeaderCells + r.size <= Len(g)
  BY <1>2 DEF Holds
<1>4. \A i \in 1..RecordHeaderCells + r.size : g[c + i] = RecordCells(r)[i]
  BY DEF Holds
<1>5. \A i \in 1..RecordHeaderCells : g[c + i] = [is |-> "record", at |-> i, of |-> r]
  <2> TAKE i \in 1..RecordHeaderCells
  <2>1. i \in 1..RecordHeaderCells + r.size
    BY <1>1, SMT
  <2> QED
    BY <1>4, <2>1, RecordCellsAre
<1>6. \A i \in 1..r.size : g[c + RecordHeaderCells + i] = [is |-> "payload", at |-> i, of |-> r.body]
  <2> TAKE i \in 1..r.size
  <2> DEFINE j == RecordHeaderCells + i
  <2>1. j \in 1..RecordHeaderCells + r.size /\ c + j = c + RecordHeaderCells + i
    BY <1>1, SMT
  <2> HIDE DEF j
  <2>2. g[c + j] = RecordCells(r)[j]
    BY <1>4, <2>1
  <2>3. RecordCells(r)[RecordHeaderCells + i] = [is |-> "payload", at |-> i, of |-> r.body]
    BY RecordCellsAre
  <2> QED
    BY <2>1, <2>2, <2>3 DEF j
<1>7. g[c + 1].is = "record" /\ g[c + 1].of = r
  <2>1. 1 \in 1..RecordHeaderCells
    BY <1>1, SMT
  <2>2. g[c + 1] = [is |-> "record", at |-> 1, of |-> r]
    BY <1>5, <2>1
  <2> QED
    BY <2>2, SMT
<1>8. HeaderIntact(g, c)
  BY <1>5, <1>7 DEF HeaderIntact
<1>9. PayloadIntact(g, c, r)
  BY <1>6 DEF PayloadIntact
<1> QED
  BY <1>3, <1>7, <1>8, <1>9 DEF WholeAt

\* One more acknowledged record.
LEMMA PromisedOneMore ==
  ASSUME NEW A, NEW n \in Nat, NEW R \in Founds, Len(R) = n, Promised(A, n, R), NEW x \in Found
  PROVE  Promised(A \cup {x}, n + 1, Append(R, x))
<1> DEFINE Q == Append(R, x)
<1>1. \A i \in 1..n : Q[i] = R[i]
  BY SMT DEF Founds
<1>2. Q[n + 1] = x
  BY SMT DEF Founds
<1>3. \A i \in 1..n + 1 : i \in 1..n \/ i = n + 1
  BY SMT
<1>4. (\A i \in 1..n : i \in 1..n + 1) /\ n + 1 \in 1..n + 1
  BY SMT
<1> HIDE DEF Q
<1>5. \A i \in 1..n + 1 : Q[i] \in A \cup {x}
  BY <1>1, <1>2, <1>3 DEF Promised
<1>6. ASSUME NEW r \in A \cup {x}, CarriesSession(r)
      PROVE  \E i \in 1..n + 1 : r = Q[i]
  <2>1. CASE r \in A
    <3>1. PICK i \in 1..n : r = R[i]
      BY <1>6, <2>1 DEF Promised
    <3> QED
      BY <1>1, <1>4, <3>1
  <2>2. CASE r = x
    BY <1>2, <1>4, <2>2
  <2> QED
    BY <2>1, <2>2
<1> QED
  BY <1>5, <1>6 DEF Promised, Q

\* What is left over behind a whole record is left over of the one after it.
LEMMA LeftoverOneMore ==
  ASSUME NEW f \in Seq(Cells), NEW g, NEW c \in Nat, NEW n, NEW r \in Written,
         Leftover(f, c, n), Holds(g, f, c, r, RecordHeaderCells + r.size)
  PROVE  Leftover(g, c + RecordHeaderCells + r.size, n + 1)
<1> DEFINE k == RecordHeaderCells + r.size
           d == c + RecordHeaderCells + r.size
<1>1. /\ g \in Seq(Cells) /\ Len(g) \in {Len(f), c + k}
      /\ \A i \in c + k + 1..Len(f) : g[i] = f[i]
  BY DEF Holds
<1>2. r.size \in Nat /\ RecordHeaderCells = 2 /\ Len(f) \in Nat /\ Len(g) \in Nat
  BY <1>1, SMT DEF Written, RecordHeaderCells
<1>3. ASSUME NEW i \in d + 1..Len(g)
      PROVE  g[i].is = "payload"
  <2>1. i \in c + k + 1..Len(f) /\ i \in c + 1..Len(f) /\ ~(i <= c + RecordHeaderCells)
    BY <1>1, <1>2, SMT
  <2>2. g[i] = f[i]
    BY <1>1, <2>1
  <2>3. f[i].is = "payload"
    BY <2>1 DEF Leftover
  <2> QED
    BY <2>2, <2>3
<1> QED
  BY <1>3 DEF Leftover

\* An append that succeeds leaves the journal laid out with one record more, or
\* with a record too many.
LEMMA AppendLaid ==
  ASSUME NEW f \in Seq(Cells), NEW A, NEW S, NEW n, NEW R, NEW c, LaidAs(f, A, S, n, R, c),
         NEW r \in Written, r.seq = n + 1, r.size <= MaxRecord,
         c + r.size + RecordHeaderCells <= MaxJournal,
         NEW x, x = [seq |-> r.seq, body |-> r.body],
         NEW T, T = S \cup (IF c + (RecordHeaderCells + r.size) < Len(f) THEN {"remnant"} ELSE {})
  PROVE  \/ LaidAs(Overwritten(f, c, r, RecordHeaderCells + r.size), A \cup {x}, T,
                   n + 1, Append(R, x), c + RecordHeaderCells + r.size)
         \/ DoomedAs(Overwritten(f, c, r, RecordHeaderCells + r.size), A \cup {x}, n, R, c, r)
<1> DEFINE k == RecordHeaderCells + r.size
           d == c + RecordHeaderCells + r.size
           g == Overwritten(f, c, r, k)
           B == A \cup {x}
<1>1. Read(f, n, R, c) /\ Leftover(f, c, n) /\ Promised(A, n, R)
  BY DEF LaidAs
<1>2. n \in Nat /\ c \in Nat /\ c <= Len(f) /\ Len(f) \in Nat /\ R \in Founds /\ Len(R) = n
  BY <1>1, ReadNumbers
<1>3. r.size \in Nat /\ RecordHeaderCells = 2 /\ r.body \in Bodies /\ r.seq \in Nat
  BY SMT DEF Written, RecordHeaderCells
<1>4. k \in 0..RecordHeaderCells + r.size /\ k \in Nat /\ c + k = d
  <2>1. \A a, b \in Nat :
          /\ RecordHeaderCells + b \in 0..RecordHeaderCells + b /\ RecordHeaderCells + b \in Nat
          /\ a + (RecordHeaderCells + b) = a + RecordHeaderCells + b
    BY SMT DEF RecordHeaderCells
  <2> QED
    BY <1>2, <1>3, <2>1
<1>5. LaidAs(g, A, T, n, R, c)
  BY <1>4, TearLaid
<1>6. Holds(g, f, c, r, k)
  BY <1>2, <1>4, OverwrittenIs
<1>7. WholeAt(g, c, r)
  BY <1>2, <1>6, WholeWritten
<1>8. Leftover(g, d, n + 1)
  BY <1>1, <1>2, <1>6, LeftoverOneMore
<1>9. x \in Found /\ x.seq = n + 1
  BY <1>2, <1>3, SMT DEF Found
<1>10. Promised(B, n + 1, Append(R, x))
  BY <1>1, <1>2, <1>9, PromisedOneMore
<1>11. g \in Seq(Cells) /\ Len(g) \in {Len(f), c + k}  /\ c + k <= Len(g)
  BY <1>6 DEF Holds
<1> HIDE DEF g, k, d, B
<1>12. /\ Read(g, n, R, c) /\ Within(g)
       /\ "header" \notin T => ValidHeader(g)
  BY <1>5 DEF LaidAs
<1>13. CASE n < MaxRecords
  <2>1. Read(g, n + 1, Append(R, x), d)
    BY <1>7, <1>11, <1>12, <1>13, ReadOneMore DEF d
  <2>2. "remnant" \notin T => Exact(g, d, n + 1)
    <3> HAVE "remnant" \notin T
    <3>1. ~(c + k < Len(f))
      BY DEF k
    <3>2. Len(g) = d
      BY <1>2, <1>4, <1>11, <3>1, SMT
    <3> QED
      BY <3>2 DEF Exact
  <2>3. LaidAs(g, B, T, n + 1, Append(R, x), d)
    BY <1>8, <1>10, <1>12, <2>1, <2>2 DEF LaidAs
  <2> QED
    BY <2>3 DEF g, k, d, B
<1>14. CASE ~(n < MaxRecords)
  <2>1. r.seq > n /\ ~(x.seq < MaxRecords)
    BY <1>2, <1>9, <1>14, LimitsAreNumbers, SMT
  <2>2. x \in B
    BY DEF B
  <2>3. DoomedAs(g, B, n, R, c, r)
    BY <1>7, <1>12, <1>14, <2>1, <2>2 DEF DoomedAs
  <2> QED
    BY <2>3 DEF g, k, B
<1> QED
  BY <1>13, <1>14

\* A file cut behind the records is laid out as before.
LEMMA CutLaid ==
  ASSUME NEW f \in Seq(Cells), NEW A, NEW S, NEW n, NEW R, NEW c, LaidAs(f, A, S, n, R, c),
         NEW v \in Nat, c <= v, v <= Len(f)
  PROVE  LaidAs(SubSeq(f, 1, v), A, S, n, R, c)
<1> DEFINE g == SubSeq(f, 1, v)
<1>1. /\ Read(f, n, R, c) /\ Leftover(f, c, n) /\ Promised(A, n, R) /\ Within(f)
      /\ "header" \notin S => ValidHeader(f)
      /\ "remnant" \notin S => Exact(f, c, n)
  BY DEF LaidAs
<1>2. n \in Nat /\ c \in Nat /\ HeaderCells <= c /\ c <= Len(f) /\ Len(f) \in Nat
  BY <1>1, ReadNumbers
<1>3. v \in 0..Len(f)
  BY <1>2, SMT
<1>4. g \in Seq(Cells) /\ Len(g) = v /\ \A i \in 1..v : g[i] = f[i]
  BY <1>3, FirstCells
<1> HIDE DEF g
<1>5. Read(g, n, R, c)
  <2>1. c <= Len(g) /\ \A i \in HeaderCells + 1..c : i \in 1..v
    BY <1>2, <1>4, SMT DEF HeaderCells
  <2>2. \A i \in HeaderCells + 1..c : g[i] = f[i]
    BY <1>4, <2>1
  <2> QED
    BY <1>1, <1>4, <2>1, <2>2, ReadElsewhere
<1>6. Leftover(g, c, n)
  <2>1. \A i \in c + 1..Len(g) : i \in 1..v /\ i \in c + 1..Len(f)
    BY <1>2, <1>4, SMT
  <2>2. \A i \in c + 1..Len(g) : g[i] = f[i] /\ i \in c + 1..Len(f)
    BY <1>4, <2>1
  <2> QED
    BY <1>1, <2>2 DEF Leftover
<1>7. Within(g)
  <2>1. \A x, y, z \in Nat : x <= y /\ y <= z => x <= z
    BY SMT
  <2>2. HeaderCells \in Nat /\ MaxJournal \in Nat
    BY LimitsAreNumbers, SMT DEF HeaderCells
  <2> QED
    BY <1>1, <1>2, <1>4, <2>1, <2>2 DEF Within
<1>8. "header" \notin S => ValidHeader(g)
  <2>1. Len(g) >= HeaderCells /\ \A i \in 1..HeaderCells : i \in 1..v
    BY <1>2, <1>4, SMT DEF HeaderCells
  <2>2. \A i \in 1..HeaderCells : g[i] = f[i]
    BY <1>4, <2>1
  <2> QED
    BY <1>1, <1>4, <2>1, <2>2, HeaderElsewhere
<1>9. "remnant" \notin S => Exact(g, c, n)
  <2> HAVE "remnant" \notin S
  <2>1. Exact(f, c, n)
    BY <1>1
  <2>2. CASE Len(f) = c
    <3>1. Len(g) = c
      BY <1>2, <1>4, <2>2, SMT
    <3> QED
      BY <3>1 DEF Exact
  <2>3. CASE Len(f) # c
    <3>1. PICK r \in Written :
            /\ r.seq = n + 1 /\ r.size <= MaxRecord
            /\ Len(f) <= c + RecordHeaderCells + r.size
            /\ \A i \in 1..Len(f) - c : f[c + i] = RecordCells(r)[i]
      BY <2>1, <2>3 DEF Exact, Begins
    <3>2. r.size \in Nat /\ RecordHeaderCells = 2
      BY SMT DEF Written, RecordHeaderCells
    <3>3. Len(g) <= c + RecordHeaderCells + r.size
      BY <1>2, <1>4, <3>1, <3>2, SMT
    <3>4. \A i \in 1..Len(g) - c : i \in 1..Len(f) - c /\ c + i \in 1..v
      BY <1>2, <1>4, SMT
    <3>5. \A i \in 1..Len(g) - c : g[c + i] = RecordCells(r)[i]
      BY <1>4, <3>1, <3>4
    <3> QED
      BY <3>1, <3>3, <3>5 DEF Exact, Begins
  <2> QED
    BY <2>2, <2>3
<1> QED
  BY <1>1, <1>5, <1>6, <1>7, <1>8, <1>9 DEF LaidAs, g

\* What a file holds that ends with its records.
LEMMA WholeLaid ==
  ASSUME NEW f \in Seq(Cells), NEW n, NEW R, NEW c, Read(f, n, R, c), Len(f) = c
  PROVE  Leftover(f, c, n) /\ Exact(f, c, n)
<1>1. c \in Nat
  BY ReadNumbers
<1>2. \A i \in c + 1..Len(f) : FALSE
  BY <1>1, SMT
<1> QED
  BY <1>2 DEF Leftover, Exact

\* The records an open found join those that were acknowledged.
LEMMA PromisedFound ==
  ASSUME NEW A, NEW n \in Nat, NEW R \in Founds, Len(R) = n, NEW m, NEW Q, Promised(A, m, Q),
         \A i \in 1..m : i \in 1..n /\ R[i] = Q[i]
  PROVE  Promised(A \cup Range(R), n, R)
<1>1. DOMAIN R = 1..n
  BY SMT DEF Founds
<1>2. \A i \in 1..n : R[i] \in A \cup Range(R)
  BY <1>1 DEF Range
<1>3. ASSUME NEW r \in A \cup Range(R), CarriesSession(r)
      PROVE  \E i \in 1..n : r = R[i]
  <2>1. CASE r \in A
    <3>1. PICK i \in 1..m : r = Q[i]
      BY <1>3, <2>1 DEF Promised
    <3> QED
      BY <3>1
  <2>2. CASE r \in Range(R)
    BY <1>1, <2>2 DEF Range
  <2> QED
    BY <2>1, <2>2
<1> QED
  BY <1>2, <1>3 DEF Promised

\* A journal as open leaves it: it ends with its records.
OpenedAs(f, A, S, n, R, c) == LaidAs(f, A, S, n, R, c) /\ Len(f) = c /\ ValidHeader(f)

\* Cut back to records that were read, a journal is as open leaves it.
LEMMA CutOpened ==
  ASSUME NEW f \in Seq(Cells), Within(f), ValidHeader(f), NEW A, NEW S,
         NEW n, NEW R, NEW c, Read(f, n, R, c), Promised(A, n, R)
  PROVE  OpenedAs(SubSeq(f, 1, c), A, S, n, R, c)
<1> DEFINE g == SubSeq(f, 1, c)
<1>1. n \in Nat /\ c \in Nat /\ HeaderCells <= c /\ c <= Len(f) /\ Len(f) \in Nat
  BY ReadNumbers
<1>2. c \in 0..Len(f)
  BY <1>1, SMT
<1>3. g \in Seq(Cells) /\ Len(g) = c /\ \A i \in 1..c : g[i] = f[i]
  BY <1>2, FirstCells
<1> HIDE DEF g
<1>4. /\ c <= Len(g) /\ Len(g) >= HeaderCells
      /\ \A i \in HeaderCells + 1..c : i \in 1..c
      /\ \A i \in 1..HeaderCells : i \in 1..c
  BY <1>1, <1>3, SMT DEF HeaderCells
<1>5. Read(g, n, R, c)
  <2>1. \A i \in HeaderCells + 1..c : g[i] = f[i]
    BY <1>3, <1>4
  <2> QED
    BY <1>3, <1>4, <2>1, ReadElsewhere
<1>6. ValidHeader(g)
  <2>1. \A i \in 1..HeaderCells : g[i] = f[i]
    BY <1>3, <1>4
  <2> QED
    BY <1>3, <1>4, <2>1, HeaderElsewhere
<1>7. Within(g)
  <2>1. \A x, y, z \in Nat : x <= y /\ y <= z => x <= z
    BY SMT
  <2>2. HeaderCells \in Nat /\ MaxJournal \in Nat
    BY LimitsAreNumbers, SMT DEF HeaderCells
  <2> QED
    BY <1>1, <1>3, <2>1, <2>2 DEF Within
<1>8. Leftover(g, c, n) /\ Exact(g, c, n)
  BY <1>3, <1>5, WholeLaid
<1>9. OpenedAs(g, A, S, n, R, c)
  BY <1>3, <1>5, <1>6, <1>7, <1>8 DEF OpenedAs, LaidAs
<1> QED
  BY <1>9 DEF g

\* The journal cut at v is as open leaves it, with the records of the scan.
Opens(f, A, S, v, scan) ==
  \E m, Q : OpenedAs(SubSeq(f, 1, v), A \cup Range(scan.records), S, m, Q, v) /\ scan.last = m

\* open cuts a journal back to its records, or behind one more whose append had
\* failed, and takes all of them for acknowledged.
LEMMA OpenLaid ==
  ASSUME NEW f \in Seq(Cells), NEW A, NEW S, NEW n, NEW R, NEW c, LaidAs(f, A, S, n, R, c),
         ValidHeader(f), NEW end, end = Passes(f)[Len(f)], Trustworthy(end),
         NEW v, v = Len(f) - end.repaired
  PROVE  v \in Nat /\ c <= v /\ v <= Len(f) /\ Opens(f, A, S, v, end)
<1>1. Read(f, n, R, c) /\ Leftover(f, c, n) /\ Promised(A, n, R) /\ Within(f)
  BY DEF LaidAs
<1>2. n \in Nat /\ c \in Nat /\ c <= Len(f) /\ Len(f) \in Nat /\ R \in Founds /\ Len(R) = n
  BY <1>1, ReadNumbers
<1>3. ASSUME NEW m, NEW Q, Read(f, m, Q, v), EndsAt(f, m, Q, v), c <= v,
             \A i \in 1..n : i \in 1..m /\ Q[i] = R[i]
      PROVE  /\ v \in Nat /\ c <= v /\ v <= Len(f)
             /\ Opens(f, A, S, v, end)
  <2>1. m \in Nat /\ v \in Nat /\ v <= Len(f) /\ Q \in Founds /\ Len(Q) = m
    BY <1>3 DEF Read
  <2>2. end.records = Q /\ end.last = m
    BY <1>3 DEF EndsAt
  <2>3. Promised(A \cup Range(Q), m, Q)
    BY <1>1, <1>3, <2>1, PromisedFound
  <2>4. OpenedAs(SubSeq(f, 1, v), A \cup Range(Q), S, m, Q, v)
    BY <1>1, <1>3, <2>3, CutOpened
  <2> QED
    BY <1>3, <2>1, <2>2, <2>4 DEF Opens
<1>4. CASE EndsAt(f, n, R, c)
  <2>1. v = c
    BY <1>4 DEF EndsAt
  <2>2. c <= v
    BY <1>2, <2>1, SMT
  <2>3. Read(f, n, R, v) /\ EndsAt(f, n, R, v)
    BY <1>1, <1>4, <2>1
  <2> QED
    BY <1>3, <2>2, <2>3
<1>5. ASSUME NEW r \in Written, OneMore(f, n, R, c, r)
      PROVE  v \in Nat /\ c <= v /\ v <= Len(f) /\ Opens(f, A, S, v, end)
  <2> DEFINE d == c + RecordHeaderCells + r.size
             x == [seq |-> r.seq, body |-> r.body]
             Q == Append(R, x)
  <2>1. /\ WholeAt(f, c, r) /\ r.seq = n + 1 /\ r.size <= MaxRecord /\ n < MaxRecords
        /\ EndsAt(f, n + 1, Q, d)
    BY <1>5 DEF OneMore
  <2>2. Read(f, n + 1, Q, d)
    BY <1>1, <2>1, ReadOneMore
  <2>3. r.size \in Nat /\ x \in Found
    <3>1. r.seq \in Nat /\ r.body \in Bodies /\ r.size \in Nat
      BY SMT DEF Written
    <3> QED
      BY <3>1 DEF Found
  <2>4. c <= d
    <3>1. \A a, b \in Nat : a <= a + RecordHeaderCells + b
      BY SMT DEF RecordHeaderCells
    <3> QED
      BY <1>2, <2>3, <3>1
  <2>5. \A i \in 1..n : i \in 1..n + 1
    BY <1>2, SMT
  <2>6. \A i \in 1..n : Q[i] = R[i]
    <3> HIDE DEF x
    <3> QED
      BY <1>2, <2>3, SMT DEF Founds
  <2> HIDE DEF d, Q
  <2>7. v = d
    BY <2>1 DEF EndsAt
  <2>8. Read(f, n + 1, Q, v) /\ EndsAt(f, n + 1, Q, v) /\ c <= v
    BY <2>1, <2>2, <2>4, <2>7
  <2> QED
    BY <1>3, <2>5, <2>6, <2>8
<1>6. EndsAt(f, n, R, c) \/ \E r \in Written : OneMore(f, n, R, c, r)
  BY <1>1, ScanOfLaid
<1> QED
  BY <1>4, <1>5, <1>6

\* A rewrite of the header leaves the records as they are.
LEMMA HeaderLaid ==
  ASSUME NEW f \in Seq(Cells), NEW A, NEW S, NEW n, NEW R, NEW c, LaidAs(f, A, S, n, R, c),
         NEW g \in Seq(Cells), Len(g) = Len(f), \A i \in HeaderCells + 1..Len(f) : g[i] = f[i],
         NEW T, "remnant" \in S => "remnant" \in T, "header" \notin T => ValidHeader(g)
  PROVE  LaidAs(g, A, T, n, R, c)
<1>1. /\ Read(f, n, R, c) /\ Leftover(f, c, n) /\ Promised(A, n, R) /\ Within(f)
      /\ "remnant" \notin S => Exact(f, c, n)
  BY DEF LaidAs
<1>2. n \in Nat /\ c \in Nat /\ HeaderCells <= c /\ c <= Len(f) /\ Len(f) \in Nat
  BY <1>1, ReadNumbers
<1>3. Read(g, n, R, c)
  <2>1. \A i \in HeaderCells + 1..c : i \in HeaderCells + 1..Len(f)
    BY <1>2, SMT DEF HeaderCells
  <2>2. c <= Len(g) /\ \A i \in HeaderCells + 1..c : g[i] = f[i]
    BY <1>2, <2>1
  <2> QED
    BY <1>1, <2>2, ReadElsewhere
<1>4. \A i \in c + 1..Len(f) : g[i] = f[i]
  <2>1. \A i \in c + 1..Len(f) : i \in HeaderCells + 1..Len(f)
    BY <1>2, SMT DEF HeaderCells
  <2> QED
    BY <2>1
<1>5. Leftover(g, c, n)
  BY <1>1, <1>4 DEF Leftover
<1>6. Within(g)
  BY <1>1 DEF Within
<1>7. "remnant" \notin T => Exact(g, c, n)
  <2> HAVE "remnant" \notin T
  <2>1. Exact(f, c, n)
    BY <1>1
  <2>2. \A i \in 1..Len(f) - c : c + i \in c + 1..Len(f)
    BY <1>2, SMT
  <2>3. \A i \in 1..Len(g) - c : g[c + i] = f[c + i]
    BY <1>4, <2>2
  <2> QED
    BY <2>1, <2>3 DEF Exact, Begins
<1> QED
  BY <1>1, <1>3, <1>5, <1>6, <1>7 DEF LaidAs

\* A record too many stays one too many, whatever is written behind it or before
\* the records.
LEMMA DoomedElsewhere ==
  ASSUME NEW f \in Seq(Cells), NEW A, NEW n, NEW R, NEW c, NEW r, DoomedAs(f, A, n, R, c, r),
         NEW g \in Seq(Cells), NEW B, A \subseteq B,
         NEW d \in Nat, c + RecordHeaderCells + r.size <= d, d <= Len(g),
         \A i \in HeaderCells + 1..d : g[i] = f[i]
  PROVE  DoomedAs(g, B, n, R, c, r)
<1>1. /\ Read(f, n, R, c) /\ ~(n < MaxRecords)
      /\ r \in Written /\ WholeAt(f, c, r) /\ r.seq > n /\ r.size <= MaxRecord
      /\ \E a \in A : ~(a.seq < MaxRecords)
  BY DEF DoomedAs
<1>2. n \in Nat /\ c \in Nat /\ HeaderCells <= c /\ c <= Len(f) /\ Len(f) \in Nat
  BY <1>1, ReadNumbers
<1>3. r.size \in Nat /\ Len(g) \in Nat
  BY <1>1, SMT DEF Written
<1>4. WholeAt(g, c, r)
  BY <1>1, <1>2, WholeElsewhere
<1>5. Read(g, n, R, c)
  <2>1. c <= Len(g) /\ \A i \in HeaderCells + 1..c : i \in HeaderCells + 1..d
    BY <1>2, <1>3, SMT DEF HeaderCells, RecordHeaderCells
  <2>2. \A i \in HeaderCells + 1..c : g[i] = f[i]
    BY <2>1
  <2> QED
    BY <1>1, <2>1, <2>2, ReadElsewhere
<1> QED
  BY <1>1, <1>4, <1>5 DEF DoomedAs

----------------------------------------------------------------------------
(* The shapes the file can have. *)

\* The process is between open and shutdown.
Up == {"opened", "epoch", "replay", "running", "moving"}
Begun == Up \ {"opened"}

\* A file that ends inside its header.
ShortAs(f, A, S, p, b) ==
  /\ Len(f) < HeaderCells /\ A = {}
  /\ p \in Up => p = "opened" /\ b = Len(f) /\ 1 <= Len(f) /\ "short" \in S

\* A file whose records began inside its header.
SkewAs(f, A, S, p, b) ==
  /\ Skewed(f) /\ "short" \in S
  /\ Len(f) = HeaderCells + 1 => \A r \in A : ~CarriesSession(r)
  /\ p \in Up => p # "opened" /\ HeaderCells + 1 <= b

\* A file whose header was written over and that is as long as one.
DeadAs(f, S, p) == Len(f) = HeaderCells /\ ~ValidHeader(f) /\ "short" \in S /\ p \notin Up

TooManyAs(f, A, p, b) ==
  \E n, R, c, r :
    /\ DoomedAs(f, A, n, R, c, r)
    /\ p \in Up => p # "opened" /\ c + RecordHeaderCells + r.size <= b

InPlaceAs(f, A, S, p, b, l) ==
  \E n, R, c :
    /\ LaidAs(f, A, S, n, R, c)
    /\ p \in Up => b = c /\ l = n
    /\ p = "opened" => Len(f) = c /\ ValidHeader(f)

ShapeAs(f, A, S, p, b, l) ==
  \/ ShortAs(f, A, S, p, b) \/ SkewAs(f, A, S, p, b) \/ DeadAs(f, S, p)
  \/ TooManyAs(f, A, p, b) \/ InPlaceAs(f, A, S, p, b, l)

\* A process that ended leaves the file in its shape.
LEMMA ShapeDown ==
  ASSUME NEW f, NEW A, NEW S, NEW p, NEW b, NEW l, ShapeAs(f, A, S, p, b, l),
         NEW q, q \notin Up, NEW d, NEW m
  PROVE  ShapeAs(f, A, S, q, d, m)
<1>1. q # "opened"
  BY DEF Up
<1>2. ShortAs(f, A, S, p, b) => ShortAs(f, A, S, q, d)
  BY DEF ShortAs
<1>3. SkewAs(f, A, S, p, b) => SkewAs(f, A, S, q, d)
  BY DEF SkewAs
<1>4. DeadAs(f, S, p) => DeadAs(f, S, q)
  BY DEF DeadAs
<1>5. TooManyAs(f, A, p, b) => TooManyAs(f, A, q, d)
  BY DEF TooManyAs
<1>6. InPlaceAs(f, A, S, p, b, l) => InPlaceAs(f, A, S, q, d, m)
  BY <1>1 DEF InPlaceAs
<1> QED
  BY <1>2, <1>3, <1>4, <1>5, <1>6 DEF ShapeAs

\* A process that goes on keeps the file in its shape.
LEMMA ShapeGoesOn ==
  ASSUME NEW f, NEW A, NEW S, NEW p \in Begun, NEW b, NEW l, ShapeAs(f, A, S, p, b, l),
         NEW q \in Begun
  PROVE  ShapeAs(f, A, S, q, b, l)
<1>1. p \in Up /\ p # "opened" /\ q \in Up /\ q # "opened"
  BY DEF Begun
<1>2. ~ShortAs(f, A, S, p, b) /\ ~DeadAs(f, S, p)
  BY <1>1 DEF ShortAs, DeadAs
<1>3. SkewAs(f, A, S, p, b) => SkewAs(f, A, S, q, b)
  BY <1>1 DEF SkewAs
<1>4. TooManyAs(f, A, p, b) => TooManyAs(f, A, q, b)
  BY <1>1 DEF TooManyAs
<1>5. InPlaceAs(f, A, S, p, b, l) => InPlaceAs(f, A, S, q, b, l)
  BY <1>1 DEF InPlaceAs
<1> QED
  BY <1>2, <1>3, <1>4, <1>5 DEF ShapeAs

\* A record of one payload cell that begins inside the header spoils it, and what
\* follows it is no record.
LEMMA OverwrittenShort ==
  ASSUME NEW f \in Seq(Cells), 1 <= Len(f), Len(f) < HeaderCells,
         NEW r \in Written, r.size = 1, NEW k \in 0..RecordHeaderCells + r.size,
         NEW g, Holds(g, f, Len(f), r, k)
  PROVE  /\ Len(g) = Len(f) + k
         /\ Len(g) = HeaderCells => ~ValidHeader(g)
         /\ Len(g) > HeaderCells => Skewed(g)
<1> DEFINE c == Len(f)
<1>1. /\ g \in Seq(Cells) /\ Len(f) <= Len(g) /\ c + k <= Len(g) /\ Len(g) \in {Len(f), c + k}
      /\ \A i \in 1..k : g[c + i] = RecordCells(r)[i]
  BY DEF Holds
<1>2. c \in Nat /\ k \in Nat /\ k <= 3 /\ Len(g) \in Nat /\ HeaderCells = 3 /\ RecordHeaderCells = 2
  BY <1>1, SMT DEF HeaderCells, RecordHeaderCells
<1>3. c = 1 \/ c = 2
  <2>1. \A x \in Nat : 1 <= x /\ x < 3 => x = 1 \/ x = 2
    BY SMT
  <2> QED
    BY <1>2, <2>1
<1>4. Len(g) = c + k
  BY <1>1, <1>2, SMT
<1>5. /\ 1 \in 1..RecordHeaderCells /\ 2 \in 1..RecordHeaderCells /\ 1 \in 1..r.size
      /\ RecordHeaderCells + 1 = 3
  BY <1>2, SMT
<1>6. /\ RecordCells(r)[1] = [is |-> "record", at |-> 1, of |-> r]
      /\ RecordCells(r)[2] = [is |-> "record", at |-> 2, of |-> r]
      /\ RecordCells(r)[3] = [is |-> "payload", at |-> 1, of |-> r.body]
  <2>1. /\ \A i \in 1..RecordHeaderCells : RecordCells(r)[i] = [is |-> "record", at |-> i, of |-> r]
        /\ \A i \in 1..r.size :
             RecordCells(r)[RecordHeaderCells + i] = [is |-> "payload", at |-> i, of |-> r.body]
    BY RecordCellsAre
  <2>2. RecordCells(r)[RecordHeaderCells + 1] = [is |-> "payload", at |-> 1, of |-> r.body]
    BY <1>5, <2>1
  <2>3. /\ RecordCells(r)[1] = [is |-> "record", at |-> 1, of |-> r]
        /\ RecordCells(r)[2] = [is |-> "record", at |-> 2, of |-> r]
    BY <1>5, <2>1
  <2> QED
    BY <1>5, <2>2, <2>3
<1>7. Len(g) = HeaderCells => ~ValidHeader(g)
  <2> HAVE Len(g) = HeaderCells
  <2>0. /\ \A x, y \in Nat : x = 1 /\ x + y = 3 => 2 \in 1..y /\ x + 2 = 3
        /\ \A x, y \in Nat : x = 2 /\ x + y = 3 => 1 \in 1..y /\ x + 1 = 3
    BY SMT
  <2>1. g[3] = RecordCells(r)[1] \/ g[3] = RecordCells(r)[2]
    <3>1. CASE c = 1
      <4>1. 2 \in 1..k /\ c + 2 = 3
        BY <1>2, <1>4, <2>0, <3>1
      <4> QED
        BY <1>1, <4>1
    <3>2. CASE c = 2
      <4>1. 1 \in 1..k /\ c + 1 = 3
        BY <1>2, <1>4, <2>0, <3>2
      <4> QED
        BY <1>1, <4>1
    <3> QED
      BY <1>3, <3>1, <3>2
  <2>2. g[3].is = "record"
    BY <1>6, <2>1, SMT
  <2>3. 3 \in 1..HeaderCells /\ "record" # "header"
    BY <1>2, SMT
  <2> QED
    BY <2>2, <2>3 DEF ValidHeader
<1>8. Len(g) > HeaderCells => Skewed(g)
  <2> HAVE Len(g) > HeaderCells
  <2>1. HeaderCells + 1 = 4
    BY <1>2, SMT
  <2>2. CASE c = 1
    <3>1. 3 \in 1..k /\ c + 3 = 4
      BY <1>2, <1>4, <2>2, SMT
    <3>2. g[4] = RecordCells(r)[3]
      BY <1>1, <3>1
    <3>3. g[4].is = "payload"
      BY <1>6, <3>2, SMT
    <3>4. "payload" # "record"
      BY SMT
    <3> QED
      BY <2>1, <3>3, <3>4 DEF Skewed
  <2>3. CASE c = 2
    <3>1. 2 \in 1..k /\ c + 2 = 4
      BY <1>2, <1>4, <2>3, SMT
    <3>2. g[4] = RecordCells(r)[2]
      BY <1>1, <3>1
    <3>3. g[4].at = 2
      BY <1>6, <3>2, SMT
    <3>4. 2 # 1
      BY SMT
    <3> QED
      BY <2>1, <3>3, <3>4 DEF Skewed
  <2> QED
    BY <1>3, <2>2, <2>3
<1> QED
  BY <1>4, <1>7, <1>8

\* A write behind the cell that follows the header leaves the file skewed.
LEMMA SkewedElsewhere ==
  ASSUME NEW f \in Seq(Cells), Skewed(f), NEW g \in Seq(Cells), Len(f) <= Len(g),
         g[HeaderCells + 1] = f[HeaderCells + 1]
  PROVE  Skewed(g) /\ (Len(g) = HeaderCells + 1 => Len(f) = HeaderCells + 1)
<1>1. Len(f) \in Nat /\ Len(g) \in Nat /\ Len(f) > HeaderCells /\ HeaderCells = 3
  BY SMT DEF Skewed, HeaderCells
<1>2. \A x, y \in Nat : x > 3 /\ x <= y => y > 3 /\ (y = 3 + 1 => x = 3 + 1)
  BY SMT
<1> QED
  BY <1>1, <1>2 DEF Skewed

\* An append that fails keeps the file in its shape.
LEMMA TearKeeps ==
  ASSUME NEW f \in Seq(Cells), NEW A, NEW S, NEW p \in Up, NEW b \in Nat, NEW l, b <= Len(f),
         ShapeAs(f, A, S, p, b, l),
         NEW r \in Written, r.seq = l + 1, r.size <= MaxRecord,
         b + r.size + RecordHeaderCells <= MaxJournal, p = "opened" => r.size = 1,
         NEW k \in 0..RecordHeaderCells + r.size, NEW g, g = Overwritten(f, b, r, k),
         NEW T, T = S \cup (IF b + k < Len(f) THEN {"remnant"} ELSE {}),
         NEW q, NEW d, NEW m, q \notin Up \/ (p \in Begun /\ q = p /\ d = b /\ m = l)
  PROVE  ShapeAs(g, A, T, q, d, m)
<1>1. Holds(g, f, b, r, k)
  BY OverwrittenIs
<1>2. /\ g \in Seq(Cells) /\ Len(f) <= Len(g) /\ b + k <= Len(g)
      /\ \A i \in 1..b : g[i] = f[i]
  BY <1>1 DEF Holds
<1>3. Len(f) \in Nat /\ Len(g) \in Nat /\ k \in Nat /\ r.size \in Nat /\ HeaderCells = 3
  BY <1>2, SMT DEF Written, HeaderCells, RecordHeaderCells
<1>4. "short" \in S => "short" \in T
  OBVIOUS
<1>5. q # "opened"
  BY DEF Up, Begun
<1>6. CASE ShortAs(f, A, S, p, b)
  <2>1. p = "opened" /\ b = Len(f) /\ 1 <= Len(f) /\ "short" \in S /\ Len(f) < HeaderCells /\ A = {}
    BY <1>6 DEF ShortAs
  <2>2. q \notin Up
    BY <2>1 DEF Begun
  <2>3. Holds(g, f, Len(f), r, k) /\ r.size = 1
    BY <1>1, <2>1
  <2>4. (Len(g) = HeaderCells => ~ValidHeader(g)) /\ (Len(g) > HeaderCells => Skewed(g))
    BY <2>1, <2>3, OverwrittenShort
  <2>5. \A x \in Nat : x < 3 \/ x = 3 \/ x > 3
    BY SMT
  <2>6. CASE Len(g) < HeaderCells
    BY <2>1, <2>2, <2>6 DEF ShapeAs, ShortAs
  <2>7. CASE Len(g) = HeaderCells
    BY <1>4, <2>1, <2>2, <2>4, <2>7 DEF ShapeAs, DeadAs
  <2>8. CASE Len(g) > HeaderCells
    BY <1>4, <2>1, <2>2, <2>4, <2>8 DEF ShapeAs, SkewAs
  <2> QED
    BY <1>3, <2>5, <2>6, <2>7, <2>8
<1>7. CASE SkewAs(f, A, S, p, b)
  <2>1. /\ Skewed(f) /\ "short" \in S
        /\ Len(f) = HeaderCells + 1 => \A a \in A : ~CarriesSession(a)
        /\ p # "opened" /\ HeaderCells + 1 <= b
    BY <1>7 DEF SkewAs
  <2>2. HeaderCells + 1 \in 1..b
    BY <1>3, <2>1, SMT
  <2>3. Skewed(g) /\ (Len(g) = HeaderCells + 1 => Len(f) = HeaderCells + 1)
    BY <1>2, <2>1, <2>2, SkewedElsewhere
  <2> QED
    BY <1>4, <1>5, <2>1, <2>3 DEF ShapeAs, SkewAs
<1>8. CASE DeadAs(f, S, p)
  BY <1>8 DEF DeadAs
<1>9. CASE TooManyAs(f, A, p, b)
  <2>1. PICK n, R, c, s : DoomedAs(f, A, n, R, c, s) /\ c + RecordHeaderCells + s.size <= b
    BY <1>9 DEF TooManyAs
  <2>2. b <= Len(g) /\ \A i \in HeaderCells + 1..b : i \in 1..b
    BY <1>2, <1>3, SMT
  <2>3. \A i \in HeaderCells + 1..b : g[i] = f[i]
    BY <1>2, <2>2
  <2>4. DoomedAs(g, A, n, R, c, s)
    BY <1>2, <2>1, <2>2, <2>3, DoomedElsewhere
  <2> QED
    BY <1>5, <2>1, <2>4 DEF ShapeAs, TooManyAs
<1>10. CASE InPlaceAs(f, A, S, p, b, l)
  <2>1. PICK n, R, c : LaidAs(f, A, S, n, R, c) /\ b = c /\ l = n
    BY <1>10 DEF InPlaceAs
  <2>2. LaidAs(f, A, S, l, R, b)
    BY <2>1
  <2>3. LaidAs(g, A, T, l, R, b)
    BY <2>2, TearLaid
  <2> QED
    BY <1>5, <2>3 DEF ShapeAs, InPlaceAs
<1> QED
  BY <1>6, <1>7, <1>8, <1>9, <1>10 DEF ShapeAs

\* An append that succeeds keeps the file in its shape.
LEMMA AppendKeeps ==
  ASSUME NEW f \in Seq(Cells), NEW A, NEW S, NEW p \in Up, NEW b \in Nat, NEW l, b <= Len(f),
         ShapeAs(f, A, S, p, b, l),
         NEW r \in Written, r.seq = l + 1, r.size <= MaxRecord,
         b + r.size + RecordHeaderCells <= MaxJournal,
         p = "opened" => r.size = 1 /\ r.body \notin Bundles,
         NEW g, g = Overwritten(f, b, r, RecordHeaderCells + r.size),
         NEW x, x = [seq |-> r.seq, body |-> r.body],
         NEW T, T = S \cup (IF b + (RecordHeaderCells + r.size) < Len(f) THEN {"remnant"} ELSE {}),
         NEW q \in Begun
  PROVE  ShapeAs(g, A \cup {x}, T, q, b + RecordHeaderCells + r.size, l + 1)
<1> DEFINE k == RecordHeaderCells + r.size
           d == b + RecordHeaderCells + r.size
           B == A \cup {x}
<1>0. r.size \in Nat
  BY SMT DEF Written
<1>1. k \in 0..RecordHeaderCells + r.size /\ k \in Nat /\ b + k = d /\ b <= d /\ b + 2 <= d /\ d \in Nat
  <2>1. \A i, j \in Nat :
          /\ RecordHeaderCells + j \in 0..RecordHeaderCells + j /\ RecordHeaderCells + j \in Nat
          /\ i + (RecordHeaderCells + j) = i + RecordHeaderCells + j
          /\ i <= i + RecordHeaderCells + j /\ i + 2 <= i + RecordHeaderCells + j
          /\ i + RecordHeaderCells + j \in Nat
    BY SMT DEF RecordHeaderCells
  <2> QED
    BY <1>0, <2>1
<1>2. Holds(g, f, b, r, k)
  BY <1>1, OverwrittenIs
<1> HIDE DEF d, B
<1>3. /\ g \in Seq(Cells) /\ Len(f) <= Len(g) /\ b + k <= Len(g)
      /\ \A i \in 1..b : g[i] = f[i]
  BY <1>2 DEF Holds
<1>4. Len(f) \in Nat /\ Len(g) \in Nat /\ HeaderCells = 3
  BY <1>3, SMT DEF HeaderCells
<1>5. "short" \in S => "short" \in T
  OBVIOUS
<1>6. q \in Up /\ q # "opened"
  BY DEF Up, Begun
<1>7. CASE ShortAs(f, A, S, p, b)
  <2>1. p = "opened" /\ b = Len(f) /\ 1 <= Len(f) /\ "short" \in S /\ Len(f) < HeaderCells /\ A = {}
    BY <1>7 DEF ShortAs
  <2>2. Holds(g, f, Len(f), r, k) /\ r.size = 1 /\ r.body \notin Bundles
    BY <1>2, <2>1
  <2>3. (Len(g) = HeaderCells => ~ValidHeader(g)) /\ (Len(g) > HeaderCells => Skewed(g))
    BY <1>1, <2>1, <2>2, OverwrittenShort
  <2>4. d = b + 3
    <3>1. \A i \in Nat : i + RecordHeaderCells + 1 = i + 3
      BY SMT DEF RecordHeaderCells
    <3> QED
      BY <2>2, <3>1 DEF d
  <2>5. Len(g) > HeaderCells /\ HeaderCells + 1 <= d
    <3>1. \A i, j \in Nat : 1 <= i /\ i + 3 <= j => j > 3 /\ 3 + 1 <= i + 3
      BY SMT
    <3> QED
      BY <1>1, <1>3, <1>4, <2>1, <2>4, <3>1
  <2>6. \A a \in B : ~CarriesSession(a)
    <3>1. x.body = r.body
      OBVIOUS
    <3> QED
      BY <2>1, <2>2, <3>1 DEF B, CarriesSession
  <2>7. SkewAs(g, B, T, q, d)
    BY <1>5, <1>6, <2>1, <2>3, <2>5, <2>6 DEF SkewAs
  <2> QED
    BY <2>7 DEF ShapeAs, d, B
<1>8. CASE SkewAs(f, A, S, p, b)
  <2>1. Skewed(f) /\ "short" \in S /\ HeaderCells + 1 <= b
    BY <1>8 DEF SkewAs
  <2>2. HeaderCells + 1 \in 1..b /\ HeaderCells + 1 <= d /\ Len(g) # HeaderCells + 1
    <3>1. \A i, j, n \in Nat :
            3 + 1 <= i /\ i + 2 <= j /\ j <= n => 3 + 1 \in 1..i /\ 3 + 1 <= j /\ n # 3 + 1
      BY SMT
    <3>2. d <= Len(g) /\ 3 + 1 <= b
      BY <1>1, <1>3, <1>4, <2>1
    <3>3. 3 + 1 \in 1..b /\ 3 + 1 <= d /\ Len(g) # 3 + 1
      BY <1>1, <1>4, <3>1, <3>2
    <3> QED
      BY <1>4, <3>3
  <2>3. Skewed(g)
    BY <1>3, <2>1, <2>2, SkewedElsewhere
  <2>4. SkewAs(g, B, T, q, d)
    BY <1>5, <1>6, <2>1, <2>2, <2>3 DEF SkewAs
  <2> QED
    BY <2>4 DEF ShapeAs, d, B
<1>9. CASE DeadAs(f, S, p)
  BY <1>9 DEF DeadAs
<1>10. CASE TooManyAs(f, A, p, b)
  <2>1. PICK n, R, c, s : DoomedAs(f, A, n, R, c, s) /\ c + RecordHeaderCells + s.size <= b
    BY <1>10 DEF TooManyAs
  <2>2. b <= Len(g) /\ \A i \in HeaderCells + 1..b : i \in 1..b
    BY <1>3, <1>4, SMT
  <2>3. \A i \in HeaderCells + 1..b : g[i] = f[i]
    BY <1>3, <2>2
  <2>4. A \subseteq B
    BY DEF B
  <2>5. DoomedAs(g, B, n, R, c, s)
    BY <1>3, <2>1, <2>2, <2>3, <2>4, DoomedElsewhere
  <2>6. c + RecordHeaderCells + s.size <= d
    <3>1. c \in Nat /\ s.size \in Nat
      <4>1. c \in Nat /\ s \in Written
        BY <2>5 DEF DoomedAs, Read
      <4> QED
        BY <4>1, SMT DEF Written
    <3>2. \A i, j, u, w \in Nat : i + RecordHeaderCells + j <= u /\ u <= w => i + RecordHeaderCells + j <= w
      BY SMT DEF RecordHeaderCells
    <3> QED
      BY <1>1, <2>1, <3>1, <3>2
  <2>7. TooManyAs(g, B, q, d)
    BY <1>6, <2>5, <2>6 DEF TooManyAs
  <2> QED
    BY <2>7 DEF ShapeAs, d, B
<1>11. CASE InPlaceAs(f, A, S, p, b, l)
  <2>1. PICK n, R, c : LaidAs(f, A, S, n, R, c) /\ b = c /\ l = n
    BY <1>11 DEF InPlaceAs
  <2>2. LaidAs(f, A, S, l, R, b)
    BY <2>1
  <2>3. \/ LaidAs(g, B, T, l + 1, Append(R, x), d)
        \/ DoomedAs(g, B, l, R, b, r)
    BY <2>2, AppendLaid DEF B, d
  <2>4. CASE LaidAs(g, B, T, l + 1, Append(R, x), d)
    <3>1. InPlaceAs(g, B, T, q, d, l + 1)
      BY <1>6, <2>4 DEF InPlaceAs
    <3> QED
      BY <3>1 DEF ShapeAs, d, B
  <2>5. CASE DoomedAs(g, B, l, R, b, r)
    <3>1. b + RecordHeaderCells + r.size <= d
      BY <1>1, SMT DEF d
    <3>2. TooManyAs(g, B, q, d)
      BY <1>6, <2>5, <3>1 DEF TooManyAs
    <3> QED
      BY <3>2 DEF ShapeAs, d, B
  <2> QED
    BY <2>3, <2>4, <2>5
<1> QED
  BY <1>7, <1>8, <1>9, <1>10, <1>11 DEF ShapeAs

\* A rewrite of the header keeps the file in its shape.
LEMMA HeaderKeeps ==
  ASSUME NEW f \in Seq(Cells), NEW A, NEW S, NEW p \in Begun, NEW b \in Nat, NEW l, b <= Len(f),
         ShapeAs(f, A, S, p, b, l),
         NEW g \in Seq(Cells), Len(g) = Len(f), \A i \in HeaderCells + 1..Len(f) : g[i] = f[i],
         NEW T, S \subseteq T, "header" \notin T /\ ValidHeader(f) => ValidHeader(g),
         NEW q, NEW d, NEW m, q \notin Up \/ (q \in Begun /\ d = b /\ m = l)
  PROVE  ShapeAs(g, A, T, q, d, m)
<1>1. p \in Up /\ p # "opened" /\ q # "opened"
  BY DEF Up, Begun
<1>2. Len(f) \in Nat /\ HeaderCells = 3
  BY SMT DEF HeaderCells
<1>3. CASE ShortAs(f, A, S, p, b)
  BY <1>1, <1>3 DEF ShortAs
<1>4. CASE SkewAs(f, A, S, p, b)
  <2>1. /\ Skewed(f) /\ "short" \in S
        /\ Len(f) = HeaderCells + 1 => \A a \in A : ~CarriesSession(a)
        /\ HeaderCells + 1 <= b
    BY <1>1, <1>4 DEF SkewAs
  <2>2. HeaderCells + 1 \in HeaderCells + 1..Len(f)
    BY <1>2, <2>1, SMT
  <2>3. g[HeaderCells + 1] = f[HeaderCells + 1]
    BY <2>2
  <2>4. Skewed(g)
    BY <2>1, <2>3 DEF Skewed
  <2> QED
    BY <1>1, <2>1, <2>4 DEF ShapeAs, SkewAs
<1>5. CASE DeadAs(f, S, p)
  BY <1>1, <1>5 DEF DeadAs
<1>6. CASE TooManyAs(f, A, p, b)
  <2>1. PICK n, R, c, s : DoomedAs(f, A, n, R, c, s) /\ c + RecordHeaderCells + s.size <= b
    BY <1>1, <1>6 DEF TooManyAs
  <2>2. b <= Len(g) /\ \A i \in HeaderCells + 1..b : i \in HeaderCells + 1..Len(f)
    BY <1>2, SMT
  <2>3. \A i \in HeaderCells + 1..b : g[i] = f[i]
    BY <2>2
  <2>4. DoomedAs(g, A, n, R, c, s)
    BY <2>1, <2>2, <2>3, DoomedElsewhere
  <2> QED
    BY <1>1, <2>1, <2>4 DEF ShapeAs, TooManyAs
<1>7. CASE InPlaceAs(f, A, S, p, b, l)
  <2>1. PICK n, R, c : LaidAs(f, A, S, n, R, c) /\ b = c /\ l = n
    BY <1>1, <1>7 DEF InPlaceAs
  <2>2. "header" \notin T => ValidHeader(g)
    BY <2>1 DEF LaidAs
  <2>3. "remnant" \in S => "remnant" \in T
    OBVIOUS
  <2>4. LaidAs(g, A, T, n, R, c)
    BY <2>1, <2>2, <2>3, HeaderLaid
  <2> QED
    BY <1>1, <2>1, <2>4 DEF ShapeAs, InPlaceAs
<1> QED
  BY <1>3, <1>4, <1>5, <1>6, <1>7 DEF ShapeAs

\* The scan of a file that ends inside its header.
LEMMA ScanOfShort ==
  /\ Stop(ScanStart, "empty", 0).records = <<>> /\ Stop(ScanStart, "empty", 0).last = 0
  /\ Stop(ScanStart, "empty", 0).repaired = 0
BY SMT DEF Stop, ScanStart

\* A load that is trusted is that of a file inside its header, or ran the loop.
LEMMA LoadCases ==
  ASSUME NEW f \in Seq(Cells), Trustworthy(Load(f))
  PROVE  /\ Len(f) \in Nat /\ Len(f) <= MaxJournal
         /\ \/ Len(f) < HeaderCells /\ Load(f) = Stop(ScanStart, "empty", 0)
            \/ /\ Len(f) >= HeaderCells /\ ValidHeader(f)
               /\ Load(f) = Passes(f)[Len(f)] /\ Trustworthy(Passes(f)[Len(f)])
<1>1. Len(f) \in Nat /\ HeaderCells \in Nat /\ MaxJournal \in Nat /\ 0 \in Nat
  BY LimitsAreNumbers, SMT DEF HeaderCells
<1>2. /\ "bounds" \in Outcomes /\ "corrupt" \in Outcomes
      /\ "bounds" \notin {"ok", "empty", "torn"} /\ "corrupt" \notin {"ok", "empty", "torn"}
  BY SMT DEF Outcomes
<1>3. Stop(ScanStart, "bounds", 0).outcome = "bounds" /\ Stop(ScanStart, "corrupt", 0).outcome = "corrupt"
  BY SMT DEF Stop, ScanStart
<1>4. Load(f) # Stop(ScanStart, "bounds", 0) /\ Load(f) # Stop(ScanStart, "corrupt", 0)
  BY <1>2, <1>3 DEF Trustworthy
<1>5. ~(Len(f) > MaxJournal) /\ Load(f) = ScanJournal(f)
  BY <1>4 DEF Load
<1>6. \A x, y \in Nat : (~(x > y) => x <= y) /\ (~(x < y) => x >= y)
  BY SMT
<1>7. Len(f) <= MaxJournal
  BY <1>1, <1>5, <1>6
<1>8. CASE Len(f) < HeaderCells
  BY <1>1, <1>5, <1>7, <1>8 DEF ScanJournal
<1>9. CASE ~(Len(f) < HeaderCells)
  <2>1. ValidHeader(f) /\ Load(f) = Passes(f)[Len(f)]
    BY <1>4, <1>5, <1>9 DEF ScanJournal
  <2>2. Len(f) >= HeaderCells
    BY <1>1, <1>6, <1>9
  <2> QED
    BY <1>1, <1>7, <2>1, <2>2
<1> QED
  BY <1>8, <1>9

\* A load is the loop where the file has a header and is within its bound.
LEMMA LoadOfValid ==
  ASSUME NEW f \in Seq(Cells), ValidHeader(f), Len(f) <= MaxJournal
  PROVE  Load(f) = Passes(f)[Len(f)]
<1>1. Len(f) \in Nat /\ HeaderCells \in Nat /\ MaxJournal \in Nat
  BY LimitsAreNumbers, SMT DEF HeaderCells
<1>2. Len(f) >= HeaderCells
  BY DEF ValidHeader
<1>3. \A x, y \in Nat : (x <= y => ~(x > y)) /\ (x >= y => ~(x < y))
  BY SMT
<1>4. ~(Len(f) > MaxJournal) /\ ~(Len(f) < HeaderCells)
  BY <1>1, <1>2, <1>3
<1> QED
  BY <1>4 DEF Load, ScanJournal

\* A whole file is its own prefix.
LEMMA AllCells ==
  ASSUME NEW f \in Seq(Cells)
  PROVE  Len(f) - 0 = Len(f) /\ SubSeq(f, 1, Len(f)) = f
<1>1. Len(f) \in Nat /\ Len(f) \in 0..Len(f) /\ Len(f) - 0 = Len(f)
  BY SMT
<1>2. /\ SubSeq(f, 1, Len(f)) \in Seq(Cells) /\ Len(SubSeq(f, 1, Len(f))) = Len(f)
      /\ \A i \in 1..Len(f) : SubSeq(f, 1, Len(f))[i] = f[i]
  BY <1>1, FirstCells
<1>3. SubSeq(f, 1, Len(f)) = f
  BY <1>2, SMT
<1> QED
  BY <1>1, <1>3

\* Nothing was read, and no bundle was acknowledged.
LEMMA PromisedNothing ==
  ASSUME NEW A, \A r \in A : ~CarriesSession(r)
  PROVE  Promised(A, 0, <<>>)
<1>1. \A i \in 1..0 : FALSE
  BY SMT
<1> QED
  BY <1>1 DEF Promised

\* The scan of no record.
LEMMA RangeOfNothing == Range(<<>>) = {}
<1>1. DOMAIN <<>> = {}
  BY SMT
<1> QED
  BY <1>1 DEF Range

\* A file that ends inside its header has the first shape.
LEMMA ShortShape ==
  ASSUME NEW f \in Seq(Cells), Len(f) < HeaderCells,
         NEW A, NEW S, NEW p, NEW b, NEW l, ShapeAs(f, A, S, p, b, l)
  PROVE  ShortAs(f, A, S, p, b)
<1>1. Len(f) \in Nat /\ HeaderCells = 3
  BY SMT DEF HeaderCells
<1>2. \A x \in Nat : x < 3 => ~(x > 3) /\ x # 3 /\ ~(x >= 3)
  BY SMT
<1>3. ~SkewAs(f, A, S, p, b) /\ ~DeadAs(f, S, p)
  BY <1>1, <1>2 DEF SkewAs, Skewed, DeadAs
<1>4. \A n, R, c : ~Read(f, n, R, c)
  <2>1. SUFFICES ASSUME NEW n, NEW R, NEW c, Read(f, n, R, c) PROVE FALSE
    OBVIOUS
  <2>2. c \in Nat /\ HeaderCells <= c /\ c <= Len(f)
    BY <2>1, ReadNumbers
  <2>3. \A x, y \in Nat : 3 <= x /\ x <= y => y >= 3
    BY SMT
  <2> QED
    BY <1>1, <1>2, <2>2, <2>3
<1>5. ~TooManyAs(f, A, p, b) /\ ~InPlaceAs(f, A, S, p, b, l)
  BY <1>4 DEF TooManyAs, InPlaceAs, DoomedAs, LaidAs
<1> QED
  BY <1>3, <1>5 DEF ShapeAs

\* open leaves the file in its shape, whether it cuts the tail and goes on or the
\* cut is the last thing it does.
LEMMA OpenKeeps ==
  ASSUME NEW f \in Seq(Cells), f # <<>>, NEW A, NEW S, NEW b, NEW l,
         ShapeAs(f, A, S, "down", b, l), Trustworthy(Load(f)),
         NEW v, v = ValidBytes(f, Load(f)), NEW T,
         T = S \cup (IF Len(f) < HeaderCells THEN {"short"} ELSE {})
  PROVE  /\ v \in Nat /\ v <= Len(f)
         /\ ShapeAs(SubSeq(f, 1, v), A \cup Range(Load(f).records), T, "opened", v, Load(f).last)
         /\ ShapeAs(SubSeq(f, 1, v), A, S, "down", 0, 0)
         /\ Load(f).last \in Nat
         /\ \/ Len(f) < HeaderCells /\ SubSeq(f, 1, v) = f
            \/ HeaderCells <= Len(f) /\ HeaderCells <= v /\ ValidHeader(f)
<1>1. "down" \notin Up /\ "opened" \in Up /\ "down" # "opened"
  BY DEF Up
<1>2. v = Len(f) - Load(f).repaired
  BY DEF ValidBytes
<1>3. /\ Len(f) \in Nat /\ Len(f) <= MaxJournal
      /\ \/ Len(f) < HeaderCells /\ Load(f) = Stop(ScanStart, "empty", 0)
         \/ /\ Len(f) >= HeaderCells /\ ValidHeader(f)
            /\ Load(f) = Passes(f)[Len(f)] /\ Trustworthy(Passes(f)[Len(f)])
  BY LoadCases
<1>4. Within(f)
  BY <1>3 DEF Within
<1>5. \A x \in Nat : x >= 3 => ~(x < 3)
  BY SMT
<1>6. HeaderCells = 3
  BY DEF HeaderCells
<1>7. CASE Len(f) < HeaderCells /\ Load(f) = Stop(ScanStart, "empty", 0)
  <2>1. Load(f).records = <<>> /\ Load(f).last = 0 /\ Load(f).repaired = 0
    BY <1>7, ScanOfShort
  <2>2. v = Len(f) /\ SubSeq(f, 1, v) = f
    BY <1>2, <2>1, AllCells
  <2>3. A = {}
    BY <1>7, ShortShape DEF ShortAs
  <2>4. 1 <= Len(f)
    BY <1>3, SMT
  <2>5. A \cup Range(Load(f).records) = {} /\ "short" \in T
    BY <1>7, <2>1, <2>3, RangeOfNothing
  <2>6. ShortAs(f, A \cup Range(Load(f).records), T, "opened", v)
    BY <1>7, <2>2, <2>4, <2>5 DEF ShortAs
  <2>7. ShortAs(f, A, S, "down", 0)
    BY <1>1, <1>7, <2>3 DEF ShortAs
  <2>8. v \in Nat /\ v <= Len(f)
    BY <1>3, <2>2, SMT
  <2>9. Load(f).last \in Nat
    BY <2>1, SMT
  <2> QED
    BY <1>7, <2>2, <2>6, <2>7, <2>8, <2>9 DEF ShapeAs
<1>8. CASE /\ Len(f) >= HeaderCells /\ ValidHeader(f)
           /\ Load(f) = Passes(f)[Len(f)] /\ Trustworthy(Passes(f)[Len(f)])
  <2> DEFINE end == Passes(f)[Len(f)]
  <2>1. T = S
    BY <1>3, <1>5, <1>6, <1>8
  <2>2. ~ShortAs(f, A, S, "down", b) /\ ~DeadAs(f, S, "down")
    BY <1>3, <1>5, <1>6, <1>8 DEF ShortAs, DeadAs
  <2>3. ~TooManyAs(f, A, "down", b)
    BY <1>8, TooManyRefused DEF TooManyAs, DoomedAs
  <2>4. end.last \in Nat
    <3>1. Len(f) \in 0..Len(f)
      BY <1>3, SMT
    <3>2. end \in Scans
      BY <1>8, <3>1, PassesStep DEF ScansOf
    <3> QED
      BY <3>2, SMT DEF Scans
  <2>5. CASE SkewAs(f, A, S, "down", b)
    <3>1. Skewed(f) /\ (Len(f) = HeaderCells + 1 => \A r \in A : ~CarriesSession(r))
      BY <2>5 DEF SkewAs
    <3>2. Len(f) = HeaderCells + 1 /\ EndsAt(f, 0, <<>>, HeaderCells)
      BY <1>8, <3>1, SkewedScan
    <3>3. end.records = <<>> /\ end.last = 0 /\ v = HeaderCells
      BY <1>2, <1>8, <3>2 DEF EndsAt
    <3>4. A \cup Range(end.records) = A
      BY <3>3, RangeOfNothing
    <3>5. Promised(A, 0, <<>>)
      BY <3>1, <3>2, PromisedNothing
    <3>6. Read(f, 0, <<>>, HeaderCells)
      BY <1>8, ReadNothing
    <3>7. OpenedAs(SubSeq(f, 1, HeaderCells), A, S, 0, <<>>, HeaderCells)
      BY <1>4, <1>8, <3>5, <3>6, CutOpened
    <3> HIDE DEF end
    <3>8. InPlaceAs(SubSeq(f, 1, v), A \cup Range(end.records), T, "opened", v, end.last)
      BY <2>1, <3>3, <3>4, <3>7 DEF InPlaceAs, OpenedAs
    <3>9. InPlaceAs(SubSeq(f, 1, v), A, S, "down", 0, 0)
      BY <1>1, <3>3, <3>7 DEF InPlaceAs, OpenedAs
    <3>10. v \in Nat /\ v <= Len(f) /\ HeaderCells <= v /\ HeaderCells <= Len(f)
      <4>1. 3 \in Nat /\ 3 <= 3 + 1 /\ 3 <= 3
        BY SMT
      <4> QED
        BY <1>6, <3>2, <3>3, <4>1
    <3> QED
      BY <1>8, <2>4, <3>8, <3>9, <3>10 DEF ShapeAs, end
  <2>6. CASE InPlaceAs(f, A, S, "down", b, l)
    <3>1. PICK n, R, c : LaidAs(f, A, S, n, R, c)
      BY <2>6 DEF InPlaceAs
    <3>2. v = Len(f) - end.repaired
      BY <1>2, <1>8
    <3>3. v \in Nat /\ c <= v /\ v <= Len(f) /\ Opens(f, A, S, v, end)
      BY <1>8, <3>1, <3>2, OpenLaid
    <3>4. LaidAs(SubSeq(f, 1, v), A, S, n, R, c)
      BY <3>1, <3>3, CutLaid
    <3> HIDE DEF end
    <3>5. InPlaceAs(SubSeq(f, 1, v), A \cup Range(end.records), T, "opened", v, end.last)
      BY <2>1, <3>3 DEF InPlaceAs, OpenedAs, Opens
    <3>6. InPlaceAs(SubSeq(f, 1, v), A, S, "down", 0, 0)
      BY <1>1, <3>4 DEF InPlaceAs
    <3>7. HeaderCells <= v /\ HeaderCells <= Len(f)
      <4>1. c \in Nat /\ HeaderCells <= c
        BY <3>1, ReadNumbers DEF LaidAs
      <4>2. \A x, y, z \in Nat : 3 <= x /\ x <= y /\ y <= z => 3 <= y /\ 3 <= z
        BY SMT
      <4> QED
        BY <1>3, <1>6, <3>3, <4>1, <4>2
    <3> QED
      BY <1>8, <2>4, <3>3, <3>5, <3>6, <3>7 DEF ShapeAs, end
  <2> QED
    BY <2>2, <2>3, <2>5, <2>6 DEF ShapeAs
<1> QED
  BY <1>3, <1>7, <1>8

----------------------------------------------------------------------------
(* The header of the file and the epochs served. *)

\* A file that has a header has one in its first cell, and the epoch in a header
\* that is valid is not behind the epochs served.
HeadAs(f, sv) ==
  /\ 1 <= Len(f) => f[1].is = "header" /\ f[1].at = 1
  /\ Len(f) < HeaderCells => sv = 0
  /\ ValidHeader(f) => f[2].of.epoch >= sv

\* The header of f is that of g.
SameHead(g, f) == ValidHeader(f) => ValidHeader(g) /\ g[2].of.epoch = f[2].of.epoch

\* The epoch in a header is one of those modelled.
LEMMA HeaderEpoch ==
  ASSUME NEW f \in Seq(Cells), ValidHeader(f)
  PROVE  f[2].of.epoch \in 0..MaxEpoch
<1>1. Len(f) \in Nat /\ Len(f) >= 3 /\ 2 \in 1..HeaderCells
  BY SMT DEF ValidHeader, HeaderCells
<1>2. 2 \in 1..Len(f)
  BY <1>1, SMT
<1>3. f[2] \in Cells
  BY <1>2, MemberOfSeq
<1>4. f[2].is = "header"
  BY <1>1 DEF ValidHeader
<1>5. f[2] \in HeaderCell
  <2>1. \A x \in RecordCell : x.is = "record"
    BY SMT DEF RecordCell
  <2>2. \A x \in PayloadCell : x.is = "payload"
    BY SMT DEF PayloadCell
  <2>3. "header" # "record" /\ "header" # "payload"
    BY SMT
  <2> QED
    BY <1>3, <1>4, <2>1, <2>2, <2>3 DEF Cells
<1>6. f[2].of \in {EpochBody(e) : e \in 0..MaxEpoch}
  BY <1>5, SMT DEF HeaderCell
<1>7. PICK e \in 0..MaxEpoch : f[2].of = EpochBody(e)
  BY <1>6
<1>8. EpochBody(e).epoch = e
  BY DEF EpochBody
<1> QED
  BY <1>7, <1>8

\* A file with the header of another has its epoch.
LEMMA HeadKept ==
  ASSUME NEW f \in Seq(Cells), NEW sv, HeadAs(f, sv), HeaderCells <= Len(f),
         NEW g \in Seq(Cells), HeaderCells <= Len(g), \A i \in 1..HeaderCells : g[i] = f[i]
  PROVE  HeadAs(g, sv) /\ SameHead(g, f)
<1>1. /\ 1 \in 1..HeaderCells /\ 2 \in 1..HeaderCells /\ Len(f) \in Nat /\ Len(g) \in Nat
      /\ HeaderCells = 3
  BY SMT DEF HeaderCells
<1>2. \A x \in Nat : 3 <= x => x >= 3 /\ 1 <= x /\ ~(x < 3)
  BY SMT
<1>3. g[1] = f[1] /\ g[2] = f[2]
  BY <1>1
<1>4. ValidHeader(g) => ValidHeader(f)
  BY <1>1, <1>2, HeaderElsewhere
<1>5. ValidHeader(f) => ValidHeader(g)
  BY <1>1, <1>2, HeaderElsewhere
<1>6. HeadAs(g, sv)
  BY <1>1, <1>2, <1>3, <1>4 DEF HeadAs
<1> QED
  BY <1>3, <1>5, <1>6 DEF SameHead

\* Before there was a whole header nothing was served.
LEMMA HeadSpoilt ==
  ASSUME NEW f \in Seq(Cells), NEW sv, HeadAs(f, sv), Len(f) < HeaderCells,
         NEW g \in Seq(Cells), 1 <= Len(g) => g[1].is = "header" /\ g[1].at = 1
  PROVE  HeadAs(g, sv)
<1>1. sv = 0
  BY DEF HeadAs
<1>2. ValidHeader(g) => g[2].of.epoch >= 0
  <2> HAVE ValidHeader(g)
  <2>1. g[2].of.epoch \in 0..MaxEpoch
    BY HeaderEpoch
  <2>2. \A x \in 0..MaxEpoch : x >= 0
    BY LimitsAreNumbers, SMT
  <2> QED
    BY <2>1, <2>2
<1> QED
  BY <1>1, <1>2 DEF HeadAs

\* A write at the offset of an open journal leaves the header as it is, or there
\* was none.
LEMMA HeadBehind ==
  ASSUME NEW f \in Seq(Cells), NEW A, NEW S, NEW p \in Up, NEW b \in Nat, NEW l, b <= Len(f),
         ShapeAs(f, A, S, p, b, l), NEW sv, HeadAs(f, sv), p \in Begun => HeaderCells <= b,
         NEW g \in Seq(Cells), Len(f) <= Len(g), \A i \in 1..b : g[i] = f[i]
  PROVE  HeadAs(g, sv) /\ (p \in Begun => SameHead(g, f))
<1>1. Len(f) \in Nat /\ Len(g) \in Nat /\ HeaderCells = 3
  BY SMT DEF HeaderCells
<1>2. CASE HeaderCells <= b
  <2>1. HeaderCells <= Len(f) /\ HeaderCells <= Len(g)
    <3>1. \A x, y, z \in Nat : 3 <= x /\ x <= y /\ y <= z => 3 <= y /\ 3 <= z
      BY SMT
    <3> QED
      BY <1>1, <1>2, <3>1
  <2>2. \A i \in 1..HeaderCells : i \in 1..b
    <3>1. \A x \in Nat : 3 <= x => \A i \in 1..3 : i \in 1..x
      BY SMT
    <3> QED
      BY <1>1, <1>2, <3>1
  <2>3. \A i \in 1..HeaderCells : g[i] = f[i]
    BY <2>2
  <2> QED
    BY <2>1, <2>3, HeadKept
<1>3. CASE ~(HeaderCells <= b)
  <2>1. p = "opened"
    BY <1>3 DEF Begun
  <2>2. ~SkewAs(f, A, S, p, b) /\ ~DeadAs(f, S, p) /\ ~TooManyAs(f, A, p, b)
    BY <2>1 DEF SkewAs, DeadAs, TooManyAs
  <2>3. ~InPlaceAs(f, A, S, p, b, l)
    <3>1. \A n, R, c : LaidAs(f, A, S, n, R, c) => HeaderCells <= c
      BY ReadNumbers DEF LaidAs
    <3> QED
      BY <1>3, <3>1 DEF InPlaceAs
  <2>4. ShortAs(f, A, S, p, b)
    BY <2>2, <2>3 DEF ShapeAs
  <2>5. Len(f) < HeaderCells /\ b = Len(f) /\ 1 <= Len(f)
    BY <2>4 DEF ShortAs
  <2>6. 1 \in 1..b
    BY <1>1, <2>5, SMT
  <2>7. g[1].is = "header" /\ g[1].at = 1
    BY <2>5, <2>6 DEF HeadAs
  <2>8. HeadAs(g, sv)
    BY <2>5, <2>7, HeadSpoilt
  <2> QED
    BY <2>1, <2>8 DEF Begun
<1> QED
  BY <1>2, <1>3

\* A rewrite of the header that stops after n cells.
Rewritten(f, e, n) == WriteAt(f, 0, SubSeq(JournalHeader(e), 1, n))

\* The file g is f but for the first n cells of a header of the epoch e.
Reheaded(g, f, sv, e, n) ==
  /\ g \in Seq(Cells) /\ Len(g) = Len(f) /\ \A i \in HeaderCells + 1..Len(f) : g[i] = f[i]
  /\ HeadAs(g, sv)
  /\ n # 2 /\ ValidHeader(f) => ValidHeader(g)
  /\ n = HeaderCells => ValidHeader(g) /\ g[2].of.epoch = e

\* What update_header_epoch leaves: the records as they were, and a header that is
\* valid if it was, unless the write stopped between the epoch and its checksum.
LEMMA HeadRewritten ==
  ASSUME NEW f \in Seq(Cells), NEW sv \in Nat, HeadAs(f, sv), HeaderCells <= Len(f),
         NEW e \in 0..MaxEpoch, e > sv, NEW n \in 0..HeaderCells, NEW g, g = Rewritten(f, e, n)
  PROVE  Reheaded(g, f, sv, e, n)
<1> DEFINE h == JournalHeader(e)
           s == SubSeq(h, 1, n)
<1>1. /\ h \in Seq(Cells) /\ Len(h) = HeaderCells
      /\ \A i \in 1..HeaderCells : h[i].is = "header" /\ h[i].at = i
      /\ h[2].of = EpochBody(e) /\ h[3].of = EpochBody(e)
  BY HeaderIs
<1> HIDE DEF h
<1>2. s \in Seq(Cells) /\ Len(s) = n /\ \A i \in 1..n : s[i] = h[i]
  BY <1>1, FirstCells
<1> HIDE DEF s
<1>3. g = WriteAt(f, 0, s)
  BY DEF Rewritten, h, s
<1>4. 0 \in Nat /\ 0 <= Len(f) /\ Len(f) \in Nat /\ n \in Nat /\ HeaderCells = 3 /\ n <= 3
  BY SMT DEF HeaderCells
<1>5. /\ WriteAt(f, 0, s) \in Seq(Cells)
      /\ Len(f) <= Len(WriteAt(f, 0, s)) /\ 0 + Len(s) <= Len(WriteAt(f, 0, s))
      /\ Len(WriteAt(f, 0, s)) \in {Len(f), 0 + Len(s)}
      /\ \A i \in 1..0 : WriteAt(f, 0, s)[i] = f[i]
      /\ \A i \in 1..Len(s) : WriteAt(f, 0, s)[0 + i] = s[i]
      /\ \A i \in 0 + Len(s) + 1..Len(f) : WriteAt(f, 0, s)[i] = f[i]
  BY <1>2, <1>4, WriteAtIs
<1>6. /\ g \in Seq(Cells) /\ Len(f) <= Len(g) /\ Len(g) \in {Len(f), 0 + n}
      /\ \A i \in 1..n : g[0 + i] = s[i]
      /\ \A i \in 0 + n + 1..Len(f) : g[i] = f[i]
  BY <1>2, <1>3, <1>5
<1>7. Len(g) = Len(f) /\ Len(g) \in Nat
  <2>1. Len(g) \in Nat
    BY <1>6, SMT
  <2>2. \A x, y, z \in Nat : 3 <= x /\ x <= y /\ z <= 3 /\ y \in {x, 0 + z} => y = x
    BY SMT
  <2> QED
    BY <1>4, <1>6, <2>1, <2>2
<1>8. \A i \in 1..HeaderCells : IF i <= n THEN g[i] = h[i] ELSE g[i] = f[i]
  <2> TAKE i \in 1..HeaderCells
  <2>1. CASE i <= n
    <3>1. i \in 1..n /\ 0 + i = i
      BY <1>4, <2>1, SMT
    <3> QED
      BY <1>2, <1>6, <2>1, <3>1
  <2>2. CASE ~(i <= n)
    <3>1. i \in 0 + n + 1..Len(f)
      BY <1>4, <2>2, SMT
    <3> QED
      BY <1>6, <2>2, <3>1
  <2> QED
    BY <2>1, <2>2
<1>9. \A i \in HeaderCells + 1..Len(f) : g[i] = f[i]
  <2>1. \A i \in HeaderCells + 1..Len(f) : i \in 0 + n + 1..Len(f)
    BY <1>4, SMT
  <2> QED
    BY <1>6, <2>1
<1>10. 1 \in 1..HeaderCells /\ 2 \in 1..HeaderCells /\ 3 \in 1..HeaderCells
  BY <1>4, SMT
<1>11. f[1].is = "header" /\ f[1].at = 1
  <2>1. 1 <= Len(f)
    BY <1>4, SMT
  <2> QED
    BY <2>1 DEF HeadAs
<1>12. g[1].is = "header" /\ g[1].at = 1
  BY <1>1, <1>8, <1>10, <1>11
<1>13. Len(f) >= HeaderCells /\ Len(g) >= HeaderCells /\ ~(Len(g) < HeaderCells)
  BY <1>4, <1>7, SMT
<1>14. \A i \in 1..HeaderCells : i = 1 \/ i = 2 \/ i = 3
  BY <1>4, SMT
<1>15. CASE n = HeaderCells
  <2>1. 2 <= n /\ 3 <= n
    BY <1>4, <1>15, SMT
  <2>2. g[2] = h[2] /\ g[3] = h[3]
    BY <1>8, <1>10, <2>1
  <2>3. ValidHeader(g)
    <3>1. \A i \in 1..HeaderCells : i <= n
      BY <1>4, <1>15, SMT
    <3>2. \A i \in 1..HeaderCells : g[i].is = "header" /\ g[i].at = i
      BY <1>1, <1>8, <3>1
    <3>3. g[3].of = g[2].of
      BY <1>1, <2>2
    <3> QED
      BY <1>13, <3>2, <3>3 DEF ValidHeader
  <2>4. g[2].of.epoch = e
    <3>1. EpochBody(e).epoch = e
      BY DEF EpochBody
    <3> QED
      BY <1>1, <2>2, <3>1
  <2>5. e >= sv
    BY LimitsAreNumbers, SMT
  <2>6. HeadAs(g, sv)
    BY <1>12, <1>13, <2>4, <2>5 DEF HeadAs
  <2> QED
    BY <1>6, <1>7, <1>9, <2>3, <2>4, <2>6 DEF Reheaded
<1>16. CASE n = 2
  <2>1. 2 <= n /\ n # HeaderCells
    BY <1>4, <1>16, SMT
  <2>2. g[2] = h[2]
    BY <1>8, <1>10, <2>1
  <2>3. g[2].of.epoch = e
    <3>1. EpochBody(e).epoch = e
      BY DEF EpochBody
    <3> QED
      BY <1>1, <2>2, <3>1
  <2>4. e >= sv
    BY LimitsAreNumbers, SMT
  <2>5. HeadAs(g, sv)
    BY <1>12, <1>13, <2>3, <2>4 DEF HeadAs
  <2> QED
    BY <1>6, <1>7, <1>9, <1>16, <2>1, <2>5 DEF Reheaded
<1>17. CASE n # 2 /\ n # HeaderCells
  <2>1. ~(2 <= n) /\ ~(3 <= n)
    BY <1>4, <1>17, SMT
  <2>2. g[2] = f[2] /\ g[3] = f[3]
    BY <1>8, <1>10, <2>1
  <2>3. ValidHeader(g) => ValidHeader(f)
    <3> HAVE ValidHeader(g)
    <3>1. /\ f[2].is = "header" /\ f[2].at = 2 /\ f[3].is = "header" /\ f[3].at = 3
          /\ f[3].of = f[2].of
      BY <1>10, <2>2 DEF ValidHeader
    <3>2. \A i \in 1..HeaderCells : f[i].is = "header" /\ f[i].at = i
      BY <1>11, <1>14, <3>1
    <3> QED
      BY <1>13, <3>1, <3>2 DEF ValidHeader
  <2>4. ValidHeader(f) => ValidHeader(g)
    BY <1>10, <1>12, <1>13, <1>14, <2>2 DEF ValidHeader
  <2>5. HeadAs(g, sv)
    BY <1>12, <1>13, <2>2, <2>3 DEF HeadAs
  <2> QED
    BY <1>6, <1>7, <1>9, <1>17, <2>4, <2>5 DEF Reheaded
<1> QED
  BY <1>15, <1>16, <1>17

\* A first header, cut after n cells, is short or holds no record.
LEMMA FreshKeeps ==
  ASSUME NEW n \in 0..HeaderCells, NEW g, g = SubSeq(JournalHeader(0), 1, n), NEW S,
         NEW p, NEW b, NEW l, p \notin Up \/ (p = "opened" /\ n = HeaderCells /\ b = n /\ l = 0)
  PROVE  g \in Seq(Cells) /\ Len(g) = n /\ ShapeAs(g, {}, S, p, b, l) /\ HeadAs(g, 0)
<1> DEFINE h == JournalHeader(0)
<1>1. 0 \in 0..MaxEpoch
  BY LimitsAreNumbers, SMT
<1>2. /\ h \in Seq(Cells) /\ Len(h) = HeaderCells
      /\ \A i \in 1..HeaderCells : h[i].is = "header" /\ h[i].at = i
      /\ h[2].of = EpochBody(0) /\ h[3].of = EpochBody(0)
  BY <1>1, HeaderIs
<1> HIDE DEF h
<1>3. SubSeq(h, 1, n) \in Seq(Cells) /\ Len(SubSeq(h, 1, n)) = n /\ \A i \in 1..n : SubSeq(h, 1, n)[i] = h[i]
  BY <1>2, FirstCells
<1>4. g \in Seq(Cells) /\ Len(g) = n /\ \A i \in 1..n : g[i] = h[i]
  BY <1>3 DEF h
<1>5. n \in Nat /\ HeaderCells = 3 /\ n <= HeaderCells
  BY SMT DEF HeaderCells
<1>6. HeadAs(g, 0)
  <2>1. 1 <= Len(g) => g[1].is = "header" /\ g[1].at = 1
    <3> HAVE 1 <= Len(g)
    <3>1. 1 \in 1..n /\ 1 \in 1..HeaderCells
      BY <1>4, <1>5, SMT
    <3> QED
      BY <1>2, <1>4, <3>1
  <2>2. ValidHeader(g) => g[2].of.epoch >= 0
    <3> HAVE ValidHeader(g)
    <3>1. g[2].of.epoch \in 0..MaxEpoch
      BY <1>4, HeaderEpoch
    <3>2. \A x \in 0..MaxEpoch : x >= 0
      BY LimitsAreNumbers, SMT
    <3> QED
      BY <3>1, <3>2
  <2> QED
    BY <2>1, <2>2 DEF HeadAs
<1>7. CASE n = HeaderCells
  <2>1. \A i \in 1..HeaderCells : g[i] = h[i]
    BY <1>4, <1>7
  <2>2. 2 \in 1..HeaderCells /\ 3 \in 1..HeaderCells /\ Len(g) >= HeaderCells /\ Len(g) <= HeaderCells
    BY <1>4, <1>5, <1>7, SMT
  <2>3. g[2] = h[2] /\ g[3] = h[3]
    BY <2>1, <2>2
  <2>4. ValidHeader(g)
    BY <1>2, <2>1, <2>2, <2>3 DEF ValidHeader
  <2>5. Read(g, 0, <<>>, HeaderCells)
    BY <1>4, <2>2, ReadNothing
  <2>6. Promised({}, 0, <<>>)
    BY PromisedNothing
  <2>7. Leftover(g, HeaderCells, 0) /\ Exact(g, HeaderCells, 0)
    BY <1>4, <1>7, <2>5, WholeLaid
  <2>8. LaidAs(g, {}, S, 0, <<>>, HeaderCells)
    BY <2>2, <2>4, <2>5, <2>6, <2>7 DEF LaidAs, Within
  <2>9. InPlaceAs(g, {}, S, p, b, l)
    <3>1. p = "opened" => p \in Up
      BY DEF Up
    <3>2. p \in Up => b = HeaderCells /\ l = 0
      BY <1>7
    <3>3. p = "opened" => Len(g) = HeaderCells /\ ValidHeader(g)
      BY <1>4, <1>7, <2>4
    <3> QED
      BY <2>8, <3>2, <3>3 DEF InPlaceAs
  <2> QED
    BY <1>4, <1>6, <2>9 DEF ShapeAs
<1>8. CASE n # HeaderCells
  <2>1. Len(g) < HeaderCells
    BY <1>4, <1>5, <1>8, SMT
  <2>2. ShortAs(g, {}, S, p, b)
    BY <1>8, <2>1 DEF ShortAs
  <2> QED
    BY <1>4, <1>6, <2>2 DEF ShapeAs
<1> QED
  BY <1>7, <1>8

----------------------------------------------------------------------------
(* What create makes of the records. *)

\* What is restored of a session: nothing, or a record with a bundle.
Restorable == {NoBundle} \cup [seq : Nat, body : Bundles]

\* The records with a bundle of the session s that decodes.
Mine(records, s) ==
  {i \in DOMAIN records :
     /\ CarriesSession(records[i]) /\ records[i].body.decodes
     /\ records[i].body.session = s}

\* The epoch of a start is no bundle.
LEMMA EpochIsNoBundle ==
  ASSUME NEW e
  PROVE  EpochBody(e) \notin Bundles
<1>1. SUFFICES ASSUME EpochBody(e) \in Bundles PROVE FALSE
  OBVIOUS
<1>2. EpochBody(e) \in [session : Sessions, size : Nat \ {0}, decodes : BOOLEAN]
  BY <1>1, BundlesAreSized
<1> QED
  BY <1>2, SMT DEF EpochBody

\* A record with a bundle is something to restore.
LEMMA BundleRestores ==
  ASSUME NEW r \in Found, CarriesSession(r)
  PROVE  r \in Restorable /\ r # NoBundle
<1>1. r = [seq |-> r.seq, body |-> r.body] /\ r.seq \in Nat
  BY SMT DEF Found
<1>2. r.body \in Bundles
  BY DEF CarriesSession
<1>3. [seq |-> r.seq, body |-> r.body] \in [seq : Nat, body : Bundles]
  BY <1>1, <1>2
<1>4. r \in [seq : Nat, body : Bundles]
  BY <1>1, <1>3
<1> QED
  BY <1>4, NoBundleIsNone DEF Restorable

\* The last record with a bundle of the session that decodes.
LEMMA ReplayIs ==
  ASSUME NEW records \in Founds, NEW s \in Sessions
  PROVE  /\ Replay(records)[s] \in Restorable
         /\ \A i \in Mine(records, s) :
              /\ Replay(records)[s] # NoBundle
              /\ \E j \in DOMAIN records : i <= j /\ Replay(records)[s] = records[j]
<1> DEFINE mine == Mine(records, s)
<1>1. Len(records) \in Nat /\ DOMAIN records = 1..Len(records)
  BY SMT DEF Founds
<1>2. Replay(records)[s] = IF mine = {} THEN NoBundle ELSE records[Max(mine)]
  BY DEF Replay, Mine
<1>3. CASE mine = {}
  BY <1>2, <1>3 DEF Restorable
<1>4. CASE mine # {}
  <2>1. mine \subseteq DOMAIN records
    BY DEF Mine
  <2> HIDE DEF mine
  <2>2. \A i \in 1..Len(records) : i \in 0..Len(records)
    BY <1>1, SMT
  <2>3. mine \in SUBSET (0..Len(records))
    BY <1>1, <2>1, <2>2
  <2>4. Max(mine) \in mine /\ \A y \in mine : y <= Max(mine)
    BY <1>1, <1>4, <2>3, GreatestNumber
  <2>5. Max(mine) \in DOMAIN records /\ CarriesSession(records[Max(mine)])
    BY <2>1, <2>4 DEF mine, Mine
  <2>6. records[Max(mine)] \in Found
    BY <1>1, <2>5, MemberOfSeq DEF Founds
  <2>7. records[Max(mine)] \in Restorable /\ records[Max(mine)] # NoBundle
    BY <2>5, <2>6, BundleRestores
  <2> QED
    BY <1>2, <1>4, <2>4, <2>5, <2>7 DEF mine
<1> QED
  BY <1>3, <1>4

\* Whatever the file, a load reports records.
LEMMA LoadRecords ==
  ASSUME NEW f \in Seq(Cells)
  PROVE  Load(f).records \in Founds
<1>1. <<>> \in Founds
  BY SMT DEF Founds
<1>2. /\ Stop(ScanStart, "bounds", 0).records = <<>> /\ Stop(ScanStart, "empty", 0).records = <<>>
      /\ Stop(ScanStart, "corrupt", 0).records = <<>>
  BY SMT DEF Stop, ScanStart
<1>3. ASSUME ValidHeader(f)
      PROVE  Passes(f)[Len(f)].records \in Founds
  <2>1. Len(f) >= HeaderCells
    BY <1>3 DEF ValidHeader
  <2>2. Len(f) \in 0..Len(f)
    BY SMT
  <2>3. Passes(f)[Len(f)] \in Scans
    BY <2>1, <2>2, PassesStep DEF ScansOf
  <2> QED
    BY <2>3, SMT DEF Scans
<1>4. ScanJournal(f).records \in Founds
  BY <1>1, <1>2, <1>3 DEF ScanJournal
<1> QED
  BY <1>1, <1>2, <1>4 DEF Load
=============================================================================
