---------------------------- MODULE SddFileProofs ----------------------------
(***************************************************************************)
(* The safety of SddFile for any directory, header and scans, and any      *)
(* number of calls and failures.                                           *)
(***************************************************************************)
EXTENDS SddFile, TLAPS

USE SddAssumption DEF SddAssumption

\* The boot record counts at least a record of data for each entry, and no more
\* than the file has room for.
Sizes ==
    /\ boot.entries <= boot.data /\ boot.entries <= IndexRec * PerRec
    /\ boot.data # 0 => IndexRec + boot.data <= MaxRecords

\* A scan has records of its own behind the index that hold it, and an entry that
\* is counted.  All scans but the first are behind the first record of data, into
\* which a directory that is too full reaches.
Placed(s) ==
    /\ IndexRec < s.start /\ s.start <= s.last /\ s.last <= IndexRec + boot.data
    /\ Header <= s.size /\ s.size <= (s.last - s.start + 1) * PerRec
    /\ s.k < boot.entries
    /\ s.k # 0 => IndexRec + 1 < s.start

EntryKept(s) == disk[EntryUnit(s.k)] = Entry(s)
HeaderKept(s) ==
    \A u \in First(s) .. First(s) + Header - 1 :
        disk[u] = [by |-> s.no, part |-> "header"]
DataKept(s) ==
    \A u \in First(s) + Header .. First(s) + s.size - 1 :
        disk[u] = [by |-> s.no, part |-> "data"]

\* Written scans have their entries, and header and data as long as the
\* directory is not too full.
WrittenFine == \A s \in written : Placed(s) /\ EntryKept(s)
WrittenKept ==
    boot.entries <= MaxScans =>
        \A s \in written : s.short \/ (HeaderKept(s) /\ DataKept(s))

\* The scan under way is behind all that are written, and has what was written.
Behind ==
    at # "idle" =>
        /\ Placed(scan)
        /\ \A s \in written : s.k < scan.k /\ s.last < scan.start
Progress ==
    /\ at \in {"header", "data", "fill"} => EntryKept(scan)
    /\ at \in {"data", "fill"} => HeaderKept(scan)
    /\ at = "fill" => scan.short \/ DataKept(scan)

\* What the reader is to find is the entry it is about to read, or has read, and
\* that is in the file.
ReaderKnows ==
    seen.at # "no" =>
        /\ LastEntry(seen.n) \in Units
        /\ \A s \in seen.known :
               /\ s \in written /\ s.k = seen.n - 1
               /\ seen.at = "entry" => seen.entry = Entry(s)

Safe == /\ TypeOK /\ Sizes /\ WrittenFine /\ WrittenKept
        /\ Behind /\ Progress /\ ReaderKnows

-------------------------------------------------------------------------------
(* Arithmetic *)

\* Records take space in proportion.
LEMMA Monotone ==
    ASSUME NEW a \in Int, NEW b \in Int, a <= b, NEW c \in Nat
    PROVE  a * c <= b * c
  OBVIOUS

LEMMA Distributes ==
    ASSUME NEW a \in Int, NEW b \in Int, NEW c \in Int
    PROVE  (a + b) * c = a * c + b * c /\ a * c \in Int
  OBVIOUS

\* The records that blocks() counts hold what it was asked for.
LEMMA BlocksHold ==
    ASSUME NEW n \in Nat
    PROVE  /\ Blocks(n) \in Nat /\ n <= Blocks(n) * PerRec
           /\ n # 0 => Blocks(n) # 0
  <1>1. Blocks(n) \in Nat /\ n <= Blocks(n) * PerRec
    BY DEF Blocks
  <1>2. Blocks(n) = 0 => Blocks(n) * PerRec = 0
    BY <1>1
  <1>3. QED
    BY <1>1, <1>2

\* The constants of the layout.
LEMMA Layout ==
    /\ IndexRec \in Nat /\ 2 <= IndexRec /\ MaxScans \in Nat
    /\ IndexRec * PerRec \in Nat /\ IndexRec * PerRec = MaxScans + PerRec
    /\ PerRec < IndexRec * PerRec
  <1>1. IndexRec \in Nat /\ 2 <= IndexRec /\ IndexRec = DirRecs + 1
    BY DEF IndexRec
  <1>2. MaxScans = DirRecs * PerRec /\ (DirRecs + 1) * PerRec = DirRecs * PerRec + 1 * PerRec
    BY Distributes DEF MaxScans
  <1>3. 1 * PerRec <= DirRecs * PerRec
    BY Monotone
  <1>4. QED
    BY <1>1, <1>2, <1>3

\* Where a scan is: its header and data before the end of its last record, which
\* is in the file; its entry before them.
LEMMA Space ==
    ASSUME TypeOK, Sizes, NEW s \in Scan, Placed(s)
    PROVE  /\ First(s) \in Nat /\ s.last * PerRec \in Nat
           /\ IndexRec * PerRec <= First(s)
           /\ s.k # 0 => IndexRec * PerRec + PerRec <= First(s)
           /\ First(s) + s.size <= s.last * PerRec
           /\ s.last * PerRec <= MaxRecords * PerRec
           /\ MaxRecords * PerRec \in Nat
  <1>1. /\ s.start \in Nat /\ s.last \in Nat /\ s.k \in Nat /\ s.size \in Nat
        /\ boot.data \in Nat /\ boot.entries \in Nat
    BY DEF TypeOK, Scan, Boot
  <1>2. IndexRec <= s.start - 1 /\ s.start - 1 \in Nat /\ s.last <= MaxRecords
    BY <1>1, Layout DEF Placed, Sizes
  <1>3. First(s) = (s.start - 1) * PerRec /\ First(s) \in Nat
    BY <1>2 DEF First
  <1>4. IndexRec * PerRec <= First(s)
    BY <1>2, <1>3, Layout, Monotone
  <1>5. ASSUME s.k # 0 PROVE IndexRec * PerRec + PerRec <= First(s)
    <2>1. IndexRec + 1 <= s.start - 1
      BY <1>1, <1>5, Layout DEF Placed
    <2>2. (IndexRec + 1) * PerRec <= First(s)
      BY <1>2, <1>3, <2>1, Layout, Monotone
    <2>3. (IndexRec + 1) * PerRec = IndexRec * PerRec + 1 * PerRec
      BY Layout, Distributes
    <2>4. QED
      BY <2>2, <2>3, Layout
  <1>6. First(s) + s.size <= s.last * PerRec
    <2> DEFINE b == s.start - 1
               n == s.last - s.start + 1
    <2>1. n \in Int /\ b \in Int /\ s.last = b + n /\ s.size <= n * PerRec
      BY <1>1 DEF Placed
    <2>2. (b + n) * PerRec = b * PerRec + n * PerRec /\ b * PerRec \in Int /\ n * PerRec \in Int
      BY <2>1, Distributes
    <2>3. First(s) = b * PerRec
      BY <1>3
    <2> HIDE DEF b, n
    <2>4. s.last * PerRec = b * PerRec + n * PerRec
      BY <2>1, <2>2
    <2>5. QED
      BY <1>1, <2>1, <2>2, <2>3, <2>4
  <1>7. s.last * PerRec <= MaxRecords * PerRec
    BY <1>1, <1>2, Monotone
  <1>8. QED
    BY <1>1, <1>3, <1>4, <1>5, <1>6, <1>7

\* An entry is before the data of its scan and of every later one.
LEMMA EntryBefore ==
    ASSUME TypeOK, Sizes, NEW s \in Scan, Placed(s), NEW t \in Scan, Placed(t),
           s.k < t.k \/ s = t
    PROVE  EntryUnit(s.k) \in Units /\ EntryUnit(s.k) < First(t)
  <1>1. s.k \in Nat /\ t.k \in Nat /\ boot.entries \in Nat
    BY DEF TypeOK, Scan, Boot
  <1>2. s.k < IndexRec * PerRec
    BY <1>1, Layout DEF Placed, Sizes
  <1>3. EntryUnit(s.k) = PerRec + s.k
    BY DEF EntryUnit
  <1>4. EntryUnit(s.k) < First(t)
    <2>1. CASE t.k = 0
      <3>1. s.k = 0
        BY <1>1, <2>1
      <3>2. IndexRec * PerRec <= First(t) /\ First(t) \in Nat
        BY Space
      <3>3. QED
        BY <1>3, <3>1, <3>2, Layout
    <2>2. CASE t.k # 0
      <3>1. IndexRec * PerRec + PerRec <= First(t) /\ First(t) \in Nat
        BY <2>2, Space
      <3>2. QED
        BY <1>1, <1>2, <1>3, <3>1, Layout
    <2>3. QED
      BY <2>1, <2>2
  <1>5. First(t) <= MaxRecords * PerRec /\ First(t) \in Nat /\ MaxRecords * PerRec \in Nat
    <2>1. t.size \in Nat
      BY DEF Scan
    <2>2. QED
      BY <2>1, Space
  <1>6. QED
    BY <1>1, <1>3, <1>4, <1>5 DEF Units

\* A scan's units are before those of a scan that comes after its last record.
LEMMA ScanBefore ==
    ASSUME TypeOK, Sizes, NEW s \in Scan, Placed(s), NEW t \in Scan, Placed(t),
           s.last < t.start
    PROVE  s.last * PerRec <= First(t)
  <1>1. s.last \in Int /\ t.start - 1 \in Int /\ s.last <= t.start - 1
    BY DEF Scan
  <1>2. QED
    BY <1>1, Monotone DEF First

-------------------------------------------------------------------------------
(* Writing *)

\* Written() changes the units it is told, and no others.
LEMMA WrittenUnits ==
    ASSUME TypeOK, NEW from \in Nat, NEW n \in Nat, NEW c \in Content,
           disk' = Written(from, n, c)
    PROVE  /\ disk' \in [Units -> Content]
           /\ \A u \in Units : u < from => disk'[u] = disk[u]
           /\ \A u \in Units : u \in from .. from + n - 1 => disk'[u] = c
  BY DEF Written, TypeOK, Units

\* A write behind a scan's units and its entry leaves them as they are.
LEMMA KeptBehind ==
    ASSUME TypeOK, Sizes, NEW s \in Scan, Placed(s),
           NEW from \in Nat, EntryUnit(s.k) < from,
           \A u \in Units : u < from => disk'[u] = disk[u]
    PROVE  /\ EntryKept(s) => EntryKept(s)'
           /\ First(s) + Header <= from /\ HeaderKept(s) => HeaderKept(s)'
           /\ First(s) + s.size <= from /\ DataKept(s) => DataKept(s)'
  <1>1. EntryUnit(s.k) \in Units
    BY EntryBefore
  <1>2. /\ First(s) \in Nat /\ First(s) + s.size <= MaxRecords * PerRec
        /\ MaxRecords * PerRec \in Nat
        /\ s.size \in Nat /\ Header <= s.size
    BY Space DEF Placed, Scan
  <1>3. \A u \in First(s) .. First(s) + s.size - 1 : u \in Units
    BY <1>2 DEF Units
  <1>4. EntryKept(s) => EntryKept(s)'
    BY <1>1 DEF EntryKept, EntryUnit, Entry
  <1>5. ASSUME First(s) + Header <= from, HeaderKept(s) PROVE HeaderKept(s)'
    <2>1. \A u \in First(s) .. First(s) + Header - 1 : u \in Units /\ u < from
      BY <1>2, <1>3, <1>5
    <2>2. QED
      BY <1>5, <2>1 DEF HeaderKept, First
  <1>6. ASSUME First(s) + s.size <= from, DataKept(s) PROVE DataKept(s)'
    <2>1. \A u \in First(s) + Header .. First(s) + s.size - 1 : u \in Units /\ u < from
      BY <1>2, <1>3, <1>6
    <2>2. QED
      BY <1>6, <2>1 DEF DataKept, First
  <1>7. QED
    BY <1>4, <1>5, <1>6

\* A write into the units of the scan under way leaves the scans written, and
\* its own entry, as they are.
LEMMA OthersKept ==
    ASSUME Safe, at # "idle", boot' = boot, written' = written,
           NEW from \in Nat, First(scan) <= from,
           \A u \in Units : u < from => disk'[u] = disk[u]
    PROVE  /\ Sizes' /\ WrittenFine' /\ WrittenKept'
           /\ EntryKept(scan) => \E s : s = scan /\ EntryKept(s)'
  <1>1. TypeOK /\ Sizes /\ Placed(scan) /\ scan \in Scan /\ First(scan) \in Nat
    BY Space DEF Safe, Behind, TypeOK
  <1>2. ASSUME NEW s \in written
        PROVE  /\ s \in Scan /\ Placed(s) /\ Placed(s)' /\ EntryKept(s)'
               /\ HeaderKept(s) => HeaderKept(s)'
               /\ DataKept(s) => DataKept(s)'
    <2>1. /\ s \in Scan /\ Placed(s) /\ EntryKept(s)
          /\ s.k < scan.k /\ s.last < scan.start
      BY DEF Safe, TypeOK, WrittenFine, Behind
    <2>2. EntryUnit(s.k) \in Units /\ EntryUnit(s.k) < First(scan)
      BY <1>1, <2>1, EntryBefore
    <2>3. First(s) + s.size <= First(scan) /\ First(s) \in Nat /\ s.size \in Nat
      BY <1>1, <2>1, ScanBefore, Space DEF Scan
    <2>4. First(s) + Header <= First(s) + s.size
      BY <2>1, <2>3 DEF Placed
    <2>5. EntryUnit(s.k) < from /\ First(s) + s.size <= from /\ First(s) + Header <= from
      BY <1>1, <2>2, <2>3, <2>4 DEF Units
    <2>6. Placed(s)'
      BY <2>1 DEF Placed
    <2>7. QED
      BY <1>1, <2>1, <2>5, <2>6, KeptBehind
  <1>3. Sizes'
    BY <1>1 DEF Sizes
  <1>4. WrittenFine'
    BY <1>2 DEF WrittenFine
  <1>5. WrittenKept'
    BY <1>2 DEF Safe, WrittenKept
  <1>6. ASSUME NEW s, s = scan, EntryKept(s) PROVE EntryKept(s)'
    <2>1. EntryUnit(s.k) \in Units /\ EntryUnit(s.k) < First(s)
      BY <1>1, <1>6, EntryBefore
    <2>2. EntryUnit(s.k) < from
      BY <1>1, <1>6, <2>1 DEF Units
    <2>3. QED
      BY <1>1, <1>6, <2>2, KeptBehind
  <1>7. QED
    BY <1>3, <1>4, <1>5, <1>6

-------------------------------------------------------------------------------
(* Steps *)

\* An empty file is safe.
LEMMA InitSafe == Init => Safe
  <1> SUFFICES ASSUME Init PROVE Safe
    OBVIOUS
  <1>1. Zero \in Content /\ NoScan \in Scan /\ NoBoot \in Boot
    BY DEF Zero, Content, NoScan, Scan, NoBoot, Boot
  <1>2. TypeOK
    <2>1. disk \in [Units -> Content]
      BY <1>1 DEF Init
    <2>2. seen \in [at : {"no", "boot", "entry"}, n : Nat, entry : Content,
                    known : SUBSET Scan]
      BY <1>1 DEF Init, NotSeen
    <2>3. QED
      BY <1>1, <2>1, <2>2 DEF Init, TypeOK
  <1>3. Sizes
    BY Layout DEF Init, NoBoot, Sizes
  <1>4. WrittenFine /\ WrittenKept
    BY DEF Init, WrittenFine, WrittenKept
  <1>5. Behind /\ Progress
    BY DEF Init, Behind, Progress
  <1>6. ReaderKnows
    BY DEF Init, NotSeen, ReaderKnows
  <1>7. QED
    BY <1>2, <1>3, <1>4, <1>5, <1>6 DEF Safe

\* A scan that is counted in the boot record is behind all others.
LEMMA CountSafe ==
    ASSUME Safe, NEW d \in Lengths, WriteBoot(d), at' = "dir"
    PROVE  Safe'
  <1> DEFINE n == Blocks(Header + d)
  <1>1. /\ boot.entries \in Nat /\ boot.data \in Nat /\ boot.counter \in Nat
        /\ boot = [entries |-> boot.entries, data |-> boot.data, counter |-> boot.counter]
        /\ at = "idle" /\ calls \in Nat /\ TypeOK
    BY DEF Safe, TypeOK, Boot, WriteBoot
  <1>2. d \in Nat /\ Header + d \in Nat /\ Header + d # 0
    OBVIOUS
  <1>3. n \in Nat /\ n # 0 /\ Header + d <= n * PerRec
    BY <1>2, BlocksHold
  <1> HIDE DEF n
  <1>4. /\ IndexRec + boot.data + n <= MaxRecords
        /\ ~ Full /\ boot' = Updated(n) /\ faults' = faults
        /\ scan' = [no |-> calls + 1, k |-> NewEntry, start |-> StartRec,
                    last |-> StartRec + n - 1, size |-> Header + d, short |-> FALSE]
        /\ calls' = calls + 1 /\ calls < MaxCalls
        /\ UNCHANGED <<file, disk, seen, written>>
    BY <1>1 DEF WriteBoot, n
  <1>5. /\ boot'.entries = boot.entries + 1 /\ boot'.data = boot.data + n
        /\ boot' \in Boot
    BY <1>1, <1>3, <1>4 DEF Updated, Boot
  <1>6. /\ scan'.k = boot.entries /\ scan'.start = IndexRec + boot.data + 1
        /\ scan'.last = IndexRec + boot.data + n /\ scan'.size = Header + d
        /\ scan' \in Scan
    BY <1>1, <1>2, <1>3, <1>4, Layout DEF NewEntry, StartRec, Scan
  <1>7. TypeOK'
    BY <1>1, <1>4, <1>5, <1>6 DEF TypeOK
  <1>8. Sizes'
    BY <1>1, <1>3, <1>4, <1>5, Layout DEF Safe, Sizes, Full
  <1>9. ASSUME NEW s \in written
        PROVE  /\ Placed(s)' /\ EntryKept(s)' /\ s.k < boot.entries
               /\ s.last <= IndexRec + boot.data /\ s \in Scan
    <2>1. Placed(s) /\ EntryKept(s) /\ s \in Scan
      BY DEF Safe, WrittenFine, TypeOK
    <2>2. s.last \in Nat /\ s.k \in Nat
      BY <2>1 DEF Scan
    <2>3. Placed(s)'
      BY <1>1, <1>3, <1>5, <2>1, <2>2, Layout DEF Placed
    <2>4. EntryKept(s)'
      BY <1>4, <2>1 DEF EntryKept
    <2>5. QED
      BY <2>1, <2>3, <2>4 DEF Placed
  <1>10. WrittenFine'
    BY <1>4, <1>9 DEF WrittenFine
  <1>11. WrittenKept'
    BY <1>1, <1>4, <1>5, Layout DEF Safe, WrittenKept, HeaderKept, DataKept
  <1>12. Behind'
    <2>1. /\ IndexRec < scan'.start /\ scan'.start <= scan'.last
          /\ scan'.last <= IndexRec + boot'.data
          /\ scan'.k < boot'.entries
      BY <1>1, <1>3, <1>5, <1>6, Layout
    <2>2. Header <= scan'.size /\ scan'.size <= (scan'.last - scan'.start + 1) * PerRec
      <3>1. scan'.last - scan'.start + 1 = n
        BY <1>1, <1>3, <1>6, Layout
      <3>2. QED
        BY <1>2, <1>3, <1>6, <3>1
    <2>3. scan'.k # 0 => IndexRec + 1 < scan'.start
      BY <1>1, <1>6, Layout DEF Safe, Sizes
    <2>4. \A s \in written : s.k < scan'.k /\ s.last < scan'.start
      <3>1. ASSUME NEW s \in written PROVE s.k < scan'.k /\ s.last < scan'.start
        <4>1. s.k \in Nat /\ s.last \in Nat
          BY <1>9 DEF Scan
        <4>2. QED
          BY <1>1, <1>6, <1>9, <4>1, Layout
      <3>2. QED
        BY <3>1
    <2>5. QED
      BY <1>4, <2>1, <2>2, <2>3, <2>4 DEF Behind, Placed
  <1>13. Progress'
    BY DEF Progress
  <1>14. ReaderKnows'
    BY <1>4 DEF Safe, ReaderKnows, Entry, LastEntry, EntryUnit
  <1>15. QED
    BY <1>7, <1>8, <1>10, <1>11, <1>12, <1>13, <1>14 DEF Safe

\* A call that ends early changes nothing.
LEMMA RefuseSafe ==
    ASSUME Safe, NEW d \in Lengths, WriteBoot(d), at' # "dir"
    PROVE  Safe'
  <1>1. /\ UNCHANGED <<file, boot, disk, at, scan, seen, written>>
        /\ calls' = calls + 1 /\ calls < MaxCalls /\ (faults' = faults \/ Fault)
    BY DEF WriteBoot
  <1>2. TypeOK'
    BY <1>1 DEF Safe, TypeOK, Fault
  <1>3. QED
    BY <1>1, <1>2 DEF Safe, Sizes, WrittenFine, WrittenKept, Behind, Progress,
                      ReaderKnows, Placed, EntryKept, HeaderKept, DataKept, Entry,
                      LastEntry, EntryUnit

\* The entry goes where no other is, and not into data while the directory is
\* not too full.
LEMMA DirSafe ==
    ASSUME Safe, WriteDir
    PROVE  Safe'
  <1> DEFINE e == EntryUnit(scan.k)
  <1>1. /\ TypeOK /\ Sizes /\ scan \in Scan /\ Placed(scan)
        /\ boot.entries \in Nat /\ scan.k \in Nat
    BY DEF Safe, Behind, WriteDir, TypeOK, Boot, Scan
  <1>2. /\ UNCHANGED <<file, boot, scan, seen, written, calls, faults>>
        /\ at = "dir" /\ at' = "header"
        /\ disk' = [disk EXCEPT ![e] = Entry(scan)]
    BY DEF WriteDir
  <1>3. e \in Units /\ e = PerRec + scan.k
    BY <1>1, EntryBefore DEF EntryUnit
  <1> HIDE DEF e
  <1>4. Entry(scan) \in Content
    BY <1>1 DEF Entry, Content, Scan
  <1>5. TypeOK'
    <2>1. disk' \in [Units -> Content]
      BY <1>1, <1>2, <1>4 DEF TypeOK
    <2>2. QED
      BY <1>1, <1>2, <2>1 DEF TypeOK
  <1>6. disk'[e] = Entry(scan) /\ \A u \in Units : u # e => disk'[u] = disk[u]
    BY <1>1, <1>2, <1>3 DEF TypeOK
  <1>7. ASSUME NEW s \in written
        PROVE  /\ Placed(s)' /\ EntryKept(s)'
               /\ boot.entries <= MaxScans =>
                      /\ HeaderKept(s) => HeaderKept(s)'
                      /\ DataKept(s) => DataKept(s)'
    <2>1. /\ s \in Scan /\ Placed(s) /\ EntryKept(s)
          /\ s.k < scan.k /\ s.k \in Nat
      BY <1>2 DEF Safe, TypeOK, WrittenFine, Behind, Scan
    <2>2. EntryUnit(s.k) \in Units /\ EntryUnit(s.k) # e
      <3>1. EntryUnit(s.k) \in Units
        BY <1>1, <2>1, EntryBefore
      <3>2. EntryUnit(s.k) = PerRec + s.k
        BY DEF EntryUnit
      <3>3. QED
        BY <1>1, <1>3, <2>1, <3>1, <3>2
    <2>3. Placed(s)' /\ EntryKept(s)'
      BY <1>2, <1>6, <2>1, <2>2 DEF Placed, EntryKept, Entry
    <2>4. /\ First(s) \in Nat /\ IndexRec * PerRec <= First(s)
          /\ First(s) + s.size <= MaxRecords * PerRec /\ MaxRecords * PerRec \in Nat
          /\ s.size \in Nat /\ Header <= s.size
      BY <1>1, <2>1, Space DEF Placed, Scan
    <2>5. ASSUME boot.entries <= MaxScans
          PROVE  \A u \in First(s) .. First(s) + s.size - 1 : u \in Units /\ u # e
      <3>1. e < First(s)
        BY <1>1, <1>3, <2>4, <2>5, Layout DEF Placed
      <3>2. QED
        BY <1>1, <1>3, <2>4, <3>1 DEF Units
    <2>6. ASSUME boot.entries <= MaxScans, HeaderKept(s) PROVE HeaderKept(s)'
      <3>1. \A u \in First(s) .. First(s) + Header - 1 : u \in Units /\ u # e
        BY <2>4, <2>5, <2>6
      <3>2. QED
        BY <1>6, <2>6, <3>1 DEF HeaderKept, First
    <2>7. ASSUME boot.entries <= MaxScans, DataKept(s) PROVE DataKept(s)'
      <3>1. \A u \in First(s) + Header .. First(s) + s.size - 1 : u \in Units /\ u # e
        BY <2>4, <2>5, <2>7
      <3>2. QED
        BY <1>6, <2>7, <3>1 DEF DataKept, First
    <2>8. QED
      BY <2>3, <2>6, <2>7
  <1>8. Sizes'
    BY <1>1, <1>2 DEF Sizes
  <1>9. WrittenFine'
    BY <1>2, <1>7 DEF WrittenFine
  <1>10. WrittenKept'
    BY <1>2, <1>7 DEF Safe, WrittenKept
  <1>11. Behind'
    BY <1>2 DEF Safe, Behind, Placed
  <1>12. Progress'
    BY <1>2, <1>6 DEF Progress, EntryKept, Entry, e
  <1>13. ReaderKnows'
    BY <1>2 DEF Safe, ReaderKnows, Entry, LastEntry, EntryUnit
  <1>14. QED
    BY <1>5, <1>8, <1>9, <1>10, <1>11, <1>12, <1>13 DEF Safe

\* The header goes into the scan's own units.
LEMMA HeaderSafe ==
    ASSUME Safe, WriteHeader
    PROVE  Safe'
  <1> DEFINE c == [by |-> scan.no, part |-> "header"]
  <1>1. /\ TypeOK /\ Sizes /\ scan \in Scan /\ Placed(scan) /\ scan.no \in Nat
        /\ First(scan) \in Nat
    BY Space DEF Safe, Behind, WriteHeader, TypeOK, Scan
  <1>2. /\ UNCHANGED <<file, boot, scan, seen, written, calls, faults>>
        /\ at = "header" /\ at' = "data"
        /\ disk' = Written(First(scan), Header, c)
    BY DEF WriteHeader
  <1>3. c \in Content
    BY <1>1 DEF Content
  <1> HIDE DEF c
  <1>4. /\ disk' \in [Units -> Content]
        /\ \A u \in Units : u < First(scan) => disk'[u] = disk[u]
        /\ \A u \in Units : u \in First(scan) .. First(scan) + Header - 1 => disk'[u] = c
    BY <1>1, <1>2, <1>3, WrittenUnits
  <1>5. TypeOK'
    BY <1>1, <1>2, <1>4 DEF TypeOK
  <1>6. /\ Sizes' /\ WrittenFine' /\ WrittenKept'
        /\ EntryKept(scan) => \E s : s = scan /\ EntryKept(s)'
    BY <1>1, <1>2, <1>4, OthersKept
  <1>7. Behind'
    BY <1>2 DEF Safe, Behind, Placed
  <1>8. Progress'
    <2>1. EntryKept(scan)
      BY <1>2 DEF Safe, Progress
    <2>2. EntryKept(scan)'
      BY <1>2, <1>6, <2>1 DEF EntryKept
    <2>3. \A u \in First(scan) .. First(scan) + Header - 1 : disk'[u] = c
      <3>1. /\ First(scan) + scan.size <= MaxRecords * PerRec /\ MaxRecords * PerRec \in Nat
            /\ scan.size \in Nat /\ Header <= scan.size
        BY <1>1, Space DEF Placed, Scan
      <3>2. \A u \in First(scan) .. First(scan) + Header - 1 : u \in Units
        BY <1>1, <3>1 DEF Units
      <3>3. QED
        BY <1>4, <3>2
    <2>4. HeaderKept(scan)'
      BY <1>2, <2>3 DEF HeaderKept, First, c
    <2>5. QED
      BY <1>2, <2>2, <2>4 DEF Progress
  <1>9. ReaderKnows'
    BY <1>2 DEF Safe, ReaderKnows, Entry, LastEntry, EntryUnit
  <1>10. QED
    BY <1>5, <1>6, <1>7, <1>8, <1>9 DEF Safe

\* So do the data, all of them or not.
LEMMA DataSafe ==
    ASSUME Safe, WriteData
    PROVE  Safe'
  <1> DEFINE c == [by |-> scan.no, part |-> "data"]
             from == First(scan) + Header
  <1>1. /\ TypeOK /\ Sizes /\ scan \in Scan /\ Placed(scan)
        /\ at = "data" /\ at' = "fill"
        /\ UNCHANGED <<file, boot, seen, written, calls>>
    BY DEF Safe, Behind, WriteData, TypeOK
  <1>2. /\ First(scan) \in Nat /\ scan.no \in Nat /\ scan.size \in Nat
        /\ from \in Nat /\ First(scan) <= from /\ Header <= scan.size
    BY <1>1, Space DEF Placed, Scan
  <1>3. c \in Content
    BY <1>2 DEF Content
  <1>4. PICK m \in 0 .. scan.size - Header :
            /\ disk' = Written(from, m, c)
            /\ faults' = faults \/ Fault
            /\ \/ scan' = scan /\ m = scan.size - Header
               \/ scan' = [scan EXCEPT !.short = TRUE]
    <2>1. CASE disk' = Written(from, scan.size - Header, c) /\ UNCHANGED <<scan, faults>>
      BY <1>2, <2>1
    <2>2. CASE \E k \in 0 .. scan.size - Header - 1 :
                  Fault /\ disk' = Written(from, k, c) /\ scan' = [scan EXCEPT !.short = TRUE]
      BY <1>2, <2>2
    <2>3. QED
      BY <2>1, <2>2 DEF WriteData
  <1> HIDE DEF c, from
  <1>5. m \in Nat
    BY <1>2, <1>4
  <1>6. /\ disk' \in [Units -> Content]
        /\ \A u \in Units : u < from => disk'[u] = disk[u]
        /\ \A u \in Units : u \in from .. from + m - 1 => disk'[u] = c
    BY <1>1, <1>2, <1>3, <1>4, <1>5, WrittenUnits
  <1>7. /\ scan' \in Scan /\ scan'.no = scan.no /\ scan'.k = scan.k
        /\ scan'.start = scan.start /\ scan'.last = scan.last
        /\ scan'.size = scan.size
    BY <1>1, <1>4 DEF Scan
  <1>8. TypeOK'
    BY <1>1, <1>4, <1>6, <1>7 DEF TypeOK, Fault
  <1>9. /\ Sizes' /\ WrittenFine' /\ WrittenKept'
    BY <1>1, <1>2, <1>6, OthersKept
  <1>10. Behind'
    BY <1>1, <1>7 DEF Safe, Behind, Placed
  <1>11. Progress'
    <2>1. EntryKept(scan) /\ HeaderKept(scan)
      BY <1>1 DEF Safe, Progress
    <2>2. PICK s : s = scan
      OBVIOUS
    <2>3. EntryUnit(scan.k) \in Units /\ EntryUnit(scan.k) < First(scan)
      BY <1>1, EntryBefore
    <2>4. EntryUnit(scan.k) < from /\ First(scan) + Header <= from
      BY <1>2, <2>3 DEF from, Units
    <2>5. EntryKept(s)' /\ HeaderKept(s)'
      BY <1>1, <1>2, <1>6, <2>1, <2>2, <2>4, KeptBehind
    <2>6. EntryKept(scan)' /\ HeaderKept(scan)'
      BY <1>7, <2>2, <2>5 DEF EntryKept, HeaderKept, Entry, First
    <2>7. CASE scan' = scan /\ m = scan.size - Header
      <3>1. /\ First(scan) + scan.size <= MaxRecords * PerRec /\ MaxRecords * PerRec \in Nat
        BY <1>1, <1>2, Space
      <3>2. \A u \in First(scan) + Header .. First(scan) + scan.size - 1 :
                u \in Units /\ u \in from .. from + m - 1
        BY <1>2, <2>7, <3>1 DEF from, Units
      <3>3. \A u \in First(scan) + Header .. First(scan) + scan.size - 1 : disk'[u] = c
        BY <1>6, <3>2
      <3>4. DataKept(scan)'
        BY <2>7, <3>3 DEF DataKept, First, c
      <3>5. QED
        BY <1>1, <2>6, <3>4 DEF Progress
    <2>8. CASE scan' = [scan EXCEPT !.short = TRUE]
      <3>1. scan'.short
        BY <1>1, <2>8 DEF Scan
      <3>2. QED
        BY <1>1, <2>6, <3>1 DEF Progress
    <2>9. QED
      BY <1>4, <2>7, <2>8
  <1>12. ReaderKnows'
    BY <1>1 DEF Safe, ReaderKnows, Entry, LastEntry, EntryUnit
  <1>13. QED
    BY <1>8, <1>9, <1>10, <1>11, <1>12 DEF Safe

\* What fills the last record up is behind the data; the scan is then written.
LEMMA FillSafe ==
    ASSUME Safe, Fill
    PROVE  Safe'
  <1> DEFINE c == [by |-> scan.no, part |-> "fill"]
             from == First(scan) + scan.size
  <1>1. /\ TypeOK /\ Sizes /\ scan \in Scan /\ Placed(scan)
        /\ at = "fill" /\ at' = "idle"
        /\ UNCHANGED <<file, boot, scan, seen, calls, faults>>
    BY DEF Safe, Behind, Fill, TypeOK
  <1>2. /\ First(scan) \in Nat /\ scan.no \in Nat /\ scan.size \in Nat
        /\ from \in Nat /\ First(scan) <= from /\ Header <= scan.size
    BY <1>1, Space DEF Placed, Scan
  <1>3. c \in Content
    BY <1>2 DEF Content
  <1>4. Rest(scan) \in Int
    BY <1>1 DEF Rest, Scan
  <1>5. disk' = disk \/ (Rest(scan) \in Nat /\ disk' = Written(from, Rest(scan), c))
    BY <1>4 DEF Fill
  <1>6. written' = written \/ written' = written \cup {scan}
    BY DEF Fill
  <1> HIDE DEF c, from
  <1>7. /\ disk' \in [Units -> Content]
        /\ \A u \in Units : u < from => disk'[u] = disk[u]
    <2>1. CASE disk' = disk
      BY <1>1, <2>1 DEF TypeOK
    <2>2. CASE Rest(scan) \in Nat /\ disk' = Written(from, Rest(scan), c)
      BY <1>1, <1>2, <1>3, <2>2, WrittenUnits
    <2>3. QED
      BY <1>5, <2>1, <2>2
  <1>8. TypeOK'
    BY <1>1, <1>6, <1>7 DEF TypeOK
  <1>9. ASSUME NEW s \in written
        PROVE  /\ Placed(s)' /\ EntryKept(s)'
               /\ HeaderKept(s) => HeaderKept(s)'
               /\ DataKept(s) => DataKept(s)'
    <2>1. /\ s \in Scan /\ Placed(s) /\ EntryKept(s)
          /\ s.k < scan.k /\ s.last < scan.start
      BY <1>1 DEF Safe, TypeOK, WrittenFine, Behind
    <2>2. EntryUnit(s.k) \in Units /\ EntryUnit(s.k) < First(scan)
      BY <1>1, <2>1, EntryBefore
    <2>3. First(s) + s.size <= First(scan) /\ First(s) \in Nat /\ s.size \in Nat
      BY <1>1, <2>1, ScanBefore, Space DEF Scan
    <2>4. First(s) + Header <= First(s) + s.size
      BY <2>1, <2>3 DEF Placed
    <2>5. EntryUnit(s.k) < from /\ First(s) + s.size <= from /\ First(s) + Header <= from
      BY <1>2, <2>2, <2>3, <2>4 DEF Units
    <2>6. Placed(s)'
      BY <1>1, <2>1 DEF Placed
    <2>7. QED
      BY <1>1, <1>2, <1>7, <2>1, <2>5, <2>6, KeptBehind
  <1>10. ASSUME NEW s, s = scan
         PROVE  /\ s \in Scan /\ Placed(s)' /\ EntryKept(s)' /\ HeaderKept(s)'
                /\ s.short \/ DataKept(s)'
    <2>1. /\ s \in Scan /\ Placed(s) /\ EntryKept(s) /\ HeaderKept(s)
          /\ s.short \/ DataKept(s)
      BY <1>1, <1>10 DEF Safe, Progress
    <2>2. EntryUnit(s.k) \in Units /\ EntryUnit(s.k) < First(s)
      BY <1>1, <2>1, EntryBefore
    <2>3. EntryUnit(s.k) < from /\ First(s) + s.size <= from /\ First(s) + Header <= from
      BY <1>2, <1>10, <2>2 DEF Units, from
    <2>4. Placed(s)'
      BY <1>1, <2>1 DEF Placed
    <2>5. QED
      BY <1>1, <1>2, <1>7, <2>1, <2>3, <2>4, KeptBehind
  <1>11. Sizes'
    BY <1>1 DEF Sizes
  <1>12. WrittenFine'
    BY <1>6, <1>9, <1>10 DEF WrittenFine
  <1>13. WrittenKept'
    BY <1>1, <1>6, <1>9, <1>10 DEF Safe, WrittenKept
  <1>14. Behind' /\ Progress'
    BY <1>1 DEF Behind, Progress
  <1>15. ReaderKnows'
    BY <1>1, <1>6 DEF Safe, ReaderKnows, Entry, LastEntry, EntryUnit
  <1>16. QED
    BY <1>8, <1>11, <1>12, <1>13, <1>14, <1>15 DEF Safe

\* A reader reads the entry of the last scan where write_sdd() put it.
LEMMA ReadSafe ==
    ASSUME Safe, ReadBoot \/ ReadEntry
    PROVE  Safe'
  <1>1. /\ UNCHANGED <<file, boot, disk, at, scan, written, calls, faults>>
        /\ TypeOK
    BY DEF Safe, ReadBoot, ReadEntry
  <1>2. /\ Sizes' /\ WrittenFine' /\ WrittenKept' /\ Behind' /\ Progress'
    BY <1>1 DEF Safe, Sizes, WrittenFine, WrittenKept, Behind, Progress,
                Placed, EntryKept, HeaderKept, DataKept, Entry
  <1>3. CASE ReadBoot
    <2> DEFINE k == {s \in written : s.k = boot.entries - 1}
    <2>1. /\ seen'.n = boot.entries /\ seen'.at \in {"no", "boot"}
          /\ seen'.known = k
          /\ seen' \in [at : {"no", "boot", "entry"}, n : Nat, entry : Content,
                         known : SUBSET Scan]
      <3>1. boot.entries \in Nat /\ k \in SUBSET Scan /\ Zero \in Content
        BY <1>1 DEF TypeOK, Boot, Zero, Content
      <3>2. seen' = [at |-> IF boot.entries = 0 \/ Full THEN "no" ELSE "boot",
                     n |-> boot.entries, entry |-> Zero, known |-> k]
        BY <1>3 DEF ReadBoot
      <3> HIDE DEF k
      <3>3. QED
        BY <3>1, <3>2
    <2>2. TypeOK'
      BY <1>1, <2>1 DEF TypeOK
    <2>3. ReaderKnows'
      <3>1. ASSUME seen'.at # "no" PROVE LastEntry(boot.entries) \in Units
        <4>1. boot.entries # 0 /\ ~ Full
          BY <1>3, <3>1 DEF ReadBoot
        <4>2. /\ boot.entries \in Nat /\ boot.data \in Nat
              /\ boot.entries + 1 <= IndexRec * PerRec
              /\ IndexRec + 1 <= MaxRecords
          BY <1>1, <4>1, Layout DEF Safe, TypeOK, Boot, Sizes, Full
        <4>3. (IndexRec + 1) * PerRec <= MaxRecords * PerRec
          BY <4>2, Layout, Monotone
        <4>4. (IndexRec + 1) * PerRec = IndexRec * PerRec + 1 * PerRec
          BY Layout, Distributes
        <4>5. MaxRecords * PerRec \in Nat
          BY Distributes, Layout, <4>3, <4>4
        <4>6. LastEntry(boot.entries) = PerRec + (boot.entries - 1)
          BY DEF LastEntry, EntryUnit
        <4>7. QED
          BY <4>1, <4>2, <4>3, <4>4, <4>5, <4>6, Layout DEF Units
      <3>2. QED
        BY <1>1, <2>1, <3>1 DEF ReaderKnows, LastEntry, EntryUnit
    <2>4. QED
      BY <1>2, <2>2, <2>3 DEF Safe
  <1>4. CASE ReadEntry
    <2>1. /\ seen.at = "boot" /\ seen.n \in Nat /\ seen.known \in SUBSET Scan
          /\ seen' = [seen EXCEPT !.at = "entry", !.entry = disk[LastEntry(seen.n)]]
      BY <1>1, <1>4 DEF ReadEntry, TypeOK
    <2>2. /\ seen'.at = "entry" /\ seen'.n = seen.n /\ seen'.known = seen.known
          /\ seen'.entry = disk[LastEntry(seen.n)]
      BY <1>1, <2>1 DEF TypeOK
    <2>3. LastEntry(seen.n) \in Units /\ disk[LastEntry(seen.n)] \in Content
      <3>1. LastEntry(seen.n) \in Units
        BY <2>1 DEF Safe, ReaderKnows
      <3>2. QED
        BY <1>1, <3>1 DEF TypeOK
    <2>4. ReaderKnows'
      <3>1. ASSUME NEW s \in seen.known
            PROVE  s \in written /\ s.k = seen.n - 1 /\ seen'.entry = Entry(s)
        <4>1. s \in written /\ s.k = seen.n - 1
          BY <2>1, <3>1 DEF Safe, ReaderKnows
        <4>2. disk[EntryUnit(s.k)] = Entry(s)
          BY <4>1 DEF Safe, WrittenFine, EntryKept
        <4>3. QED
          BY <2>2, <4>1, <4>2 DEF LastEntry
      <3>2. QED
        BY <1>1, <2>1, <2>2, <2>3, <3>1 DEF ReaderKnows, Entry, LastEntry, EntryUnit
    <2>5. TypeOK'
      BY <1>1, <2>1, <2>3 DEF TypeOK
    <2>6. QED
      BY <1>2, <2>4, <2>5 DEF Safe
  <1>5. QED
    BY <1>3, <1>4

\* A failed write or the end of the program leaves the scan unwritten, not more.
LEMMA StopSafe ==
    ASSUME Safe, Stop
    PROVE  Safe'
  <1>1. /\ UNCHANGED <<file, boot, disk, scan, seen, written, calls>>
        /\ at' = "idle" /\ Fault /\ TypeOK
    BY DEF Safe, Stop
  <1>2. TypeOK'
    BY <1>1 DEF TypeOK, Fault
  <1>3. QED
    BY <1>1, <1>2 DEF Safe, Sizes, WrittenFine, WrittenKept, Behind, Progress,
                      ReaderKnows, Placed, EntryKept, HeaderKept, DataKept, Entry,
                      LastEntry, EntryUnit

\* A new file has nothing in it.
LEMMA NewSddSafe ==
    ASSUME Safe, NewSdd
    PROVE  Safe'
  <1>1. /\ UNCHANGED <<boot, disk, at, scan, seen, written, calls>>
        /\ file' \in {"ready", "empty"} /\ (faults' = faults \/ Fault) /\ TypeOK
    BY DEF Safe, NewSdd
  <1>2. TypeOK'
    BY <1>1 DEF TypeOK, Fault
  <1>3. QED
    BY <1>1, <1>2 DEF Safe, Sizes, WrittenFine, WrittenKept, Behind, Progress,
                      ReaderKnows, Placed, EntryKept, HeaderKept, DataKept, Entry,
                      LastEntry, EntryUnit

LEMMA NextSafe == Safe /\ [Next]_vars => Safe'
  <1> SUFFICES ASSUME Safe, [Next]_vars PROVE Safe'
    OBVIOUS
  <1>1. CASE NewSdd
    BY <1>1, NewSddSafe
  <1>2. CASE \E d \in Lengths : WriteBoot(d)
    <2>1. PICK d \in Lengths : WriteBoot(d)
      BY <1>2
    <2>2. CASE at' = "dir"
      BY <2>1, <2>2, CountSafe
    <2>3. CASE at' # "dir"
      BY <2>1, <2>3, RefuseSafe
    <2>4. QED
      BY <2>2, <2>3
  <1>3. CASE WriteDir
    BY <1>3, DirSafe
  <1>4. CASE WriteHeader
    BY <1>4, HeaderSafe
  <1>5. CASE WriteData
    BY <1>5, DataSafe
  <1>6. CASE Fill
    BY <1>6, FillSafe
  <1>7. CASE Stop
    BY <1>7, StopSafe
  <1>8. CASE ReadBoot \/ ReadEntry
    BY <1>8, ReadSafe
  <1>9. CASE UNCHANGED vars
    <2>1. UNCHANGED <<file, boot, disk, at, scan, seen, written, calls, faults>>
      BY <1>9 DEF vars
    <2>2. TypeOK'
      BY <2>1 DEF Safe, TypeOK
    <2>3. QED
      BY <2>1, <2>2 DEF Safe, Sizes, WrittenFine, WrittenKept, Behind, Progress,
                        ReaderKnows, Placed, EntryKept, HeaderKept, DataKept, Entry,
                        LastEntry, EntryUnit
  <1>10. QED
    BY <1>1, <1>2, <1>3, <1>4, <1>5, <1>6, <1>7, <1>8, <1>9 DEF Next

-------------------------------------------------------------------------------
(* The theorems *)

\* Whatever is called, fails, crashes or reads, the file is safe.
THEOREM AlwaysSafe == Spec => []Safe
  BY InitSafe, NextSafe, PTL DEF Spec

\* A scan that was written has all it is made of.
LEMMA WholeScans == Safe => ScansKept
  <1> SUFFICES ASSUME Safe, boot.entries <= MaxScans, NEW s \in written, ~ s.short
               PROVE  Whole(s)
    BY DEF Safe, ScansKept
  <1>1. /\ s \in Scan /\ TypeOK /\ Sizes /\ Placed(s)
        /\ EntryKept(s) /\ HeaderKept(s) /\ DataKept(s)
    BY DEF Safe, TypeOK, WrittenFine, WrittenKept
  <1>2. First(s) \in Nat /\ s.size \in Nat /\ Header \in Nat
    BY <1>1, Space DEF Scan
  <1>3. ASSUME NEW u \in First(s) .. First(s) + s.size - 1
        PROVE  disk[u] = [by |-> s.no,
                          part |-> IF u < First(s) + Header THEN "header" ELSE "data"]
    <2>1. CASE u < First(s) + Header
      <3>1. u \in First(s) .. First(s) + Header - 1
        BY <1>2, <1>3, <2>1
      <3>2. QED
        BY <1>1, <2>1, <3>1 DEF HeaderKept
    <2>2. CASE ~ (u < First(s) + Header)
      <3>1. u \in First(s) + Header .. First(s) + s.size - 1
        BY <1>2, <1>3, <2>2
      <3>2. QED
        BY <1>1, <2>2, <3>1 DEF DataKept
    <2>3. QED
      BY <2>1, <2>2
  <1>4. QED
    BY <1>1, <1>3 DEF Whole, EntryKept

\* No later call, failure or crash takes anything from a scan that was reported
\* written, in a file of any size.
THEOREM ScansStayKept == Spec => []ScansKept
  BY AlwaysSafe, WholeScans, PTL

\* A reader finds the last scan that was written, whatever is written meanwhile.
THEOREM VerifyFinds == Spec => []VerifyFindsLast
  <1>1. Safe => VerifyFindsLast
    BY DEF Safe, ReaderKnows, VerifyFindsLast
  <1>2. QED
    BY <1>1, AlwaysSafe, PTL
=============================================================================
