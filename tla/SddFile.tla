------------------------------- MODULE SddFile -------------------------------
(***************************************************************************)
(* wr_sdd.c of caclib: scans in a file of single dish data (SDD).  The     *)
(* file is a boot record, a directory of fixed size and the data.          *)
(* write_sdd() updates it in place, a write() at a time: a failed write or *)
(* the end of the program leaves it half done, and verify_sdd() or another *)
(* program may read it meanwhile.                                          *)
(*                                                                         *)
(* Space is counted in units of a directory entry.  What a header and the  *)
(* data of a scan hold does not matter here, whose they are does.          *)
(***************************************************************************)
EXTENDS Integers

CONSTANTS
    DirRecs,    \* records that hold MAX_SCANS entries (2048 in the code)
    PerRec,     \* directory entries that fit in a record (8 in the code)
    Header,     \* units of a scan's header
    Lengths,    \* units of data a scan may have
    MaxRecords, \* records of the file (a bound of the model)
    MaxCalls,   \* calls of write_sdd() (a bound of the model)
    MaxFaults   \* failed writes and crashes (a bound of the model)

ASSUME SddAssumption ==
    /\ DirRecs \in Nat \ {0} /\ PerRec \in Nat \ {0} /\ Header \in Nat \ {0}
    /\ Lengths \subseteq Nat
    /\ MaxRecords \in Nat /\ MaxCalls \in Nat /\ MaxFaults \in Nat

VARIABLES
    file,    \* "none", "empty" (new_sdd() ended before its write) or "ready"
    boot,    \* the boot record
    disk,    \* what each unit of the file holds
    at,      \* the next write of write_sdd(), "idle" outside of it
    scan,    \* the scan it writes
    seen,    \* what a reader has read of boot record and directory
    written, \* history: the scans it reported written
    calls, faults \* history: how many of each

vars == <<file, boot, disk, at, scan, seen, written, calls, faults>>

Units == 0 .. MaxRecords * PerRec - 1

\* A unit nobody wrote reads as zero, or not at all behind the end.
Zero == [by |-> 0, part |-> "zero"]
Content == [by : Nat, part : {"zero", "entry", "header", "data", "fill"}]

Boot == [entries : Nat, data : Nat, counter : Nat]
NoBoot == [entries |-> 0, data |-> 0, counter |-> 0]

\* A scan: its number, the index of its entry, its records, its units, and
\* whether write() took less than them.
NoScan == [no |-> 0, k |-> 0, start |-> 1, last |-> 0, size |-> 0, short |-> FALSE]

NotSeen == [at |-> "no", n |-> 0, entry |-> Zero, known |-> {}]

-------------------------------------------------------------------------------
(* The layout *)

\* The file is made for MaxScans entries; the boot record is an index record.
MaxScans == DirRecs * PerRec
IndexRec == DirRecs + 1

\* blocks(): the records n units take.
Blocks(n) == IF n % PerRec = 0 THEN n \div PerRec ELSE n \div PerRec + 1

\* Where entry k is, and where a scan's data are: record 1 begins at unit 0.
EntryUnit(k) == PerRec + k
First(s) == (s.start - 1) * PerRec

\* Fault for the mutation checks: the records of the index are not counted.
StartAtData == boot.data + 1

StartRec == IndexRec + boot.data + 1

\* Whether the directory has no room for another entry; bytesinindex includes
\* the boot record.
Full == IndexRec * PerRec < boot.entries + 1

Written(from, n, c) ==
    [u \in Units |-> IF u \in from .. from + n - 1 THEN c ELSE disk[u]]

-------------------------------------------------------------------------------
(* new_sdd() and write_sdd() *)

Fault == faults < MaxFaults /\ faults' = faults + 1

\* O_EXCL: a file that is there is left as it is, also an empty one.
NewSdd ==
    /\ file = "none" /\ at = "idle"
    /\ \/ file' = "ready" /\ UNCHANGED faults
       \/ file' = "empty" /\ Fault
    /\ UNCHANGED <<boot, disk, at, scan, seen, written, calls>>

NewEntry == boot.entries

Updated(n) == [entries |-> boot.entries + 1, data |-> boot.data + n,
               counter |-> boot.counter + 1]

\* The boot record is read, checked, and written with the new scan counted; a
\* full directory or a failed write ends the call.
WriteBoot(d) ==
    LET n == Blocks(Header + d) IN
    /\ at = "idle" /\ calls < MaxCalls /\ calls' = calls + 1
    /\ IndexRec + boot.data + n <= MaxRecords
    /\ \/ /\ file # "ready" \/ Full
          /\ UNCHANGED <<boot, at, scan, faults>>
       \/ /\ file = "ready" /\ ~ Full
          /\ Fault
          /\ UNCHANGED <<boot, at, scan>>
       \/ /\ file = "ready" /\ ~ Full
          /\ boot' = Updated(n)
          /\ scan' = [no |-> calls + 1, k |-> NewEntry, start |-> StartRec,
                      last |-> StartRec + n - 1, size |-> Header + d,
                      short |-> FALSE]
          /\ at' = "dir"
          /\ UNCHANGED faults
    /\ UNCHANGED <<file, disk, seen, written>>

Entry(s) == [by |-> s.no, part |-> "entry"]

WriteDir ==
    /\ at = "dir"
    /\ disk' = [disk EXCEPT ![EntryUnit(scan.k)] = Entry(scan)]
    /\ at' = "header"
    /\ UNCHANGED <<file, boot, scan, seen, written, calls, faults>>

WriteHeader ==
    /\ at = "header"
    /\ disk' = Written(First(scan), Header, [by |-> scan.no, part |-> "header"])
    /\ at' = "data"
    /\ UNCHANGED <<file, boot, scan, seen, written, calls, faults>>

\* write() may write less than it was told, on a disk that fills up; only a
\* negative result counts as a failure.
WriteData ==
    /\ at = "data"
    /\ \/ /\ disk' = Written(First(scan) + Header, scan.size - Header,
                             [by |-> scan.no, part |-> "data"])
          /\ UNCHANGED <<scan, faults>>
       \/ \E m \in 0 .. scan.size - Header - 1 :
              /\ Fault
              /\ disk' = Written(First(scan) + Header, m,
                                 [by |-> scan.no, part |-> "data"])
              /\ scan' = [scan EXCEPT !.short = TRUE]
    /\ at' = "fill"
    /\ UNCHANGED <<file, boot, seen, written, calls>>

Rest(s) == (s.last - s.start + 1) * PerRec - s.size

\* The last record is filled up; on a full disk that fails.
Fill ==
    /\ at = "fill" /\ at' = "idle"
    /\ \/ /\ Rest(scan) = 0
          /\ written' = written \cup {scan}
          /\ UNCHANGED disk
       \/ /\ Rest(scan) > 0 /\ ~ scan.short
          /\ disk' = Written(First(scan) + scan.size, Rest(scan),
                             [by |-> scan.no, part |-> "fill"])
          /\ written' = written \cup {scan}
       \/ /\ Rest(scan) > 0 /\ scan.short
          /\ UNCHANGED <<disk, written>>
    /\ UNCHANGED <<file, boot, scan, seen, calls, faults>>

\* A write fails and write_sdd() returns, or the program ends between two.
Stop ==
    /\ at \in {"dir", "header", "data", "fill"} /\ Fault
    /\ at' = "idle"
    /\ UNCHANGED <<file, boot, disk, scan, seen, written, calls>>

-------------------------------------------------------------------------------
(* verify_sdd(), and other programs that read the file *)

\* Fault for the mutation checks: the entry after the last is read.
PastLast(n) == EntryUnit(n)

LastEntry(n) == EntryUnit(n - 1)

\* known is history: the scan of the last entry, if it has been written.
ReadBoot ==
    /\ file = "ready" /\ seen.at \in {"no", "entry"}
    /\ seen' = [at |-> IF boot.entries = 0 \/ Full THEN "no" ELSE "boot",
                n |-> boot.entries, entry |-> Zero,
                known |-> {s \in written : s.k = boot.entries - 1}]
    /\ UNCHANGED <<file, boot, disk, at, scan, written, calls, faults>>

ReadEntry ==
    /\ seen.at = "boot"
    /\ seen' = [seen EXCEPT !.at = "entry", !.entry = disk[LastEntry(seen.n)]]
    /\ UNCHANGED <<file, boot, disk, at, scan, written, calls, faults>>

-------------------------------------------------------------------------------
Init ==
    /\ file = "none" /\ boot = NoBoot /\ disk = [u \in Units |-> Zero]
    /\ at = "idle" /\ scan = NoScan /\ seen = NotSeen
    /\ written = {} /\ calls = 0 /\ faults = 0

Next ==
    \/ NewSdd \/ (\E d \in Lengths : WriteBoot(d))
    \/ WriteDir \/ WriteHeader \/ WriteData \/ Fill \/ Stop
    \/ ReadBoot \/ ReadEntry

Spec == Init /\ [][Next]_vars

-------------------------------------------------------------------------------
(* Properties *)

Scan == [no : Nat, k : Nat, start : Nat, last : Nat, size : Nat, short : BOOLEAN]

\* Every variable stays in its type.
TypeOK ==
    /\ file \in {"none", "empty", "ready"}
    /\ boot \in Boot /\ disk \in [Units -> Content]
    /\ at \in {"idle", "dir", "header", "data", "fill"}
    /\ scan \in Scan
    /\ seen \in [at : {"no", "boot", "entry"}, n : Nat, entry : Content,
                 known : SUBSET Scan]
    /\ written \subseteq Scan
    /\ calls \in 0 .. MaxCalls /\ faults \in 0 .. MaxFaults

\* The entry of a scan, its header and its data are on disk.
Whole(s) ==
    /\ disk[EntryUnit(s.k)] = Entry(s)
    /\ \A u \in First(s) .. First(s) + s.size - 1 :
           disk[u] = [by |-> s.no,
                      part |-> IF u < First(s) + Header THEN "header" ELSE "data"]

\* A scan that write_sdd() reported written stays there whole, whatever later
\* calls, failures and crashes do, up to the MAX_SCANS the file was made for;
\* excepted is a scan of which write() took less than it was told.
ScansKept ==
    /\ TypeOK
    /\ boot.entries <= MaxScans => \A s \in written : s.short \/ Whole(s)

\* verify_sdd() finds the last scan if that was finished when it read the boot
\* record, also if another is being written while it goes on to the directory.
VerifyFindsLast ==
    seen.at = "entry" => \A s \in seen.known : seen.entry = Entry(s)
=============================================================================
