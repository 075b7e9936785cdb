---------------------------- MODULE ProcManProofs ----------------------------
(***************************************************************************)
(* The safety of ProcMan for any list of programs, process ids, deaths,    *)
(* crashes, strangers and commands.  Sane is inductive by itself; Kept,    *)
(* Whole and Calm are inductive relative to it.                            *)
(***************************************************************************)
EXTENDS ProcMan, TLAPS

USE ProcManAssumption DEF ProcManAssumption

\* What ended and is not waited for still has its process id.
ZombiesHoldPids == \A p \in zombies : table[p] # Free

\* Where procman is: the entry it works on exists, is empty before a start,
\* and between two commands the file is up to date.
Place ==
    /\ at \in {"start", "restart", "kill"} => i \in DOMAIN procs
    /\ (at \in {"save", "write"} /\ todo = "init") => i \in DOMAIN procs
    /\ at = "start" => procs[i].pid = None
    /\ at \in {"init", "ui"} => file = procs
    /\ Len(procs) <= Len(Programs) /\ Len(file) <= Len(Programs)

Sane == TypeOK /\ ZombiesHoldPids /\ Place

\* Every running program has its entry in a list.
Recorded(list) ==
    \A p \in Pids : \A name \in Names :
        Running(p, name) => Entries(list, p, name) # {}

\* Until procman is killed, what runs is in memory, and when memory is gone it
\* is in the file.
Kept ==
    crashes = 0 => /\ at # "down" => Recorded(procs)
                   /\ at = "down" => Recorded(file)

\* The list is whole unless it was cut.
Whole ==
    ~ cut => /\ at # "down" => Len(procs) = Len(Programs)
             /\ at # "write" => Len(file) = Len(Programs)

\* The process ids of a list are those of its programs, each its own.
Own(list) ==
    /\ \A j \in DOMAIN list :
           list[j].pid # None =>
               table[list[j].pid] = list[j].name /\ list[j].pid \notin zombies
    /\ \A j, k \in DOMAIN list :
           (j # k /\ list[j].pid # None) => list[j].pid # list[k].pid

\* As long as nothing died by itself and procman was not killed.
Calm ==
    (deaths = 0 /\ crashes = 0) =>
        /\ at # "down" => Own(procs)
        /\ at = "down" => Own(file)
        /\ ~ slain

-------------------------------------------------------------------------------
(* The parts of the actions *)

\* Another process id in the entry that procman works on.
LEMMA SetPid ==
    ASSUME procs \in Seq(Proc), i \in DOMAIN procs,
           NEW pid \in Pids \cup {None},
           procs' = [procs EXCEPT ![i].pid = pid]
    PROVE  /\ procs' \in Seq(Proc) /\ DOMAIN procs' = DOMAIN procs
           /\ Len(procs') = Len(procs)
           /\ procs'[i] = [name |-> procs[i].name, pid |-> pid]
           /\ \A k \in DOMAIN procs : k # i => procs'[k] = procs[k]
  <1> DEFINE entry == [name |-> procs[i].name, pid |-> pid]
  <1>1. procs[i] \in Proc
    OBVIOUS
  <1>2. [procs[i] EXCEPT !.pid = pid] = entry
    BY <1>1 DEF Proc
  <1>3. entry \in Proc
    BY <1>1 DEF Proc
  <1>4. procs' = [procs EXCEPT ![i] = entry]
    BY <1>2
  <1> HIDE DEF entry
  <1>5. /\ procs' \in Seq(Proc) /\ Len(procs') = Len(procs)
        /\ DOMAIN procs' = DOMAIN procs
    BY <1>3, <1>4
  <1>6. procs'[i] = entry /\ \A k \in DOMAIN procs : k # i => procs'[k] = procs[k]
    BY <1>4
  <1>7. QED
    BY <1>5, <1>6 DEF entry

\* An entry of the list has a program and perhaps a process id.
LEMMA EntryOf ==
    ASSUME procs \in Seq(Proc), NEW j \in DOMAIN procs
    PROVE  procs[j].name \in Names /\ procs[j].pid \in Pids \cup {None}
  <1>1. procs[j] \in Proc
    OBVIOUS
  <1>2. QED
    BY <1>1 DEF Proc

\* None is no process id, and neither Free nor Stranger a program.
LEMMA Distinct ==
    /\ None \notin Pids
    /\ \A name \in Names : name # Free /\ name # Stranger
  BY DEF None

\* kill_proc() of one entry: its process is gone, or a zombie; the others are
\* left alone.
LEMMA KillEntry ==
    ASSUME TypeOK, ZombiesHoldPids, NEW pid \in Pids \cup {None},
           IF IsRunning(pid) THEN Signal(pid) ELSE UNCHANGED <<table, zombies, slain>>,
           UNCHANGED children
    PROVE  /\ table' \in [Pids -> Names \cup {Free, Stranger}]
           /\ zombies' \subseteq children'
           /\ ZombiesHoldPids'
           /\ \A p \in Pids, name \in Names :
                  Running(p, name)' => Running(p, name) /\ p # pid
           /\ \A p \in Pids \ {pid} :
                  table'[p] = table[p] /\ (p \in zombies' <=> p \in zombies)
           /\ slain' \in BOOLEAN
           /\ slain' => slain \/ (pid \in Pids /\ table[pid] = Stranger)
  <1>1. CASE IsRunning(pid)
    <2>1. pid \in Pids /\ table[pid] # Free
      BY <1>1 DEF IsRunning
    <2>2. slain' = (slain \/ table[pid] = Stranger)
      BY <1>1 DEF Signal
    <2>3. CASE pid \in zombies
      <3>1. zombies' = zombies /\ table' = [p \in Pids |-> table[p]]
        BY <1>1, <2>3 DEF Signal, End
      <3>2. table' = table
        BY <3>1 DEF TypeOK
      <3>3. QED
        BY <2>1, <2>2, <2>3, <3>1, <3>2 DEF TypeOK, ZombiesHoldPids, Running
    <2>4. CASE pid \notin zombies
      <3>1. /\ zombies' = zombies \cup ({pid} \cap children)
            /\ table' = [p \in Pids |-> IF p \in {pid} \ children THEN Free ELSE table[p]]
        BY <1>1, <2>4 DEF Signal, End
      <3>2. \A p \in Pids, name \in Names :
                Running(p, name)' => Running(p, name) /\ p # pid
        BY <2>1, <3>1, Distinct DEF TypeOK, Running
      <3>3. /\ table' \in [Pids -> Names \cup {Free, Stranger}]
            /\ zombies' \subseteq children'
            /\ ZombiesHoldPids'
        BY <2>1, <3>1 DEF TypeOK, ZombiesHoldPids
      <3>4. \A p \in Pids \ {pid} :
                table'[p] = table[p] /\ (p \in zombies' <=> p \in zombies)
        BY <3>1
      <3>5. QED
        BY <2>1, <2>2, <3>2, <3>3, <3>4 DEF TypeOK
    <2>5. QED
      BY <2>3, <2>4
  <1>2. CASE ~ IsRunning(pid)
    <2>1. UNCHANGED <<table, zombies, slain>>
      BY <1>2
    <2>2. pid = None \/ table[pid] = Free
      BY <1>2 DEF IsRunning
    <2>3. QED
      BY <2>1, <2>2, Distinct DEF TypeOK, ZombiesHoldPids, Running
  <1>3. QED
    BY <1>1, <1>2

\* The zombies are waited for, by procman or, when it is gone, by init.
LEMMA FreeZombies ==
    ASSUME TypeOK, zombies' = {},
           table' = [p \in Pids |-> IF p \in zombies THEN Free ELSE table[p]]
    PROVE  /\ table' \in [Pids -> Names \cup {Free, Stranger}]
           /\ ZombiesHoldPids'
           /\ \A p \in Pids, name \in Names : Running(p, name)' => Running(p, name)
           /\ \A p \in Pids \ zombies : table'[p] = table[p]
  BY Distinct DEF TypeOK, ZombiesHoldPids, Running

-------------------------------------------------------------------------------
(* Types and places *)

\* procman begins with a list that has no process ids.
LEMMA InitSane == Init => Sane
  <1> SUFFICES ASSUME Init PROVE Sane
    OBVIOUS
  <1>1. file \in Seq(Proc) /\ Len(file) = Len(Programs)
    <2>1. \A j \in 1 .. Len(Programs) : [name |-> Programs[j], pid |-> None] \in Proc
      BY DEF Proc, Names
    <2>2. DOMAIN Programs = 1 .. Len(Programs) /\ Len(Programs) \in Nat
      OBVIOUS
    <2>3. QED
      BY <2>1, <2>2 DEF Init
  <1>2. procs = <<>> /\ procs \in Seq(Proc) /\ Len(procs) = 0 /\ Len(Programs) \in Nat
    BY DEF Init
  <1>3. /\ table \in [Pids -> Names \cup {Free, Stranger}]
        /\ zombies \subseteq children /\ children \subseteq Pids
    BY DEF Init
  <1>4. at = "down" /\ i = 1 /\ i \in 1 .. Len(Programs) + 1 /\ todo = "init"
    BY <1>2 DEF Init
  <1>5. /\ deaths \in 0 .. MaxDeaths /\ crashes \in 0 .. MaxCrashes
        /\ strangers \in 0 .. MaxStrangers /\ commands \in 0 .. MaxCommands
    BY DEF Init
  <1>6. cut \in BOOLEAN /\ slain \in BOOLEAN
    BY DEF Init
  <1>7. TypeOK
    BY <1>1, <1>2, <1>3, <1>4, <1>5, <1>6 DEF TypeOK
  <1>8. ZombiesHoldPids
    BY DEF Init, ZombiesHoldPids
  <1>9. Place
    BY <1>1, <1>2, <1>4 DEF Place
  <1>10. QED
    BY <1>7, <1>8, <1>9 DEF Sane

\* A program that dies leaves procman where it is.
LEMMA DieSane ==
    ASSUME Sane, NEW p \in Pids, Die(p)
    PROVE  Sane'
  <1>1. /\ table[p] \in Names /\ p \notin zombies
        /\ zombies' = zombies \cup ({p} \cap children)
        /\ table' = [q \in Pids |-> IF q \in {p} \ children THEN Free ELSE table[q]]
    BY DEF Die, End
  <1>2. ZombiesHoldPids'
    BY <1>1, Distinct DEF Sane, TypeOK, ZombiesHoldPids
  <1>3. /\ table' \in [Pids -> Names \cup {Free, Stranger}]
        /\ zombies' \subseteq children'
    BY <1>1 DEF Sane, TypeOK, Die
  <1>4. TypeOK'
    BY <1>3 DEF Sane, TypeOK, Die
  <1>5. QED
    BY <1>2, <1>4 DEF Sane, Place, Die

\* So does a stranger.
LEMMA NewStrangerSane ==
    ASSUME Sane, NEW p \in Pids, NewStranger(p)
    PROVE  Sane'
  <1>1. table' = [table EXCEPT ![p] = Stranger]
    BY DEF NewStranger
  <1>2. table' \in [Pids -> Names \cup {Free, Stranger}]
    BY <1>1 DEF Sane, TypeOK
  <1>3. ZombiesHoldPids'
    BY <1>1 DEF Sane, TypeOK, ZombiesHoldPids, NewStranger
  <1>4. TypeOK'
    BY <1>2 DEF Sane, TypeOK, NewStranger
  <1>5. QED
    BY <1>3, <1>4 DEF Sane, Place, NewStranger

\* When procman ends, by itself or not, nobody is its child any more.
LEMMA CrashSane ==
    ASSUME Sane, Crash
    PROVE  Sane'
  <1>1. /\ table' \in [Pids -> Names \cup {Free, Stranger}]
        /\ ZombiesHoldPids'
    BY FreeZombies DEF Sane, Crash, Exited
  <1>2. TypeOK'
    BY <1>1 DEF Sane, TypeOK, Crash, Exited
  <1>3. QED
    BY <1>1, <1>2 DEF Sane, Place, Crash, Exited

\* What is loaded has the file's types, and procman begins with its first entry.
LEMMA LoadSane ==
    ASSUME Sane, Load
    PROVE  Sane'
  <1>1. 1 \in 1 .. Len(Programs) + 1
    OBVIOUS
  <1>2. TypeOK'
    BY <1>1 DEF Sane, TypeOK, Load, kernel
  <1>3. QED
    BY <1>2 DEF Sane, ZombiesHoldPids, Place, Load, kernel

\* init_processes() goes on to an entry only if there is one.
LEMMA InitNextSane ==
    ASSUME Sane, InitNext
    PROVE  Sane'
  <1>1. /\ Len(procs) \in Nat /\ Len(procs) <= Len(Programs) /\ Len(Programs) \in Nat
        /\ DOMAIN procs = 1 .. Len(procs) /\ i \in 1 .. Len(Programs) + 1
    BY DEF Sane, TypeOK, Place
  <1>2. i' \in 1 .. Len(Programs) + 1
    BY <1>1 DEF InitNext
  <1>3. TypeOK'
    BY <1>2 DEF Sane, TypeOK, InitNext, kernel, counts
  <1>4. Place'
    BY <1>1 DEF Sane, Place, InitNext
  <1>5. QED
    BY <1>3, <1>4 DEF Sane, ZombiesHoldPids, InitNext, kernel

\* A start gives the entry a process id that was free.
LEMMA StartSane ==
    ASSUME Sane, Start
    PROVE  Sane'
  <1>0. i \in DOMAIN procs /\ procs \in Seq(Proc)
    BY DEF Sane, TypeOK, Place, Start
  <1>1. i \in DOMAIN procs /\ procs \in Seq(Proc) /\ procs[i].name \in Names
    BY <1>0, EntryOf
  <1>2. CASE UNCHANGED <<table, children, procs>>
    BY <1>2 DEF Sane, TypeOK, ZombiesHoldPids, Place, Start, counts
  <1>3. ASSUME NEW p \in Pids, table[p] = Free,
               table' = [table EXCEPT ![p] = procs[i].name],
               children' = children \cup {p}, Stored(p)
        PROVE  Sane'
    <2>0. procs' = [procs EXCEPT ![i].pid = p] /\ p \in Pids \cup {None}
      BY <1>3 DEF Stored
    <2>1. /\ procs' \in Seq(Proc) /\ Len(procs') = Len(procs)
          /\ DOMAIN procs' = DOMAIN procs
      BY <1>0, <2>0, SetPid
    <2>2. table' \in [Pids -> Names \cup {Free, Stranger}]
      BY <1>1, <1>3 DEF Sane, TypeOK
    <2>3. ZombiesHoldPids'
      BY <1>3 DEF Sane, TypeOK, ZombiesHoldPids, Start
    <2>4. TypeOK'
      BY <1>3, <2>1, <2>2 DEF Sane, TypeOK, Start, counts
    <2>5. Place'
      BY <1>1, <2>1 DEF Sane, Place, Start
    <2>6. QED
      BY <2>3, <2>4, <2>5 DEF Sane
  <1>4. QED
    BY <1>2, <1>3 DEF Start

\* The file is emptied before it is written.
LEMMA SaveOpenSane ==
    ASSUME Sane, SaveOpen
    PROVE  Sane'
  <1>1. <<>> \in Seq(Proc) /\ Len(<<>>) <= Len(Programs)
    OBVIOUS
  <1>2. TypeOK'
    BY <1>1 DEF Sane, TypeOK, SaveOpen, kernel, counts
  <1>3. QED
    BY <1>1, <1>2 DEF Sane, ZombiesHoldPids, Place, SaveOpen, kernel

\* The file has what memory has; after a start the next entry follows.
LEMMA SaveWriteSane ==
    ASSUME Sane, SaveWrite
    PROVE  Sane'
  <1>1. file' = procs /\ UNCHANGED <<procs, todo, counts, cut, slain>>
    BY DEF SaveWrite
  <1>2. CASE todo = "init" /\ at' = "init" /\ i' = i + 1 /\ UNCHANGED kernel
    <2>1. /\ Len(procs) \in Nat /\ Len(procs) <= Len(Programs) /\ Len(Programs) \in Nat
          /\ DOMAIN procs = 1 .. Len(procs) /\ i \in DOMAIN procs
      BY <1>2 DEF Sane, TypeOK, Place, SaveWrite
    <2>2. i' \in 1 .. Len(Programs) + 1
      BY <1>2, <2>1
    <2>3. TypeOK'
      BY <1>1, <1>2, <2>2 DEF Sane, TypeOK, kernel, counts
    <2>4. QED
      BY <1>1, <1>2, <2>3 DEF Sane, ZombiesHoldPids, Place, kernel
  <1>3. CASE todo = "ui" /\ at' = "ui" /\ UNCHANGED <<i, kernel>>
    BY <1>1, <1>3 DEF Sane, TypeOK, ZombiesHoldPids, Place, kernel, counts
  <1>4. CASE todo = "exit" /\ Exited /\ UNCHANGED i
    <2>1. /\ table' \in [Pids -> Names \cup {Free, Stranger}]
          /\ ZombiesHoldPids'
      BY <1>4, FreeZombies DEF Sane, Exited
    <2>2. TypeOK'
      BY <1>1, <1>4, <2>1 DEF Sane, TypeOK, Exited, counts
    <2>3. QED
      BY <1>1, <1>4, <2>1, <2>2 DEF Sane, Place, Exited
  <1>5. QED
    BY <1>2, <1>3, <1>4 DEF SaveWrite

\* A kill empties the entry it is for.
LEMMA KillSane ==
    ASSUME Sane, NEW then \in {"start", "save"}, i \in DOMAIN procs, Kill(then),
           then = "save" => todo # "init" \/ at = "kill"
    PROVE  Sane'
  <1>0. procs \in Seq(Proc) /\ None \in Pids \cup {None}
    BY DEF Sane, TypeOK
  <1>1. procs[i].pid \in Pids \cup {None}
    BY <1>0, EntryOf
  <1>2. /\ IF IsRunning(procs[i].pid) THEN Signal(procs[i].pid)
           ELSE UNCHANGED <<table, zombies, slain>>
        /\ procs' = [procs EXCEPT ![i].pid = None]
        /\ at' = then
        /\ UNCHANGED <<children, file, i, todo, counts, cut>>
    BY DEF Kill, KillStoring
  <1>3. /\ procs' \in Seq(Proc) /\ Len(procs') = Len(procs)
        /\ DOMAIN procs' = DOMAIN procs /\ procs'[i].pid = None
    <2>1. procs' = [procs EXCEPT ![i].pid = None]
      BY <1>2
    <2>2. QED
      BY <1>0, <2>1, SetPid
  <1>4. /\ table' \in [Pids -> Names \cup {Free, Stranger}]
        /\ zombies' \subseteq children' /\ ZombiesHoldPids' /\ slain' \in BOOLEAN
    BY <1>1, <1>2, KillEntry DEF Sane
  <1>5. TypeOK'
    BY <1>2, <1>3, <1>4 DEF Sane, TypeOK, counts
  <1>6. Place'
    BY <1>2, <1>3 DEF Sane, Place
  <1>7. QED
    BY <1>4, <1>5, <1>6 DEF Sane

\* Killing all goes past the last entry and no further.
LEMMA KillAllSane ==
    ASSUME Sane, KillAll
    PROVE  Sane'
  <1>1. CASE i > Len(procs)
    BY <1>1 DEF Sane, TypeOK, ZombiesHoldPids, Place, KillAll, counts
  <1>2. CASE ~ (i > Len(procs))
    <2>1. /\ Len(procs) \in Nat /\ Len(procs) <= Len(Programs) /\ Len(Programs) \in Nat
          /\ i \in DOMAIN procs /\ i \in 1 .. Len(procs)
      BY <1>2 DEF Sane, TypeOK, Place
    <2>0. procs \in Seq(Proc) /\ None \in Pids \cup {None}
      BY DEF Sane, TypeOK
    <2>2. procs[i].pid \in Pids \cup {None}
      BY <2>0, <2>1, EntryOf
    <2>3. /\ IF IsRunning(procs[i].pid) THEN Signal(procs[i].pid)
             ELSE UNCHANGED <<table, zombies, slain>>
          /\ procs' = [procs EXCEPT ![i].pid = None]
          /\ i' = i + 1 /\ at = "killall"
          /\ UNCHANGED <<at, todo, children, file, counts, cut>>
      BY <1>2 DEF KillAll
    <2>4. procs' \in Seq(Proc) /\ Len(procs') = Len(procs)
      <3>1. procs' = [procs EXCEPT ![i].pid = None] /\ i \in DOMAIN procs
        BY <2>1, <2>3
      <3>2. QED
        BY <2>0, <3>1, SetPid
    <2>5. /\ table' \in [Pids -> Names \cup {Free, Stranger}]
          /\ zombies' \subseteq children' /\ ZombiesHoldPids' /\ slain' \in BOOLEAN
      BY <2>2, <2>3, KillEntry DEF Sane
    <2>6. i' \in 1 .. Len(Programs) + 1
      BY <2>1, <2>3
    <2>7. TypeOK'
      BY <2>3, <2>4, <2>5, <2>6 DEF Sane, TypeOK, counts
    <2>8. QED
      BY <2>3, <2>4, <2>5, <2>7 DEF Sane, Place
  <1>3. QED
    BY <1>1, <1>2

\* The zombies are waited for where procman talks to its user.
LEMMA ReapSane ==
    ASSUME Sane, Reap
    PROVE  Sane'
  <1>1. /\ table' \in [Pids -> Names \cup {Free, Stranger}]
        /\ ZombiesHoldPids'
    BY FreeZombies DEF Sane, Reap
  <1>2. TypeOK'
    BY <1>1 DEF Sane, TypeOK, Reap, counts
  <1>3. QED
    BY <1>1, <1>2 DEF Sane, Place, Reap

\* A command is for an entry that exists.
LEMMA CommandSane ==
    ASSUME Sane, Command
    PROVE  Sane'
  <1>1. i' \in 1 .. Len(Programs) + 1
    <2>1. /\ Len(procs) \in Nat /\ Len(procs) <= Len(Programs) /\ Len(Programs) \in Nat
          /\ DOMAIN procs = 1 .. Len(procs)
      BY DEF Sane, TypeOK, Place
    <2>2. QED
      BY <2>1 DEF Command
  <1>2. TypeOK'
    BY <1>1 DEF Sane, TypeOK, Command, kernel
  <1>3. QED
    BY <1>2 DEF Sane, ZombiesHoldPids, Place, Command, kernel

\* Killing all begins with the first entry; quitting saves.
LEMMA LeaveSane ==
    ASSUME Sane, Leave
    PROVE  Sane'
  <1>1. i' \in 1 .. Len(Programs) + 1
    <2>1. Len(Programs) \in Nat
      OBVIOUS
    <2>2. QED
      BY <2>1 DEF Sane, TypeOK, Leave
  <1>2. TypeOK'
    BY <1>1 DEF Sane, TypeOK, Leave, kernel, counts
  <1>3. QED
    BY <1>2 DEF Sane, ZombiesHoldPids, Place, Leave, kernel

\* Every step keeps the types, the zombies and the place.
LEMMA NextSane == Sane /\ [Next]_vars => Sane'
  <1> SUFFICES ASSUME Sane, [Next]_vars PROVE Sane'
    OBVIOUS
  <1>1. CASE \E p \in Pids : Die(p) \/ NewStranger(p)
    BY <1>1, DieSane, NewStrangerSane
  <1>2. CASE Crash \/ Load \/ Reap \/ Command \/ Leave
    BY <1>2, CrashSane, LoadSane, ReapSane, CommandSane, LeaveSane
  <1>3. CASE InitNext \/ Start \/ SaveOpen \/ SaveWrite \/ KillAll
    BY <1>3, InitNextSane, StartSane, SaveOpenSane, SaveWriteSane, KillAllSane
  <1>4. CASE KillToStart
    BY <1>4, KillSane DEF KillToStart, Sane, Place
  <1>5. CASE KillToSave
    BY <1>5, KillSane DEF KillToSave, Sane, Place
  <1>6. CASE UNCHANGED vars
    BY <1>6 DEF Sane, TypeOK, ZombiesHoldPids, Place, vars, kernel, counts
  <1>7. QED
    BY <1>1, <1>2, <1>3, <1>4, <1>5, <1>6 DEF Next, Work

\* Every variable of procman and of the kernel keeps its type; in particular
\* procman never works on an entry its list does not have.
THEOREM TypeCorrect == Spec => []TypeOK
  <1>1. Sane => TypeOK
    BY DEF Sane
  <1>2. QED
    BY <1>1, InitSane, NextSane, PTL DEF Spec

-------------------------------------------------------------------------------
(* The list is kept *)

\* A start leaves the list as long as it was.
LEMMA StartLen ==
    ASSUME Sane, Start
    PROVE  Len(procs') = Len(procs)
  <1>1. procs \in Seq(Proc) /\ i \in DOMAIN procs
    BY DEF Sane, TypeOK, Place, Start
  <1>2. CASE UNCHANGED procs
    BY <1>2
  <1>3. ASSUME NEW p \in Pids, Stored(p)
        PROVE  Len(procs') = Len(procs)
    <2>1. procs' = [procs EXCEPT ![i].pid = p] /\ p \in Pids \cup {None}
      BY <1>3 DEF Stored
    <2>2. QED
      BY <1>1, <2>1, SetPid
  <1>4. QED
    BY <1>2, <1>3 DEF Start

\* So does a kill.
LEMMA KillLen ==
    ASSUME Sane, i \in DOMAIN procs, procs' = [procs EXCEPT ![i].pid = None]
    PROVE  Len(procs') = Len(procs)
  <1>1. procs \in Seq(Proc) /\ None \in Pids \cup {None}
    BY DEF Sane, TypeOK
  <1>2. QED
    BY <1>1, SetPid

\* So does a step of killing all.
LEMMA KillAllLen ==
    ASSUME Sane, KillAll
    PROVE  Len(procs') = Len(procs)
  <1>1. CASE i > Len(procs)
    BY <1>1 DEF KillAll
  <1>2. CASE ~ (i > Len(procs))
    <2>1. i \in DOMAIN procs
      BY <1>2 DEF Sane, TypeOK
    <2>2. procs' = [procs EXCEPT ![i].pid = None]
      BY <1>2 DEF KillAll
    <2>3. QED
      BY <2>1, <2>2, KillLen
  <1>3. QED
    BY <1>1, <1>2

\* procman begins with a whole list and nothing running.
LEMMA InitWhole == Init => Whole
  BY DEF Init, Whole

\* The list in memory never gets shorter, and the file does only while it is
\* being written.
LEMMA NextWhole == Sane /\ Whole /\ [Next]_vars => Whole'
  <1> SUFFICES ASSUME Sane, Whole, [Next]_vars PROVE Whole'
    OBVIOUS
  <1>1. CASE \E p \in Pids : Die(p) \/ NewStranger(p)
    BY <1>1 DEF Whole, Die, NewStranger
  <1>2. CASE Crash
    BY <1>2 DEF Whole, Crash, Exited
  <1>3. CASE Load \/ InitNext \/ Reap \/ Leave \/ UNCHANGED vars
    BY <1>3 DEF Whole, Load, InitNext, Reap, Leave, vars, counts
  <1>4. CASE Command
    BY <1>4 DEF Whole, Command
  <1>5. CASE SaveOpen \/ SaveWrite
    BY <1>5 DEF Whole, SaveOpen, SaveWrite, Exited
  <1>6. CASE Start
    BY <1>6, StartLen DEF Whole, Start
  <1>7. CASE KillToStart \/ KillToSave
    BY <1>7, KillLen DEF Whole, KillToStart, KillToSave, Kill, KillStoring
  <1>8. CASE KillAll
    BY <1>8, KillAllLen DEF Whole, KillAll
  <1>9. QED
    BY <1>1, <1>2, <1>3, <1>4, <1>5, <1>6, <1>7, <1>8 DEF Next, Work

\* Nothing runs before procman does.
LEMMA InitKept == Init => Kept
  BY Distinct DEF Init, Kept, Recorded, Running

\* A program that runs after a start is the new one, or ran before.
LEMMA StartKept ==
    ASSUME Sane, Kept, Start
    PROVE  Kept'
  <1> SUFFICES ASSUME crashes = 0 PROVE Recorded(procs)'
    BY DEF Kept, Start, counts
  <1>1. Recorded(procs)
    BY DEF Kept, Start
  <1>2. CASE UNCHANGED <<table, children, procs>>
    BY <1>1, <1>2 DEF Recorded, Running, Entries, Start
  <1>3. ASSUME NEW p \in Pids, table' = [table EXCEPT ![p] = procs[i].name], Stored(p)
        PROVE  Recorded(procs)'
    <2>1. procs \in Seq(Proc) /\ i \in DOMAIN procs /\ procs[i].pid = None
      BY DEF Sane, TypeOK, Place, Start
    <2>2. procs' = [procs EXCEPT ![i].pid = p] /\ p \in Pids \cup {None}
      BY <1>3 DEF Stored
    <2>3. /\ DOMAIN procs' = DOMAIN procs
          /\ procs'[i] = [name |-> procs[i].name, pid |-> p]
          /\ \A k \in DOMAIN procs : k # i => procs'[k] = procs[k]
      BY <2>1, <2>2, SetPid
    <2>4. SUFFICES ASSUME NEW q \in Pids, NEW name \in Names, Running(q, name)'
                   PROVE  Entries(procs, q, name)' # {}
      BY DEF Recorded
    <2>5. CASE q = p
      <3>1. name = procs[i].name
        BY <1>3, <2>4, <2>5 DEF Sane, TypeOK, Running
      <3>2. i \in Entries(procs, q, name)'
        BY <2>1, <2>3, <2>5, <3>1 DEF Entries
      <3>3. QED
        BY <3>2
    <2>6. CASE q # p
      <3>1. Running(q, name)
        BY <1>3, <2>4, <2>6 DEF Sane, TypeOK, Running, Start
      <3>2. PICK j \in DOMAIN procs : procs[j] = [name |-> name, pid |-> q]
        BY <1>1, <3>1 DEF Recorded, Entries
      <3>3. j # i
        BY <2>1, <3>2, Distinct
      <3>4. j \in Entries(procs, q, name)'
        BY <2>3, <3>2, <3>3 DEF Entries
      <3>5. QED
        BY <3>4
    <2>7. QED
      BY <2>5, <2>6
  <1>4. QED
    BY <1>2, <1>3 DEF Start

\* The process of the entry that is emptied does not run any more.
LEMMA EmptiedRecorded ==
    ASSUME Sane, Recorded(procs), i \in DOMAIN procs,
           IF IsRunning(procs[i].pid) THEN Signal(procs[i].pid)
           ELSE UNCHANGED <<table, zombies, slain>>,
           procs' = [procs EXCEPT ![i].pid = None],
           UNCHANGED children
    PROVE  Recorded(procs)'
  <1>1. procs \in Seq(Proc) /\ None \in Pids \cup {None}
    BY DEF Sane, TypeOK
  <1>2. procs[i].pid \in Pids \cup {None}
    BY <1>1, EntryOf
  <1>3. \A p \in Pids, name \in Names :
            Running(p, name)' => Running(p, name) /\ p # procs[i].pid
    BY <1>2, KillEntry DEF Sane
  <1>4. /\ DOMAIN procs' = DOMAIN procs
        /\ \A k \in DOMAIN procs : k # i => procs'[k] = procs[k]
    BY <1>1, SetPid
  <1>5. SUFFICES ASSUME NEW q \in Pids, NEW name \in Names, Running(q, name)'
                 PROVE  Entries(procs, q, name)' # {}
    BY DEF Recorded
  <1>6. Running(q, name) /\ q # procs[i].pid
    BY <1>3, <1>5
  <1>7. PICK j \in DOMAIN procs : procs[j] = [name |-> name, pid |-> q]
    BY <1>6 DEF Recorded, Entries
  <1>8. j # i
    BY <1>6, <1>7
  <1>9. j \in Entries(procs, q, name)'
    BY <1>4, <1>7, <1>8 DEF Entries
  <1>10. QED
    BY <1>9

\* No step of procman loses a program that runs.
LEMMA NextKept == Sane /\ Kept /\ [Next]_vars => Kept'
  <1> SUFFICES ASSUME Sane, Kept, [Next]_vars PROVE Kept'
    OBVIOUS
  <1>1. ASSUME NEW p \in Pids, Die(p) \/ NewStranger(p)
        PROVE  Kept'
    <2>1. \A q \in Pids, name \in Names : Running(q, name)' => Running(q, name)
      BY <1>1, Distinct DEF Sane, TypeOK, Die, End, NewStranger, Running
    <2>2. UNCHANGED <<file, procs, at, crashes>>
      BY <1>1 DEF Die, NewStranger
    <2>3. QED
      BY <2>1, <2>2 DEF Kept, Recorded, Entries
  <1>2. CASE Crash
    BY <1>2 DEF Sane, TypeOK, Kept, Crash
  <1>3. CASE Load
    BY <1>3 DEF Kept, Recorded, Entries, Running, Load, kernel
  <1>4. CASE InitNext \/ SaveOpen \/ Command \/ Leave \/ UNCHANGED vars
    BY <1>4 DEF Kept, Recorded, Entries, Running, InitNext, SaveOpen, Command,
                Leave, vars, kernel, counts
  <1>5. CASE Reap
    <2>1. \A p \in Pids, name \in Names : Running(p, name)' => Running(p, name)
      BY <1>5, FreeZombies DEF Sane, Reap
    <2>2. QED
      BY <1>5, <2>1 DEF Kept, Recorded, Entries, Reap, counts
  <1>6. CASE SaveWrite
    <2>1. \A p \in Pids, name \in Names : Running(p, name)' => Running(p, name)
      <3>1. CASE UNCHANGED kernel
        BY <3>1 DEF kernel, Running
      <3>2. CASE Exited
        BY <3>2, FreeZombies DEF Sane, Exited
      <3>3. QED
        BY <1>6, <3>1, <3>2 DEF SaveWrite
    <2>2. at # "down" /\ file' = procs /\ procs' = procs /\ crashes' = crashes
      BY <1>6 DEF SaveWrite, counts
    <2>3. QED
      BY <2>1, <2>2 DEF Kept, Recorded, Entries
  <1>7. CASE KillToStart \/ KillToSave
    <2>1. /\ at # "down" /\ at' # "down" /\ i \in DOMAIN procs /\ crashes' = crashes
          /\ IF IsRunning(procs[i].pid) THEN Signal(procs[i].pid)
             ELSE UNCHANGED <<table, zombies, slain>>
          /\ procs' = [procs EXCEPT ![i].pid = None] /\ UNCHANGED children
      BY <1>7 DEF Sane, Place, KillToStart, KillToSave, Kill, KillStoring, counts
    <2>2. Recorded(procs) => Recorded(procs)'
      BY <2>1, EmptiedRecorded
    <2>3. QED
      BY <2>1, <2>2 DEF Kept
  <1>8. CASE KillAll
    <2>1. at # "down" /\ at' # "down" /\ crashes' = crashes
      BY <1>8 DEF KillAll, counts
    <2>2. Recorded(procs) => Recorded(procs)'
      <3>1. CASE i > Len(procs)
        BY <1>8, <3>1 DEF KillAll, Recorded, Entries, Running
      <3>2. CASE ~ (i > Len(procs))
        <4>1. i \in DOMAIN procs
          BY <3>2 DEF Sane, TypeOK
        <4>2. /\ IF IsRunning(procs[i].pid) THEN Signal(procs[i].pid)
                 ELSE UNCHANGED <<table, zombies, slain>>
              /\ procs' = [procs EXCEPT ![i].pid = None] /\ UNCHANGED children
          BY <1>8, <3>2 DEF KillAll
        <4>3. QED
          BY <4>1, <4>2, EmptiedRecorded
      <3>3. QED
        BY <3>1, <3>2
    <2>3. QED
      BY <2>1, <2>2 DEF Kept
  <1>9. CASE Start
    BY <1>9, StartKept
  <1>10. QED
    BY <1>1, <1>2, <1>3, <1>4, <1>5, <1>6, <1>7, <1>8, <1>9 DEF Next, Work

\* The list says what runs until procman is killed, and is whole unless it was
\* killed while it wrote it.
LEMMA KeptListKept == Sane /\ Kept /\ Whole => ListKept
  <1> SUFFICES ASSUME Sane, Kept, Whole PROVE ListKept
    OBVIOUS
  <1>1. EveryProcessRecorded
    BY DEF Sane, Place, Kept, Recorded, EveryProcessRecorded
  <1>2. FileKeepsList
    BY DEF Sane, Place, Whole, FileKeepsList
  <1>3. QED
    BY <1>1, <1>2 DEF ListKept

\* procman never starts a program twice and never loses one it started, until
\* it is killed, and its file keeps every program unless it is killed while it
\* writes it.
THEOREM ListStaysKept == Spec => []ListKept
  <1>1. Init => Sane /\ Kept /\ Whole
    BY InitSane, InitKept, InitWhole
  <1>2. Sane /\ Kept /\ Whole /\ [Next]_vars => (Sane /\ Kept /\ Whole)'
    BY NextSane, NextKept, NextWhole
  <1>3. QED
    BY <1>1, <1>2, KeptListKept, PTL DEF Spec

-------------------------------------------------------------------------------
(* Strangers are spared *)

\* What runs and is not a zombie is left alone by everything but a death and a
\* kill: then a list that has only its own goes on to.
LEMMA StillOwn ==
    ASSUME NEW list \in Seq(Proc), Own(list),
           \A p \in Pids :
               (table[p] \in Names /\ p \notin zombies) =>
                   table'[p] = table[p] /\ p \notin zombies'
    PROVE  /\ \A j \in DOMAIN list :
                  list[j].pid # None =>
                      table'[list[j].pid] = list[j].name /\ list[j].pid \notin zombies'
           /\ \A j, k \in DOMAIN list :
                  (j # k /\ list[j].pid # None) => list[j].pid # list[k].pid
  <1>1. ASSUME NEW j \in DOMAIN list, list[j].pid # None
        PROVE  table'[list[j].pid] = list[j].name /\ list[j].pid \notin zombies'
    <2>1. list[j] \in Proc
      OBVIOUS
    <2>2. list[j].pid \in Pids /\ list[j].name \in Names
      BY <1>1, <2>1 DEF Proc
    <2>3. table[list[j].pid] = list[j].name /\ list[j].pid \notin zombies
      BY <1>1 DEF Own
    <2>4. QED
      BY <2>2, <2>3
  <1>2. QED
    BY <1>1 DEF Own

\* A start takes a process id that no other entry has.
LEMMA StartOwn ==
    ASSUME Sane, Own(procs), Start
    PROVE  Own(procs)'
  <1>1. procs \in Seq(Proc) /\ i \in DOMAIN procs /\ procs[i].pid = None
    BY DEF Sane, TypeOK, Place, Start
  <1>2. CASE UNCHANGED <<table, children, procs>>
    BY <1>2 DEF Own, Start
  <1>3. ASSUME NEW p \in Pids, table[p] = Free,
               table' = [table EXCEPT ![p] = procs[i].name], Stored(p)
        PROVE  Own(procs)'
    <2>1. procs' = [procs EXCEPT ![i].pid = p] /\ p \in Pids \cup {None}
      BY <1>3 DEF Stored
    <2>2. /\ DOMAIN procs' = DOMAIN procs
          /\ procs'[i] = [name |-> procs[i].name, pid |-> p]
          /\ \A k \in DOMAIN procs : k # i => procs'[k] = procs[k]
      BY <1>1, <2>1, SetPid
    <2>3. table'[p] = procs'[i].name /\ procs'[i].pid = p /\ p \notin zombies'
      BY <1>3, <2>2 DEF Sane, TypeOK, ZombiesHoldPids, Start
    <2>4. ASSUME NEW k \in DOMAIN procs, k # i, procs[k].pid # None
          PROVE  /\ procs[k].pid # p
                 /\ table'[procs[k].pid] = procs[k].name /\ procs[k].pid \notin zombies'
      <3>1. procs[k].name \in Names /\ procs[k].pid \in Pids \cup {None}
        BY <1>1, EntryOf
      <3>2. table[procs[k].pid] = procs[k].name /\ procs[k].pid \notin zombies
        BY <2>4 DEF Own
      <3>3. procs[k].pid # p
        BY <1>3, <3>1, <3>2, Distinct
      <3>4. QED
        BY <1>3, <2>4, <3>1, <3>2, <3>3 DEF Sane, TypeOK, Start
    <2>5. ASSUME NEW j \in DOMAIN procs', procs'[j].pid # None
          PROVE  table'[procs'[j].pid] = procs'[j].name /\ procs'[j].pid \notin zombies'
      BY <2>2, <2>3, <2>4, <2>5
    <2>6. ASSUME NEW j \in DOMAIN procs', NEW k \in DOMAIN procs',
                 j # k, procs'[j].pid # None
          PROVE  procs'[j].pid # procs'[k].pid
      <3>1. CASE j = i
        BY <2>2, <2>3, <2>4, <2>6, <3>1, Distinct
      <3>2. CASE k = i
        BY <2>2, <2>3, <2>4, <2>6, <3>2
      <3>3. CASE j # i /\ k # i
        BY <2>2, <2>6, <3>3 DEF Own
      <3>4. QED
        BY <3>1, <3>2, <3>3
    <2>7. QED
      BY <2>5, <2>6 DEF Own
  <1>4. QED
    BY <1>2, <1>3 DEF Start

\* The process of an entry that has one is its own: no stranger is signalled,
\* and no other entry's process.
LEMMA EmptiedOwn ==
    ASSUME Sane, Own(procs), ~ slain, i \in DOMAIN procs,
           IF IsRunning(procs[i].pid) THEN Signal(procs[i].pid)
           ELSE UNCHANGED <<table, zombies, slain>>,
           procs' = [procs EXCEPT ![i].pid = None],
           UNCHANGED children
    PROVE  Own(procs)' /\ ~ slain'
  <1>1. procs \in Seq(Proc) /\ None \in Pids \cup {None}
    BY DEF Sane, TypeOK
  <1>2. procs[i].pid \in Pids \cup {None} /\ procs[i].name \in Names
    BY <1>1, EntryOf
  <1>3. /\ \A p \in Pids \ {procs[i].pid} :
               table'[p] = table[p] /\ (p \in zombies' <=> p \in zombies)
        /\ slain' => slain \/ (procs[i].pid \in Pids /\ table[procs[i].pid] = Stranger)
    BY <1>2, KillEntry DEF Sane
  <1>4. /\ DOMAIN procs' = DOMAIN procs /\ procs'[i].pid = None
        /\ \A k \in DOMAIN procs : k # i => procs'[k] = procs[k]
    BY <1>1, SetPid
  <1>5. ~ slain'
    <2>1. procs[i].pid # None => table[procs[i].pid] = procs[i].name
      BY DEF Own
    <2>2. QED
      BY <1>2, <1>3, <2>1, Distinct
  <1>6. ASSUME NEW j \in DOMAIN procs', procs'[j].pid # None
        PROVE  table'[procs'[j].pid] = procs'[j].name /\ procs'[j].pid \notin zombies'
    <2>1. j \in DOMAIN procs /\ j # i /\ procs'[j] = procs[j] /\ procs[j].pid # None
      BY <1>4, <1>6
    <2>2. procs[j].pid \in Pids \cup {None}
      BY <1>1, <2>1, EntryOf
    <2>3. procs[j].pid # procs[i].pid
      BY <2>1 DEF Own
    <2>4. table[procs[j].pid] = procs[j].name /\ procs[j].pid \notin zombies
      BY <2>1 DEF Own
    <2>5. QED
      BY <1>3, <2>1, <2>2, <2>3, <2>4
  <1>7. ASSUME NEW j \in DOMAIN procs', NEW k \in DOMAIN procs',
               j # k, procs'[j].pid # None
        PROVE  procs'[j].pid # procs'[k].pid
    <2>1. j \in DOMAIN procs /\ j # i /\ procs'[j] = procs[j] /\ procs[j].pid # None
      BY <1>4, <1>7
    <2>2. k = i \/ procs'[k] = procs[k]
      BY <1>4
    <2>3. QED
      BY <1>4, <1>7, <2>1, <2>2 DEF Own
  <1>8. QED
    BY <1>5, <1>6, <1>7 DEF Own

\* procman begins with no process ids.
LEMMA InitCalm == Init => Calm
  <1> SUFFICES ASSUME Init PROVE Own(file)
    BY DEF Init, Calm
  <1>1. \A j \in DOMAIN file : file[j].pid = None
    BY DEF Init
  <1>2. QED
    BY <1>1 DEF Own

\* As long as no program dies by itself and procman is not killed, its list has
\* its own processes only.
LEMMA NextCalm == Sane /\ Calm /\ [Next]_vars => Calm'
  <1> SUFFICES ASSUME Sane, Calm, [Next]_vars PROVE Calm'
    OBVIOUS
  <1>1. ASSUME NEW p \in Pids, Die(p)
        PROVE  Calm'
    BY <1>1 DEF Sane, TypeOK, Calm, Die
  <1>2. CASE Crash
    BY <1>2 DEF Sane, TypeOK, Calm, Crash
  <1>3. ASSUME NEW p \in Pids, NewStranger(p)
        PROVE  Calm'
    <2>1. \A q \in Pids :
              (table[q] \in Names /\ q \notin zombies) =>
                  table'[q] = table[q] /\ q \notin zombies'
      BY <1>3, Distinct DEF Sane, TypeOK, NewStranger
    <2>2. UNCHANGED <<file, procs, at, deaths, crashes, slain>>
      BY <1>3 DEF NewStranger
    <2>3. procs \in Seq(Proc) /\ file \in Seq(Proc)
      BY DEF Sane, TypeOK
    <2>4. Own(procs) => Own(procs)'
      BY <2>1, <2>2, <2>3, StillOwn DEF Own
    <2>5. Own(file) => Own(file)'
      BY <2>1, <2>2, <2>3, StillOwn DEF Own
    <2>6. QED
      BY <2>2, <2>4, <2>5 DEF Calm
  <1>4. CASE Load
    BY <1>4 DEF Calm, Own, Load, kernel
  <1>5. CASE InitNext \/ SaveOpen \/ Command \/ Leave \/ UNCHANGED vars
    BY <1>5 DEF Calm, Own, InitNext, SaveOpen, Command, Leave, vars, kernel, counts
  <1>6. CASE Reap
    <2>1. \A q \in Pids :
              (table[q] \in Names /\ q \notin zombies) =>
                  table'[q] = table[q] /\ q \notin zombies'
      BY <1>6 DEF Reap
    <2>2. UNCHANGED <<procs, at, deaths, crashes, slain>> /\ at = "ui"
      BY <1>6 DEF Reap, counts
    <2>3. procs \in Seq(Proc)
      BY DEF Sane, TypeOK
    <2>4. Own(procs) => Own(procs)'
      BY <2>1, <2>2, <2>3, StillOwn DEF Own
    <2>5. QED
      BY <2>2, <2>4 DEF Calm
  <1>7. CASE SaveWrite
    <2>1. \A q \in Pids :
              (table[q] \in Names /\ q \notin zombies) =>
                  table'[q] = table[q] /\ q \notin zombies'
      BY <1>7 DEF SaveWrite, kernel, Exited
    <2>2. /\ UNCHANGED <<procs, deaths, crashes, slain>> /\ file' = procs
          /\ at = "write"
      BY <1>7 DEF SaveWrite, counts
    <2>3. procs \in Seq(Proc)
      BY DEF Sane, TypeOK
    <2>4. Own(procs) => Own(procs)' /\ Own(file)'
      BY <2>1, <2>2, <2>3, StillOwn DEF Own
    <2>5. QED
      BY <2>2, <2>4 DEF Calm
  <1>8. CASE Start
    <2>1. at # "down" /\ at' # "down" /\ UNCHANGED <<deaths, crashes, slain>>
      BY <1>8 DEF Start, counts
    <2>2. QED
      BY <1>8, <2>1, StartOwn DEF Calm
  <1>9. CASE KillToStart \/ KillToSave
    <2>1. /\ at # "down" /\ at' # "down" /\ i \in DOMAIN procs
          /\ UNCHANGED <<deaths, crashes>>
          /\ IF IsRunning(procs[i].pid) THEN Signal(procs[i].pid)
             ELSE UNCHANGED <<table, zombies, slain>>
          /\ procs' = [procs EXCEPT ![i].pid = None] /\ UNCHANGED children
      BY <1>9 DEF Sane, Place, KillToStart, KillToSave, Kill, KillStoring, counts
    <2>2. Own(procs) /\ ~ slain => Own(procs)' /\ ~ slain'
      BY <2>1, EmptiedOwn
    <2>3. QED
      BY <2>1, <2>2 DEF Calm
  <1>10. CASE KillAll
    <2>1. at # "down" /\ at' # "down" /\ UNCHANGED <<deaths, crashes>>
      BY <1>10 DEF KillAll, counts
    <2>2. Own(procs) /\ ~ slain => Own(procs)' /\ ~ slain'
      <3>1. CASE i > Len(procs)
        BY <1>10, <3>1 DEF KillAll, Own
      <3>2. CASE ~ (i > Len(procs))
        <4>1. i \in DOMAIN procs
          BY <3>2 DEF Sane, TypeOK
        <4>2. /\ IF IsRunning(procs[i].pid) THEN Signal(procs[i].pid)
                 ELSE UNCHANGED <<table, zombies, slain>>
              /\ procs' = [procs EXCEPT ![i].pid = None] /\ UNCHANGED children
          BY <1>10, <3>2 DEF KillAll
        <4>3. QED
          BY <4>1, <4>2, EmptiedOwn
      <3>3. QED
        BY <3>1, <3>2
    <2>3. QED
      BY <2>1, <2>2 DEF Calm
  <1>11. QED
    BY <1>1, <1>2, <1>3, <1>4, <1>5, <1>6, <1>7, <1>8, <1>9, <1>10 DEF Next, Work

\* procman signals a process that is not its own only after a program died by
\* itself or procman was killed.
THEOREM StrangersStaySpared == Spec => []StrangersSpared
  <1>1. Sane /\ Calm => StrangersSpared
    BY DEF Sane, TypeOK, Calm, StrangersSpared
  <1>2. Sane /\ Calm /\ [Next]_vars => (Sane /\ Calm)'
    BY NextSane, NextCalm
  <1>3. QED
    BY <1>1, <1>2, InitSane, InitCalm, PTL DEF Spec
=============================================================================
