------------------------------- MODULE ProcMan -------------------------------
(***************************************************************************)
(* procman.c: starts, restarts and kills the spectrometer's programs, and  *)
(* remembers them by process id in memory and in executables.list, which   *)
(* the next procman trusts.                                                *)
(*                                                                         *)
(* Programs die, procman is killed between any two of its steps, and the   *)
(* kernel gives a free process id to a process of somebody else's.         *)
(***************************************************************************)
EXTENDS Integers, Sequences, FiniteSets

CONSTANTS
    Programs,     \* the programs in the list, a sequence of names
    Pids,         \* process ids
    Free,         \* an unused process id
    Stranger,     \* a process that is none of the programs
    MaxDeaths,    \* programs that die by themselves (a bound of the model)
    MaxCrashes,   \* times procman is killed (a bound of the model)
    MaxStrangers, \* other processes (a bound of the model)
    MaxCommands   \* commands in all (a bound of the model)

Names == {Programs[i] : i \in DOMAIN Programs}

ASSUME ProcManAssumption ==
    /\ Programs \in Seq(Names) /\ Pids \subseteq Nat \ {0}
    /\ Free \notin Names /\ Stranger \notin Names /\ Free # Stranger
    /\ MaxDeaths \in Nat /\ MaxCrashes \in Nat
    /\ MaxStrangers \in Nat /\ MaxCommands \in Nat

VARIABLES
    table,    \* the process table: a program's name, Stranger or Free
    zombies,  \* those that ended and are not waited for yet
    children, \* the processes this procman started
    file,     \* executables.list: a sequence of [name, pid]
    procs,    \* procs[], the same in memory
    at,       \* where procman is
    i,        \* the entry it works on
    todo,     \* what follows a step: start or save, and then
    deaths, crashes, strangers, commands, \* history: how many of each
    cut,      \* history: procman was killed while it wrote the list
    slain     \* history: procman signalled a stranger

kernel == <<table, zombies, children>>
counts == <<deaths, crashes, strangers, commands>>
vars == <<kernel, file, procs, at, i, todo, counts, cut, slain>>

None == -1

\* kill(pid, 0) == 0, which also holds for a zombie
IsRunning(pid) == pid # None /\ table[pid] # Free
Running(pid, name) == table[pid] = name /\ pid \notin zombies

\* A child that ends stays a zombie until it is waited for; another process's
\* child (init's, after a crash of procman) goes at once.
End(P) ==
    /\ zombies' = zombies \cup (P \cap children)
    /\ table' = [p \in Pids |-> IF p \in P \ children THEN Free ELSE table[p]]

-------------------------------------------------------------------------------
(* The world *)

\* A program ends without being told to.
Die(p) ==
    /\ deaths < MaxDeaths
    /\ table[p] \in Names /\ p \notin zombies
    /\ End({p})
    /\ deaths' = deaths + 1
    /\ UNCHANGED <<children, file, procs, at, i, todo, crashes, strangers,
                   commands, cut, slain>>

NewStranger(p) ==
    /\ strangers < MaxStrangers
    /\ table[p] = Free
    /\ table' = [table EXCEPT ![p] = Stranger]
    /\ strangers' = strangers + 1
    /\ UNCHANGED <<zombies, children, file, procs, at, i, todo, deaths, crashes,
                   commands, cut, slain>>

Exited ==
    /\ at' = "down" /\ children' = {} /\ zombies' = {}
    /\ table' = [p \in Pids |-> IF p \in zombies THEN Free ELSE table[p]]

\* procman is killed; init takes over its children and waits for the zombies.
Crash ==
    /\ at # "down" /\ crashes < MaxCrashes
    /\ Exited
    /\ crashes' = crashes + 1
    /\ cut' = (cut \/ at = "write")
    /\ UNCHANGED <<file, procs, i, todo, deaths, strangers, commands, slain>>

-------------------------------------------------------------------------------
(* load_list() and init_processes() *)

Load ==
    /\ at = "down" /\ commands < MaxCommands
    /\ procs' = file
    /\ at' = "init" /\ i' = 1 /\ todo' = "init"
    /\ commands' = commands + 1
    /\ UNCHANGED <<kernel, file, deaths, crashes, strangers, cut, slain>>

\* Only entries without a process id are started; the others are trusted.
InitNext ==
    /\ at = "init"
    /\ IF i > Len(procs) THEN at' = "ui" /\ UNCHANGED i
       ELSE IF procs[i].pid = None THEN at' = "start" /\ UNCHANGED i
       ELSE at' = "init" /\ i' = i + 1
    /\ UNCHANGED <<kernel, file, procs, todo, counts, cut, slain>>

-------------------------------------------------------------------------------
(* start_proc() and save_list() *)

\* Fault for the mutation checks: the process is recorded at another entry.
StoredFirst(p) == procs' = [procs EXCEPT ![1].pid = p]

Stored(p) == procs' = [procs EXCEPT ![i].pid = p]

\* fork(), setsid() and exec(): the child leads its own process group.  If
\* fork() fails the entry keeps no process id.
Start ==
    /\ at = "start"
    /\ \/ \E p \in Pids :
              /\ table[p] = Free
              /\ table' = [table EXCEPT ![p] = procs[i].name]
              /\ children' = children \cup {p}
              /\ Stored(p)
       \/ /\ \A p \in Pids : table[p] # Free
          /\ UNCHANGED <<table, children, procs>>
    /\ at' = "save"
    /\ UNCHANGED <<zombies, file, i, todo, counts, cut, slain>>

\* fopen() with "w" empties the file; fclose() writes it.
SaveOpen ==
    /\ at = "save" /\ at' = "write"
    /\ file' = <<>>
    /\ UNCHANGED <<kernel, procs, i, todo, counts, cut, slain>>

SaveWrite ==
    /\ at = "write"
    /\ file' = procs
    /\ \/ todo = "init" /\ at' = "init" /\ i' = i + 1 /\ UNCHANGED kernel
       \/ todo = "ui" /\ at' = "ui" /\ UNCHANGED <<i, kernel>>
       \/ todo = "exit" /\ Exited /\ UNCHANGED i
    /\ UNCHANGED <<procs, todo, counts, cut, slain>>

-------------------------------------------------------------------------------
(* kill_proc() *)

Signal(pid) ==
    /\ slain' = (slain \/ table[pid] = Stranger)
    /\ End(IF pid \in zombies THEN {} ELSE {pid})

\* SIGTERM to whatever has the process id; what does not end within a second
\* gets SIGKILL.  Either way it has ended before the entry is cleared, and the
\* kernel, which gives process ids in turn, has not yet given this one again.
KillStoring(value, then) ==
    /\ IF IsRunning(procs[i].pid) THEN Signal(procs[i].pid)
       ELSE UNCHANGED <<table, zombies, slain>>
    /\ procs' = [procs EXCEPT ![i].pid = value]
    /\ at' = then
    /\ UNCHANGED <<children, file, i, todo, counts, cut>>

\* Faults for the mutation checks: the entry keeps the process id, or gets the
\* 0 that init_processes() does not take for a missing process.
KillKeepingPid(then) == KillStoring(procs[i].pid, then)
KillStoringZero(then) == KillStoring(0, then)

Kill(then) == KillStoring(None, then)

\* Fault for the mutation checks: a restart only kills.
OnlyKill == at = "restart" /\ Kill("save")

KillToStart == at = "restart" /\ Kill("start")
KillToSave == at = "kill" /\ Kill("save")

\* kill_all_procs(): the process groups, one entry after the other.  Like the
\* programs, a stranger is taken to lead its group.
KillAll ==
    /\ at = "killall"
    /\ IF i > Len(procs)
       THEN /\ at' = "save" /\ todo' = "exit"
            /\ UNCHANGED <<table, zombies, procs, i, slain>>
       ELSE /\ IF IsRunning(procs[i].pid) THEN Signal(procs[i].pid)
               ELSE UNCHANGED <<table, zombies, slain>>
            /\ procs' = [procs EXCEPT ![i].pid = None]
            /\ i' = i + 1
            /\ UNCHANGED <<at, todo>>
    /\ UNCHANGED <<children, file, counts, cut>>

-------------------------------------------------------------------------------
(* The main loop *)

\* reap_children(), once in every turn
Reap ==
    /\ at = "ui" /\ zombies # {}
    /\ table' = [p \in Pids |-> IF p \in zombies THEN Free ELSE table[p]]
    /\ zombies' = {} /\ children' = children \ zombies
    /\ UNCHANGED <<file, procs, at, i, todo, counts, cut, slain>>

\* :r and :k with the number of an entry
Command ==
    /\ at = "ui" /\ commands < MaxCommands
    /\ i' \in DOMAIN procs
    /\ at' \in {"restart", "kill"} /\ todo' = "ui"
    /\ commands' = commands + 1
    /\ UNCHANGED <<kernel, file, procs, deaths, crashes, strangers, cut, slain>>

\* :K, confirmed, and q
Leave ==
    /\ at = "ui"
    /\ \/ at' = "killall" /\ i' = 1 /\ UNCHANGED todo
       \/ at' = "save" /\ todo' = "exit" /\ UNCHANGED i
    /\ UNCHANGED <<kernel, file, procs, counts, cut, slain>>

-------------------------------------------------------------------------------
Init ==
    /\ table = [p \in Pids |-> Free] /\ zombies = {} /\ children = {}
    /\ file = [j \in DOMAIN Programs |-> [name |-> Programs[j], pid |-> None]]
    /\ procs = <<>> /\ at = "down" /\ i = 1 /\ todo = "init"
    /\ deaths = 0 /\ crashes = 0 /\ strangers = 0 /\ commands = 0
    /\ cut = FALSE /\ slain = FALSE

Work == InitNext \/ Start \/ SaveOpen \/ SaveWrite \/ KillToStart
            \/ KillToSave \/ KillAll

Next ==
    \/ \E p \in Pids : Die(p) \/ NewStranger(p)
    \/ Crash \/ Load \/ Work \/ Reap \/ Command \/ Leave

Spec == Init /\ [][Next]_vars

\* procman runs while it has work to do.
FairSpec == Spec /\ WF_vars(Work)

-------------------------------------------------------------------------------
(* Properties *)

Proc == [name : Names, pid : Pids \cup {None}]

\* Every variable stays in its type.
TypeOK ==
    /\ table \in [Pids -> Names \cup {Free, Stranger}]
    /\ zombies \subseteq children /\ children \subseteq Pids
    /\ file \in Seq(Proc) /\ procs \in Seq(Proc)
    /\ at \in {"down", "init", "start", "save", "write", "restart", "kill",
               "killall", "ui"}
    /\ i \in 1 .. Len(Programs) + 1 /\ todo \in {"init", "ui", "exit"}
    /\ deaths \in 0 .. MaxDeaths /\ crashes \in 0 .. MaxCrashes
    /\ strangers \in 0 .. MaxStrangers /\ commands \in 0 .. MaxCommands
    /\ cut \in BOOLEAN /\ slain \in BOOLEAN

Entries(list, p, name) == {j \in DOMAIN list : list[j] = [name |-> name, pid |-> p]}

\* Until procman is killed, every running program is the process of its entry,
\* in memory and, between two commands, in the file: none is started twice, and
\* none is out of reach of :k and :K, also across quits and new procmans.
EveryProcessRecorded ==
    crashes = 0 =>
        \A p \in Pids : \A name \in Names :
            Running(p, name) =>
                /\ at # "down" => Entries(procs, p, name) # {}
                /\ at \in {"down", "ui"} => Entries(file, p, name) # {}

\* Between two commands the file says what memory says; it loses entries only
\* if procman is killed after it emptied the file and before it wrote it.
FileKeepsList ==
    /\ at = "ui" => file = procs
    /\ (~ cut /\ at # "write") => Len(file) = Len(Programs)

\* The list, in memory and in the file, keeps track of what runs.
ListKept == EveryProcessRecorded /\ FileKeepsList

\* procman signals a process that is not its own only if a program died by
\* itself, or procman was killed, before: a process id it freed itself is
\* forgotten before anyone else can have it.
StrangersSpared == slain => deaths + crashes > 0

\* A program told to restart runs in the end, in the process its entry has,
\* unless procman is killed or no process id is free.
RestartStarts ==
    \A j \in DOMAIN Programs :
        (at = "restart" /\ i = j) ~>
            \/ at = "down" \/ \A p \in Pids : table[p] # Free
            \/ at = "ui" /\ j \in DOMAIN procs /\ procs[j].pid # None
=============================================================================
