------------------------------ MODULE IfControl ------------------------------
(***************************************************************************)
(* if_control.c: takes the total power the receiver reports on the CAN bus *)
(* (IFTOTPOW), and while it is told to report sends it to the stuffer as a *)
(* stream of points whose phase alternates.  That it also tells SUPER now  *)
(* and then that it is alive changes nothing here and is left out.         *)
(*                                                                         *)
(* send_data() and do_initialize() open a CAN socket of their own, read    *)
(* from it until an IFTOTPOW frame comes, and close it.  Meanwhile no      *)
(* command is read.                                                        *)
(***************************************************************************)
EXTENDS Integers, Sequences

CONSTANTS
    Settings,    \* PREDEL, BLANK, ACTIVE, PSTIME, PULSE, NUTATE, FBANK
    Values,      \* their values
    MaxQueue,    \* frames the CAN socket holds (a bound of the model)
    MaxCommands, \* commands in all (a bound of the model)
    MaxFailures  \* failures in all (a bound of the model)

ASSUME IfControlAssumption ==
    /\ 0 \in Values
    /\ MaxQueue \in Nat /\ MaxCommands \in Nat
    /\ MaxFailures \in Nat

VARIABLES
    at,       \* where the program is
    running,  \* its flag: report
    client,   \* whether it has the stuffer's mailbox
    indx,     \* points so far, modulo 2
    setting,  \* predel, blank, active, pstime, pulse, nutate, fbank
    can,      \* frames waiting in the CAN socket
    inbox,    \* the command waiting, if any
    heard,    \* the last message the stuffer got
    phase,    \* history: the phase of the last point it got, 0 before any
    missed,   \* history: an odd number of points since did not get there
    repeated, \* history: a point was not new, and no read had failed
    commands, failures  \* history: how many of each

progVars == <<running, client, indx, setting>>
history == <<phase, missed, repeated>>
ifVars == <<at, progVars, can, inbox, heard, history, commands, failures>>

Nothing == [kind |-> "nothing"]

\* A measurement made since the last point, one made before, another frame.
FrameKind == {"new", "old", "other"}

-------------------------------------------------------------------------------
(* The bus *)

\* The receiver module reports IFTOTPOW, and others report other things; only
\* an open socket collects frames.
Frame ==
    /\ at \in {"init", "data"} /\ Len(can) < MaxQueue
    /\ \E f \in {"new", "other"} : can' = Append(can, f)
    /\ UNCHANGED <<at, progVars, inbox, heard, history, commands, failures>>

Fault == failures < MaxFailures /\ failures' = failures + 1

-------------------------------------------------------------------------------
(* send_data() *)

\* Fault for the mutation checks: the socket is kept from one point to the next.
KeptOpen == can

\* A new socket: nothing sent before it was opened is read.
Opened == <<>>

IsPower(f) == f # "other"

\* Without can0 send_data() gives up at once; reporting goes on.
Top ==
    /\ at = "top"
    /\ can' = Opened
    /\ IF running /\ client
       THEN \/ at' = "data" /\ UNCHANGED failures
            \/ at' = "read" /\ Fault
       ELSE at' = "read" /\ UNCHANGED failures
    /\ UNCHANGED <<progVars, inbox, heard, history, commands>>

Aged(q) == [i \in DOMAIN q |-> IF q[i] = "new" THEN "old" ELSE q[i]]

\* The point goes out with the phase of its index.  When the stuffer cannot be
\* reached (sock_send() returns 0) reporting ends, and the index counts on.
Point(reached) ==
    LET p == 1 - indx IN
    /\ indx' = (indx + 1) % 2
    /\ running' = (running /\ reached)
    /\ heard' = IF reached THEN [kind |-> "point", phase |-> p] ELSE heard
    /\ phase' = IF reached THEN p ELSE phase
    /\ missed' = (~ reached /\ ~ missed)
    /\ at' = "read"

\* read(): an IFTOTPOW frame of module 224 ends the loop; a failed read ends
\* it too, and the last measurement is sent once more.
SendData ==
    /\ at = "data"
    /\ \/ /\ can # <<>> /\ ~ IsPower(Head(can))
          /\ can' = Tail(can)
          /\ UNCHANGED <<at, running, indx, heard, history, failures>>
       \/ /\ can # <<>> /\ IsPower(Head(can))
          /\ \/ Point(TRUE) /\ UNCHANGED failures
             \/ Point(FALSE) /\ Fault
          /\ can' = Aged(Tail(can))
          /\ repeated' = (repeated \/ Head(can) = "old")
       \/ /\ Fault
          /\ Point(TRUE)
          /\ can' = Aged(can)
          /\ UNCHANGED repeated
    /\ UNCHANGED <<client, setting, inbox, commands>>

-------------------------------------------------------------------------------
(* Commands *)

Is(c) == inbox # <<>> /\ Head(inbox).cmd = c
Ack == heard' = [kind |-> "ack"]

Receive ==
    /\ at = "read"
    /\ inbox' = <<>> /\ client' = TRUE
    /\ UNCHANGED <<history, commands>>

NoCommand ==
    /\ at = "read" /\ inbox = <<>>
    /\ at' = "top"
    /\ UNCHANGED <<progVars, can, inbox, heard, history, commands, failures>>

\* do_initialize() waits for a measurement too.  "ACK" follows whether it
\* succeeds or not.
InitBegin ==
    /\ Is("INIT") /\ Receive
    /\ at' = "init" /\ can' = <<>>
    /\ UNCHANGED <<running, indx, setting, heard, failures>>

InitEnd ==
    /\ at = "init"
    /\ \/ /\ can # <<>> /\ ~ IsPower(Head(can))
          /\ can' = Tail(can)
          /\ UNCHANGED <<at, heard, failures>>
       \/ /\ can # <<>> /\ IsPower(Head(can))
          /\ can' = Tail(can)
          /\ at' = "top" /\ Ack /\ UNCHANGED failures
       \/ /\ Fault
          /\ UNCHANGED can
          /\ at' = "top" /\ Ack
    /\ UNCHANGED <<progVars, inbox, history, commands>>

\* Fault for the mutation checks: REPORT 1 starts the count anew.
CountAnew(on) == IF on = 1 THEN 0 ELSE indx

\* do_start() and do_stop() leave the count of points alone.
CountAfter(on) == indx

\* REPORT 1 and REPORT 0
SetReport ==
    /\ Is("REPORT") /\ Receive
    /\ running' = (Head(inbox).value = 1)
    /\ indx' = CountAfter(Head(inbox).value)
    /\ Ack /\ at' = "top"
    /\ UNCHANGED <<setting, can, failures>>

\* Fault for the mutation checks: the number of items sscanf() found is stored.
ParsedCount(c) == 1

Parsed(c) == c.value

\* A setting with a value stores it; without one it answers the stored value.
Set ==
    /\ Is("SET") /\ Receive
    /\ setting' = [setting EXCEPT ![Head(inbox).name] = Parsed(Head(inbox))]
    /\ Ack /\ at' = "top"
    /\ UNCHANGED <<running, indx, can, failures>>

Query ==
    /\ Is("QUERY") /\ Receive
    /\ heard' = [kind |-> "setting", name |-> Head(inbox).name,
                 value |-> setting[Head(inbox).name]]
    /\ at' = "top"
    /\ UNCHANGED <<running, indx, setting, can, failures>>

\* config and unknown commands
Config ==
    /\ Is("CONFIG") /\ Receive
    /\ heard' = [kind |-> "done config"] /\ at' = "top"
    /\ UNCHANGED <<running, indx, setting, can, failures>>

\* TP answers the last point; the break after it leaves the main loop.
TotalPower ==
    /\ Is("TP") /\ Receive
    /\ heard' = [kind |-> "tp"]
    /\ at' = "exited"
    /\ UNCHANGED <<running, indx, setting, can, failures>>

Commands ==
    [cmd : {"INIT", "CONFIG", "TP"}] \cup [cmd : {"REPORT"}, value : {0, 1}]
        \cup [cmd : {"SET"}, name : Settings, value : Values]
        \cup [cmd : {"QUERY"}, name : Settings]

\* The stuffer's side sends the next command when the last was taken: what
\* waits behind it would not be looked at before.
Command ==
    /\ inbox = <<>> /\ commands < MaxCommands
    /\ commands' = commands + 1
    /\ \E c \in Commands : inbox' = <<c>>
    /\ UNCHANGED <<at, progVars, can, heard, history, failures>>

-------------------------------------------------------------------------------
IfInit ==
    /\ at = "top" /\ running = FALSE /\ client = FALSE /\ indx = 0
    /\ setting = [s \in Settings |-> 0]
    /\ can = <<>> /\ inbox = <<>> /\ heard = Nothing
    /\ phase = 0 /\ missed = FALSE /\ repeated = FALSE
    /\ commands = 0 /\ failures = 0

Handle == InitBegin \/ SetReport \/ Set \/ Query \/ Config \/ TotalPower
Program == Top \/ SendData \/ NoCommand \/ InitEnd \/ Handle

IfNext == Frame \/ Program \/ Command

IfSpec == IfInit /\ [][IfNext]_ifVars

-------------------------------------------------------------------------------
(* Properties *)

\* Every variable stays in its type.
IfTypeOK ==
    /\ at \in {"top", "data", "read", "init", "exited"}
    /\ running \in BOOLEAN /\ client \in BOOLEAN /\ indx \in {0, 1}
    /\ setting \in [Settings -> Values]
    /\ can \in Seq(FrameKind) /\ Len(can) <= MaxQueue
    /\ inbox \in Seq(Commands)
    /\ phase \in {0, 1}
    /\ missed \in BOOLEAN /\ repeated \in BOOLEAN
    /\ commands \in 0 .. MaxCommands /\ failures \in 0 .. MaxFailures

\* The stuffer can fold the stream by its phases, on and off the source: the
\* next point it gets has the other phase than the last one if an even number
\* in between were lost on the way, and the same if an odd number were, also
\* across REPORT 0 and REPORT 1 and points given up for want of a bus.
PhasesInStep == (1 - indx = phase) <=> missed

\* Each point carries a measurement made after the one before it was sent,
\* except after a failed read.
PointsFresh == ~ repeated
=============================================================================
