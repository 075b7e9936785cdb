------------------------------ MODULE RcvrCtrl ------------------------------
(***************************************************************************)
(* The firmware of the receiver control board (RCVR-CTRL): loop() reports  *)
(* the DACs, ADCs and TTL lines, takes one CAN frame and one line from the *)
(* serial console a turn, and moves the tuning motors, which keeps it from *)
(* everything else until the move has ended.                               *)
(*                                                                         *)
(* FlexCAN queues the frames until loop() calls events().  The motors, the *)
(* analog channels and the chips on I2C and SPI are the environment.       *)
(***************************************************************************)
EXTENDS Integers, Sequences, FiniteSets

CONSTANTS
    Top,        \* positions are 0 .. Top counts
    Lower,      \* Tuner_LL and Backshort_LL
    Upper,      \* Tuner_UL and Backshort_UL
    Step,       \* counts a motor travels between two readings, at most
    Bump,       \* counts it travels in a bump, at most
    Near,       \* counts from the goal that need no move (10 in the code)
    Close,      \* counts from the goal that end a move (20 in the code)
    MaxPolls,   \* readings before a move is given up (20 in the code)
    Width,      \* values a DAC channel can take (2^14 in the code)
    Bits,       \* lines of a TTL register (8 in the code)
    Frames,     \* the CAN frames that may come (a bound of the model)
    Lines,      \* the console lines that may come (a bound of the model)
    MaxQueue,   \* frames that wait (a bound of the model; 256 in the library)
    MaxCommands \* frames and console lines in all (a bound of the model)

A == 0  \* the tuner
B == 1  \* the backshort
C == 2  \* the attenuator
Motors == {A, B, C}
Limited == {A, B}
Positions == 0 .. Top
Channels == 0 .. 3

\* Frames for the board, whose goals and values server and console leave free.
Frame ==
    [cmd : {"dac"}, ch : Nat, value : Nat]
      \cup [cmd : {"ttl"}, mask : SUBSET Bits]
      \cup [cmd : {"monitor"}, key : BOOLEAN, mask : {0, 1}]
      \cup [cmd : {"move"}, motor : Motors, goal : Nat]
      \cup [cmd : {"bump"}, motor : Motors, dir : Nat]

Line ==
    [cmd : {"dcdc"}, line : Bits, chip : {1, 2}, on : BOOLEAN]
      \cup [cmd : {"dac"}, ch : Channels, value : Nat]
      \cup [cmd : {"move"}, motor : Motors, goal : Nat]
      \cup [cmd : {"bump"}, motor : Motors, dir : Nat]

ASSUME RcvrCtrlAssumption ==
    /\ Top \in Nat /\ Lower \in Nat /\ Upper \in 0 .. Top
    /\ Step \in Nat /\ Bump \in Nat /\ Near \in Nat /\ Close \in Nat
    /\ MaxPolls \in Nat /\ Width \in Nat \ {0} /\ MaxQueue \in Nat \ {0}
    /\ MaxCommands \in Nat /\ Frames \subseteq Frame /\ Lines \subseteq Line

VARIABLES
    at,        \* where loop() is: "status", "events", "serial" or "move"
    after,     \* where it goes on after a move
    rx,        \* frames that wait for events()
    console,   \* the line that waits on the serial port
    move,      \* [motor, dir, goal, polls, start] of the move under way
    awake,     \* the driver's SLP line
    pwm,       \* for each motor the direction it is driven in, 0 if none
    position,  \* where each motor is
    dacs,      \* currentValues->dacs, what DACStatus() reports
    chip,      \* the outputs of the DAC chip
    ttl,       \* the output latches of the two PCA8574
    blanking,  \* currentValues->blanking
    commands   \* history: how many frames and lines came

board == <<dacs, chip, ttl, blanking>>
motor == <<move, awake, pwm, position>>
vars == <<at, after, rx, console, motor, board, commands>>

NoMove == [motor |-> A, dir |-> 0, goal |-> 0, polls |-> 0, start |-> 0]
Up == 1
Down == -1

Distance(x, y) == IF x > y THEN x - y ELSE y - x

-------------------------------------------------------------------------------
(* What comes in *)

Nothing == [cmd |-> "none"]

\* The receive buffer is circular: when it is full the oldest frame is gone.
ReceiveFrame(f) ==
    /\ commands < MaxCommands
    /\ rx' = Append(IF Len(rx) < MaxQueue THEN rx ELSE Tail(rx), f)
    /\ commands' = commands + 1
    /\ UNCHANGED <<at, after, console, motor, board>>

ReceiveLine(l) ==
    /\ commands < MaxCommands /\ console = Nothing
    /\ console' = l
    /\ commands' = commands + 1
    /\ UNCHANGED <<at, after, rx, motor, board>>

-------------------------------------------------------------------------------
(* The chips *)

\* writeDAC() puts the channel into bits 14 and 15 of the word, over whatever
\* the value has there.
Selected(ch, value) ==
    CHOOSE c \in Channels : \A bit \in {0, 1} :
        (c \div 2 ^ bit) % 2 = 1 <=>
            \/ (ch \div 2 ^ bit) % 2 = 1
            \/ ((value \div Width) \div 2 ^ bit) % 2 = 1

WriteDac(ch, value) ==
    /\ chip' = [chip EXCEPT ![Selected(ch, value)] = value % Width]
    /\ dacs' = [dacs EXCEPT ![ch] = value]

\* A pin of a PCA8574 reads high if its latch is high and nothing outside
\* pulls it low; on the first one nothing does.
Readings(c) == IF c = 1 THEN {ttl[1]} ELSE SUBSET ttl[2]

\* The serial command dcdc writes back what it read, with one bit changed.
WriteLine(l) ==
    \E current \in Readings(l.chip) :
        ttl' = [ttl EXCEPT ![l.chip] =
                   IF l.on THEN current \cup {l.line} ELSE current \ {l.line}]

-------------------------------------------------------------------------------
(* drv8833.cpp *)

\* The direction moveMotor() chooses, from a reading of the channel adcCH,
\* which is not set yet: it may be any of the four.
Reading(ch) == IF ch \in Motors THEN {position[ch]} ELSE Positions

\* Fault for the mutation checks: the PWM output is not reset.
SleepDriven(m) == awake' = FALSE /\ UNCHANGED pwm

Wake(m, dir) == awake' = TRUE /\ pwm' = [pwm EXCEPT ![m] = dir]
Sleep(m) == awake' = FALSE /\ pwm' = [pwm EXCEPT ![m] = 0]

\* The move starts if the reading differs from the goal; if it is near, the
\* driver is put to sleep again at once.
StartMove(m, goal, then) ==
    \E ch \in Channels : \E reading \in Reading(ch) :
        IF reading = goal
        THEN at' = then /\ UNCHANGED <<after, motor>>
        ELSE IF Distance(goal, reading) <= Near
        THEN /\ at' = then
             /\ Sleep(m)
             /\ UNCHANGED <<after, move, position>>
        ELSE /\ at' = "move" /\ after' = then
             /\ move' = [motor |-> m, goal |-> goal, polls |-> 0,
                         start |-> position[m],
                         dir |-> IF reading < goal THEN Up ELSE Down]
             /\ Wake(m, IF reading < goal THEN Up ELSE Down)
             /\ UNCHANGED position

\* Where a motor can be after one period at most: it may also be blocked.
Reached(m, dir, travel) ==
    {p \in Positions : dir * (p - position[m]) \in 0 .. travel}

OutOfRange(m, p) == m \in Limited /\ (p > Upper \/ p < Lower)

AtGoal(p) == Distance(move.goal, p) < Close \/ Distance(move.goal, p) <= Near

\* Faults for the mutation checks: no limits, no timeout, a count that stands.
EndedUnlimited(p) == AtGoal(p) \/ move.polls > MaxPolls
EndedUntimed(p) == AtGoal(p) \/ OutOfRange(move.motor, p)
NotCounted == move.polls

Ended(p) == AtGoal(p) \/ OutOfRange(move.motor, p) \/ move.polls > MaxPolls
Counted == move.polls + 1

\* One turn of moveMotor()'s loop: the motor runs on for a period, then its
\* position is read and checked.
Poll ==
    /\ at = "move"
    /\ \E p \in Reached(move.motor, move.dir, Step) :
           /\ position' = [position EXCEPT ![move.motor] = p]
           /\ IF Ended(p)
              THEN /\ Sleep(move.motor)
                   /\ move' = NoMove /\ at' = after
              ELSE /\ move' = [move EXCEPT !.polls = Counted]
                   /\ UNCHANGED <<awake, pwm, at>>
    /\ UNCHANGED <<after, rx, console, board, commands>>

\* bumpMotor(), for a fixed time; FWD drives the pins moveMotor() drives down.
BumpMotor(m, dir) ==
    IF dir \in {0, 1}
    THEN /\ \E p \in Reached(m, IF dir = 0 THEN Down ELSE Up, Bump) :
                position' = [position EXCEPT ![m] = p]
         /\ Sleep(m)
         /\ UNCHANGED move
    ELSE UNCHANGED motor

-------------------------------------------------------------------------------
(* loop() *)

\* showStatus(), when a second has passed, sends what it reads as blanking
\* says; it changes nothing.
Status ==
    /\ at = "status" /\ at' = "events"
    /\ UNCHANGED <<after, rx, console, motor, board, commands>>

SetDac(f) ==
    /\ IF f.ch \in Channels THEN WriteDac(f.ch, f.value)
       ELSE UNCHANGED <<dacs, chip>>
    /\ at' = "serial"
    /\ UNCHANGED <<after, motor, ttl, blanking>>

SetTtl(f) ==
    /\ ttl' = [ttl EXCEPT ![1] = f.mask]
    /\ at' = "serial"
    /\ UNCHANGED <<after, motor, dacs, chip, blanking>>

SetMonitor(f) ==
    /\ blanking' = IF f.key THEN f.mask ELSE blanking
    /\ at' = "serial"
    /\ UNCHANGED <<after, motor, dacs, chip, ttl>>

\* setMotor() checks neither the goal nor the limits.
SetMotor(f) ==
    /\ UNCHANGED board
    /\ \/ f.cmd = "move" /\ StartMove(f.motor, f.goal, "serial")
       \/ /\ f.cmd = "bump" /\ BumpMotor(f.motor, f.dir)
          /\ at' = "serial" /\ UNCHANGED after

\* events() hands over one frame.
Events ==
    /\ at = "events"
    /\ \/ rx = <<>> /\ at' = "serial" /\ UNCHANGED <<after, rx, motor, board>>
       \/ /\ rx # <<>> /\ rx' = Tail(rx)
          /\ LET f == Head(rx) IN
             \/ f.cmd = "dac" /\ SetDac(f)
             \/ f.cmd = "ttl" /\ SetTtl(f)
             \/ f.cmd = "monitor" /\ SetMonitor(f)
             \/ f.cmd \in {"move", "bump"} /\ SetMotor(f)
    /\ UNCHANGED <<console, commands>>

\* A move typed at the console has its goal checked first.
Serial ==
    /\ at = "serial"
    /\ console' = Nothing
    /\ \/ /\ console.cmd = "none" \/ (console.cmd = "move"
                                        /\ OutOfRange(console.motor, console.goal))
          /\ at' = "status" /\ UNCHANGED <<after, motor, board>>
       \/ /\ console.cmd = "dcdc" /\ WriteLine(console)
          /\ at' = "status" /\ UNCHANGED <<after, motor, dacs, chip, blanking>>
       \/ /\ console.cmd = "dac" /\ WriteDac(console.ch, console.value)
          /\ at' = "status" /\ UNCHANGED <<after, motor, ttl, blanking>>
       \/ /\ console.cmd = "move" /\ ~ OutOfRange(console.motor, console.goal)
          /\ StartMove(console.motor, console.goal, "status")
          /\ UNCHANGED board
       \/ /\ console.cmd = "bump" /\ BumpMotor(console.motor, console.dir)
          /\ at' = "status" /\ UNCHANGED <<after, board>>
    /\ UNCHANGED <<rx, commands>>

-------------------------------------------------------------------------------
\* setup(); 0 stands for the value it gives each DAC.
Init ==
    /\ at = "status" /\ after = "status" /\ rx = <<>> /\ console = Nothing
    /\ move = NoMove /\ awake = FALSE /\ pwm = [m \in Motors |-> 0]
    /\ position \in [Motors -> Lower .. Upper]
    /\ dacs = [c \in Channels |-> 0] /\ chip = dacs
    /\ ttl = <<{}, Bits>> /\ blanking = 1
    /\ commands = 0

Loop == Status \/ Events \/ Serial \/ Poll

Next == Loop \/ (\E f \in Frames : ReceiveFrame(f)) \/ \E l \in Lines : ReceiveLine(l)

Spec == Init /\ [][Next]_vars

\* The processor runs.
FairSpec == Spec /\ WF_vars(Loop)

-------------------------------------------------------------------------------
(* Properties *)

Move == [motor : Motors, dir : {Down, 0, Up}, goal : Nat,
         polls : 0 .. MaxPolls + 1, start : Positions]

\* Every variable stays in its type.
TypeOK ==
    /\ at \in {"status", "events", "serial", "move"}
    /\ after \in {"status", "serial"}
    /\ rx \in Seq(Frames) /\ Len(rx) <= MaxQueue
    /\ console \in Lines \cup {Nothing}
    /\ move \in Move /\ awake \in BOOLEAN
    /\ pwm \in [Motors -> {Down, 0, Up}] /\ position \in [Motors -> Positions]
    /\ dacs \in [Channels -> Nat]
    /\ chip \in [Channels -> 0 .. Width - 1]
    /\ ttl \in [1 .. 2 -> SUBSET Bits] /\ blanking \in {0, 1}
    /\ commands \in 0 .. MaxCommands

\* A move of the tuner or the backshort takes it beyond the limits, or beyond
\* where it stood outside them, by what it travels between two readings and no
\* further: whichever channel moveMotor() took its direction from, wherever
\* the goal is (setMotor() lets any pass), and wherever bumps have left it.
MoveContained ==
    [][\A m \in Limited :
           (at = "move" /\ move.motor = m) =>
               /\ \/ position'[m] >= Lower - Step
                  \/ position'[m] >= move.start - Step
               /\ \/ position'[m] <= Upper + Step
                  \/ position'[m] <= move.start + Step]_vars

\* The driver is awake during a move only, and then drives the one motor in
\* its one direction; no early return, failed move or bump leaves an output on
\* that would run a second motor with the next move.
OneMotorDriven ==
    /\ awake <=> at = "move"
    /\ \A m \in Motors :
           pwm[m] = (IF at = "move" /\ m = move.motor THEN move.dir ELSE 0)

\* A move ends, also with the motor blocked, the goal out of reach or the
\* wrong direction, and loop() gets back to the frames and the console.
MovesEnd == at = "move" ~> at # "move"
=============================================================================
