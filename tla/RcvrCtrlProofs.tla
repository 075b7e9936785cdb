--------------------------- MODULE RcvrCtrlProofs ---------------------------
(***************************************************************************)
(* The safety of RcvrCtrl for any limits, travel, timeout and DAC width,   *)
(* any commands, and a receive buffer of any length.  Each of the three    *)
(* invariants is inductive relative to the ones before it.                 *)
(***************************************************************************)
EXTENDS RcvrCtrl, TLAPS

USE RcvrCtrlAssumption DEF RcvrCtrlAssumption

\* Why a move is contained: it has a direction, and at each turn of its loop the
\* motor is where the move began, or where the last reading found it, within the
\* limits.
InsideOrStart ==
    at = "move" =>
        /\ move.dir # 0
        /\ move.motor \in Limited =>
               \/ position[move.motor] = move.start
               \/ ~ OutOfRange(move.motor, position[move.motor])

Envelope(m) ==
    (at = "move" /\ move.motor = m) =>
        /\ position'[m] >= Lower - Step \/ position'[m] >= move.start - Step
        /\ position'[m] <= Upper + Step \/ position'[m] <= move.start + Step

-------------------------------------------------------------------------------
(* Types *)

\* A frame has the fields of its command.
LEMMA FrameFields ==
    ASSUME NEW f \in Frames
    PROVE  /\ f.cmd \in {"dac", "ttl", "monitor", "move", "bump"}
           /\ f.cmd = "dac" => f.value \in Nat
           /\ f.cmd = "ttl" => f.mask \subseteq Bits
           /\ f.cmd = "monitor" => f.mask \in {0, 1}
           /\ f.cmd \in {"move", "bump"} => f.motor \in Motors
           /\ f.cmd = "move" => f.goal \in Nat
  BY DEF Frame

\* So has a console line.
LEMMA LineFields ==
    ASSUME NEW l \in Lines
    PROVE  /\ l.cmd \in {"dcdc", "dac", "move", "bump"}
           /\ l.cmd = "dac" => l.value \in Nat
           /\ l.cmd = "dcdc" => l.line \in Bits /\ l.chip \in 1 .. 2
           /\ l.cmd \in {"move", "bump"} => l.motor \in Motors
           /\ l.cmd = "move" => l.goal \in Nat
  BY DEF Line

\* The motors' part of the types.
MotorTypes ==
    /\ move \in Move /\ awake \in BOOLEAN
    /\ pwm \in [Motors -> {Down, 0, Up}] /\ position \in [Motors -> Positions]

\* moveMotor() keeps the types of what it drives, and goes on where it should.
LEMMA StartMoveTypes ==
    ASSUME TypeOK, NEW m \in Motors, NEW goal \in Nat,
           NEW then \in {"status", "serial"}, StartMove(m, goal, then)
    PROVE  /\ MotorTypes'
           /\ at' \in {then, "move"} /\ after' \in {"status", "serial"}
  <1>1. PICK reading :
            IF reading = goal
            THEN at' = then /\ UNCHANGED <<after, motor>>
            ELSE IF Distance(goal, reading) <= Near
            THEN at' = then /\ Sleep(m) /\ UNCHANGED <<after, move, position>>
            ELSE /\ at' = "move" /\ after' = then
                 /\ move' = [motor |-> m, goal |-> goal, polls |-> 0,
                             start |-> position[m],
                             dir |-> IF reading < goal THEN Up ELSE Down]
                 /\ Wake(m, IF reading < goal THEN Up ELSE Down)
                 /\ UNCHANGED position
    BY DEF StartMove
  <1>2. CASE reading = goal
    BY <1>1, <1>2 DEF TypeOK, MotorTypes, motor
  <1>3. CASE reading # goal /\ Distance(goal, reading) <= Near
    BY <1>1, <1>3 DEF TypeOK, MotorTypes, Sleep
  <1>4. CASE reading # goal /\ ~ (Distance(goal, reading) <= Near)
    <2> DEFINE dir == IF reading < goal THEN Up ELSE Down
    <2>1. dir \in {Down, 0, Up}
      OBVIOUS
    <2> HIDE DEF dir
    <2>2. /\ at' = "move" /\ after' = then /\ UNCHANGED position
          /\ move' = [motor |-> m, goal |-> goal, polls |-> 0,
                      start |-> position[m], dir |-> dir]
          /\ awake' = TRUE /\ pwm' = [pwm EXCEPT ![m] = dir]
      BY <1>1, <1>4 DEF Wake, dir
    <2>3. move' \in Move
      BY <2>1, <2>2 DEF TypeOK, Move
    <2>4. QED
      BY <2>1, <2>2, <2>3 DEF TypeOK, MotorTypes
  <1>5. QED
    BY <1>2, <1>3, <1>4

\* So does bumpMotor().
LEMMA BumpTypes ==
    ASSUME TypeOK, NEW m \in Motors, NEW dir, BumpMotor(m, dir)
    PROVE  MotorTypes'
  BY DEF TypeOK, MotorTypes, BumpMotor, Sleep, Reached, motor, Down, Up

\* A DAC takes what fits its width, whichever channel the word selects.
LEMMA DacTypes ==
    ASSUME TypeOK, NEW ch, NEW value \in Nat, WriteDac(ch, value)
    PROVE  dacs' \in [Channels -> Nat] /\ chip' \in [Channels -> 0 .. Width - 1]
  <1>1. value % Width \in 0 .. Width - 1
    OBVIOUS
  <1>2. QED
    BY <1>1 DEF TypeOK, WriteDac

\* What a handler leaves alone keeps its type.
BoardTypes ==
    /\ dacs \in [Channels -> Nat] /\ chip \in [Channels -> 0 .. Width - 1]
    /\ ttl \in [1 .. 2 -> SUBSET Bits] /\ blanking \in {0, 1}

QueueTypes ==
    /\ rx \in Seq(Frames) /\ Len(rx) <= MaxQueue
    /\ console \in Lines \cup {Nothing} /\ commands \in 0 .. MaxCommands

PlaceTypes ==
    at \in {"status", "events", "serial", "move"} /\ after \in {"status", "serial"}

\* TypeOK in the parts that the handlers change.
LEMMA TypeParts == TypeOK <=> PlaceTypes /\ QueueTypes /\ MotorTypes /\ BoardTypes
  BY DEF TypeOK, PlaceTypes, QueueTypes, MotorTypes, BoardTypes

\* The same of the next state.
LEMMA TypePartsNext ==
    TypeOK' <=> PlaceTypes' /\ QueueTypes' /\ MotorTypes' /\ BoardTypes'
  BY DEF TypeOK, PlaceTypes, QueueTypes, MotorTypes, BoardTypes

\* setup() leaves every variable in its type.
LEMMA InitTypes == Init => TypeOK
  <1> SUFFICES ASSUME Init PROVE TypeOK
    OBVIOUS
  <1>1. QueueTypes
    BY DEF Init, QueueTypes
  <1>2. NoMove \in Move
    BY DEF NoMove, Move, Motors, A, Positions
  <1>3. MotorTypes
    <2>1. Lower .. Upper \subseteq Positions
      BY DEF Positions
    <2>2. position \in [Motors -> Positions]
      BY <2>1 DEF Init
    <2>3. QED
      BY <1>2, <2>2 DEF Init, MotorTypes
  <1>4. <<{}, Bits>> \in [1 .. 2 -> SUBSET Bits]
    OBVIOUS
  <1>5. BoardTypes
    BY <1>4 DEF Init, BoardTypes
  <1>6. QED
    BY <1>1, <1>3, <1>5, TypeParts DEF Init, PlaceTypes

\* What comes in fits: a full receive buffer drops its oldest frame.
LEMMA ReceiveTypes ==
    ASSUME TypeOK,
           (\E f \in Frames : ReceiveFrame(f)) \/ (\E l \in Lines : ReceiveLine(l))
    PROVE  TypeOK'
  <1>1. PlaceTypes' /\ MotorTypes' /\ BoardTypes'
    BY DEF TypeOK, PlaceTypes, MotorTypes, BoardTypes, ReceiveFrame, ReceiveLine,
           motor, board
  <1>2. ASSUME NEW f \in Frames, ReceiveFrame(f) PROVE QueueTypes'
    <2>1. CASE Len(rx) < MaxQueue
      BY <1>2, <2>1 DEF TypeOK, QueueTypes, ReceiveFrame
    <2>2. CASE ~ (Len(rx) < MaxQueue)
      <3>1. rx # <<>> /\ Len(rx) = MaxQueue
        BY <2>2 DEF TypeOK
      <3>2. Tail(rx) \in Seq(Frames) /\ Len(Tail(rx)) = MaxQueue - 1
        BY <3>1 DEF TypeOK
      <3>3. rx' = Append(Tail(rx), f)
        BY <1>2, <2>2 DEF ReceiveFrame
      <3>4. rx' \in Seq(Frames) /\ Len(rx') <= MaxQueue
        BY <3>2, <3>3
      <3>5. QED
        BY <1>2, <3>4 DEF TypeOK, QueueTypes, ReceiveFrame
    <2>3. QED
      BY <2>1, <2>2
  <1>3. ASSUME NEW l \in Lines, ReceiveLine(l) PROVE QueueTypes'
    BY <1>3 DEF TypeOK, QueueTypes, ReceiveLine
  <1>4. QED
    BY <1>1, <1>2, <1>3, TypeParts, TypePartsNext

\* One turn of the move keeps the types; the count stays below the timeout.
LEMMA PollTypes ==
    ASSUME TypeOK, Poll
    PROVE  TypeOK'
  <1>1. QueueTypes' /\ BoardTypes'
    BY DEF TypeOK, QueueTypes, BoardTypes, Poll, board
  <1>2. PICK p \in Reached(move.motor, move.dir, Step) :
           /\ position' = [position EXCEPT ![move.motor] = p]
           /\ IF Ended(p)
              THEN Sleep(move.motor) /\ move' = NoMove /\ at' = after
              ELSE /\ move' = [move EXCEPT !.polls = Counted]
                   /\ UNCHANGED <<awake, pwm, at>>
    BY DEF Poll
  <1>3. position' \in [Motors -> Positions]
    BY <1>2 DEF TypeOK, Reached
  <1>4. CASE Ended(p)
    <2>1. NoMove \in Move
      BY DEF NoMove, Move, Motors, A, Positions
    <2>2. QED
      BY <1>1, <1>2, <1>3, <1>4, <2>1, TypeParts, TypePartsNext
      DEF TypeOK, PlaceTypes, MotorTypes, Sleep, Poll
  <1>5. CASE ~ Ended(p)
    <2>1. move.polls \in 0 .. MaxPolls
      BY <1>5 DEF TypeOK, Move, Ended
    <2>2. move' \in Move
      <3> DEFINE polls == move.polls + 1
      <3>1. polls \in 0 .. MaxPolls + 1
        BY <2>1
      <3>2. move' = [move EXCEPT !.polls = polls]
        BY <1>2, <1>5 DEF Counted
      <3> HIDE DEF polls
      <3>3. QED
        BY <3>1, <3>2 DEF TypeOK, Move
    <2>3. QED
      BY <1>1, <1>2, <1>3, <1>5, <2>2, TypeParts, TypePartsNext
      DEF TypeOK, PlaceTypes, MotorTypes, Poll
  <1>6. QED
    BY <1>4, <1>5

\* Every frame handler keeps the types.
LEMMA EventsTypes ==
    ASSUME TypeOK, Events
    PROVE  TypeOK'
  <1>1. QueueTypes'
    <2>1. rx' = rx \/ (rx # <<>> /\ rx' = Tail(rx))
      BY DEF Events
    <2>2. rx' \in Seq(Frames) /\ Len(rx') <= MaxQueue
      <3>1. CASE rx' = rx
        BY <3>1 DEF TypeOK
      <3>2. CASE rx # <<>> /\ rx' = Tail(rx)
        <4>1. Tail(rx) \in Seq(Frames) /\ Len(Tail(rx)) = Len(rx) - 1
          BY <3>2 DEF TypeOK
        <4>2. Len(rx) \in Nat /\ Len(rx) <= MaxQueue
          BY DEF TypeOK
        <4>3. QED
          BY <3>2, <4>1, <4>2
      <3>3. QED
        BY <2>1, <3>1, <3>2
    <2>3. QED
      BY <2>2 DEF TypeOK, QueueTypes, Events
  <1>2. CASE rx = <<>>
    BY <1>1, <1>2, TypeParts, TypePartsNext DEF Events, PlaceTypes, MotorTypes, BoardTypes, motor, board
  <1>3. CASE rx # <<>>
    <2> DEFINE f == Head(rx)
    <2>1. f \in Frames
      BY <1>3 DEF TypeOK
    <2> HIDE DEF f
    <2>2. \/ f.cmd = "dac" /\ SetDac(f)
          \/ f.cmd = "ttl" /\ SetTtl(f)
          \/ f.cmd = "monitor" /\ SetMonitor(f)
          \/ f.cmd \in {"move", "bump"} /\ SetMotor(f)
      BY <1>3 DEF Events, f
    <2>3. CASE f.cmd = "dac" /\ SetDac(f)
      <3>1. f.value \in Nat
        BY <2>1, <2>3, FrameFields
      <3>2. dacs' \in [Channels -> Nat] /\ chip' \in [Channels -> 0 .. Width - 1]
        <4>1. CASE f.ch \in Channels
          BY <2>3, <3>1, <4>1, DacTypes DEF SetDac
        <4>2. CASE f.ch \notin Channels
          BY <2>3, <4>2 DEF TypeOK, SetDac
        <4>3. QED
          BY <4>1, <4>2
      <3>3. QED
        BY <1>1, <2>3, <3>2, TypeParts, TypePartsNext
        DEF SetDac, PlaceTypes, MotorTypes, BoardTypes, motor
    <2>4. CASE f.cmd = "ttl" /\ SetTtl(f)
      BY <1>1, <2>1, <2>4, FrameFields, TypeParts, TypePartsNext
      DEF SetTtl, PlaceTypes, MotorTypes, BoardTypes, motor
    <2>5. CASE f.cmd = "monitor" /\ SetMonitor(f)
      BY <1>1, <2>1, <2>5, FrameFields, TypeParts, TypePartsNext
      DEF SetMonitor, PlaceTypes, MotorTypes, BoardTypes, motor
    <2>6. CASE f.cmd \in {"move", "bump"} /\ SetMotor(f)
      <3>1. BoardTypes'
        BY <2>6, TypeParts, TypePartsNext DEF SetMotor, BoardTypes, board
      <3>2. CASE f.cmd = "move"
        BY <1>1, <2>1, <2>6, <3>1, <3>2, FrameFields, StartMoveTypes, TypeParts, TypePartsNext
        DEF SetMotor, PlaceTypes
      <3>3. CASE f.cmd = "bump"
        BY <1>1, <2>1, <2>6, <3>1, <3>3, FrameFields, BumpTypes, TypeParts, TypePartsNext
        DEF SetMotor, PlaceTypes
      <3>4. QED
        BY <2>6, <3>2, <3>3
    <2>7. QED
      BY <2>2, <2>3, <2>4, <2>5, <2>6
  <1>4. QED
    BY <1>2, <1>3

\* Every console command keeps the types.
LEMMA SerialTypes ==
    ASSUME TypeOK, Serial
    PROVE  TypeOK'
  <1>1. QueueTypes'
    BY DEF TypeOK, QueueTypes, Serial
  <1>2. console.cmd = "none" \/ console \in Lines
    BY DEF TypeOK, Nothing
  <1>3. CASE at' = "status" /\ UNCHANGED <<after, motor, board>>
    BY <1>1, <1>3, TypeParts, TypePartsNext DEF PlaceTypes, MotorTypes, BoardTypes, motor, board
  <1>4. CASE console.cmd = "dcdc" /\ WriteLine(console)
               /\ at' = "status" /\ UNCHANGED <<after, motor, dacs, chip, blanking>>
    <2>1. console.line \in Bits /\ console.chip \in 1 .. 2
      BY <1>2, <1>4, LineFields
    <2>2. ttl' \in [1 .. 2 -> SUBSET Bits]
      BY <1>4, <2>1 DEF TypeOK, WriteLine, Readings
    <2>3. QED
      BY <1>1, <1>4, <2>2, TypeParts, TypePartsNext DEF PlaceTypes, MotorTypes, BoardTypes, motor
  <1>5. CASE console.cmd = "dac" /\ WriteDac(console.ch, console.value)
               /\ at' = "status" /\ UNCHANGED <<after, motor, ttl, blanking>>
    <2>1. console.value \in Nat
      BY <1>2, <1>5, LineFields
    <2>2. dacs' \in [Channels -> Nat] /\ chip' \in [Channels -> 0 .. Width - 1]
      BY <1>5, <2>1, DacTypes
    <2>3. QED
      BY <1>1, <1>5, <2>2, TypeParts, TypePartsNext DEF PlaceTypes, MotorTypes, BoardTypes, motor
  <1>6. CASE console.cmd = "move" /\ StartMove(console.motor, console.goal, "status")
               /\ UNCHANGED board
    <2>1. console.motor \in Motors /\ console.goal \in Nat
      BY <1>2, <1>6, LineFields
    <2>2. MotorTypes' /\ PlaceTypes'
      BY <1>6, <2>1, StartMoveTypes DEF PlaceTypes
    <2>3. QED
      BY <1>1, <1>6, <2>2, TypeParts, TypePartsNext DEF BoardTypes, board
  <1>7. CASE console.cmd = "bump" /\ BumpMotor(console.motor, console.dir)
               /\ at' = "status" /\ UNCHANGED <<after, board>>
    <2>1. MotorTypes'
      BY <1>2, <1>7, LineFields, BumpTypes
    <2>2. QED
      BY <1>1, <1>7, <2>1, TypeParts, TypePartsNext DEF PlaceTypes, BoardTypes, board
  <1>8. QED
    BY <1>3, <1>4, <1>5, <1>6, <1>7 DEF Serial

\* Every step keeps the types.
LEMMA NextTypes == TypeOK /\ [Next]_vars => TypeOK'
  <1> SUFFICES ASSUME TypeOK, [Next]_vars PROVE TypeOK'
    OBVIOUS
  <1>1. CASE (\E f \in Frames : ReceiveFrame(f)) \/ \E l \in Lines : ReceiveLine(l)
    BY <1>1, ReceiveTypes
  <1>2. CASE Status
    BY <1>2 DEF TypeOK, Status, motor, board
  <1>3. CASE Events
    BY <1>3, EventsTypes
  <1>4. CASE Serial
    BY <1>4, SerialTypes
  <1>5. CASE Poll
    BY <1>5, PollTypes
  <1>6. CASE UNCHANGED vars
    BY <1>6 DEF TypeOK, vars, motor, board
  <1>7. QED
    BY <1>1, <1>2, <1>3, <1>4, <1>5, <1>6 DEF Next, Loop

\* Every variable of the firmware keeps its type: a reading never leaves the
\* scale, a move never outlasts its timeout.
THEOREM TypeCorrect == Spec => []TypeOK
  BY InitTypes, NextTypes, PTL DEF Spec

-------------------------------------------------------------------------------
(* The driver *)

\* A move starts only where none is under way, and drives its own motor.
LEMMA StartMoveDriver ==
    ASSUME TypeOK, OneMotorDriven, at # "move", NEW m \in Motors, NEW goal,
           NEW then \in {"status", "serial"}, StartMove(m, goal, then)
    PROVE  OneMotorDriven'
  <1>1. PICK reading :
            IF reading = goal
            THEN at' = then /\ UNCHANGED <<after, motor>>
            ELSE IF Distance(goal, reading) <= Near
            THEN at' = then /\ Sleep(m) /\ UNCHANGED <<after, move, position>>
            ELSE /\ at' = "move" /\ after' = then
                 /\ move' = [motor |-> m, goal |-> goal, polls |-> 0,
                             start |-> position[m],
                             dir |-> IF reading < goal THEN Up ELSE Down]
                 /\ Wake(m, IF reading < goal THEN Up ELSE Down)
                 /\ UNCHANGED position
    BY DEF StartMove
  <1>2. CASE reading = goal
    BY <1>1, <1>2 DEF OneMotorDriven, motor
  <1>3. CASE reading # goal /\ Distance(goal, reading) <= Near
    BY <1>1, <1>3 DEF TypeOK, OneMotorDriven, Sleep
  <1>4. CASE reading # goal /\ ~ (Distance(goal, reading) <= Near)
    <2> DEFINE dir == IF reading < goal THEN Up ELSE Down
    <2>1. /\ at' = "move" /\ move'.motor = m /\ move'.dir = dir
          /\ awake' = TRUE /\ pwm' = [pwm EXCEPT ![m] = dir]
      BY <1>1, <1>4 DEF Wake
    <2> HIDE DEF dir
    <2>2. QED
      BY <2>1 DEF TypeOK, OneMotorDriven
  <1>5. QED
    BY <1>2, <1>3, <1>4

\* A bump ends with the driver off.
LEMMA BumpDriver ==
    ASSUME TypeOK, OneMotorDriven, at # "move", at' # "move", NEW m \in Motors,
           NEW dir, BumpMotor(m, dir)
    PROVE  OneMotorDriven'
  BY DEF TypeOK, OneMotorDriven, BumpMotor, Sleep, motor

\* A turn of the move leaves the driver as it is, or off when it ends.
LEMMA PollDriver ==
    ASSUME TypeOK, OneMotorDriven, Poll
    PROVE  OneMotorDriven'
  <1>1. PICK p : IF Ended(p)
                 THEN Sleep(move.motor) /\ move' = NoMove /\ at' = after
                 ELSE /\ move' = [move EXCEPT !.polls = Counted]
                      /\ UNCHANGED <<awake, pwm, at>>
    BY DEF Poll
  <1>2. CASE Ended(p)
    BY <1>1, <1>2 DEF TypeOK, Move, OneMotorDriven, Sleep, Poll
  <1>3. CASE ~ Ended(p)
    <2>1. move'.motor = move.motor /\ move'.dir = move.dir
      BY <1>1, <1>3 DEF TypeOK, Move
    <2>2. QED
      BY <1>1, <1>3, <2>1 DEF OneMotorDriven
  <1>4. QED
    BY <1>2, <1>3

\* Every step keeps the driver to the motor of the move.
LEMMA NextDriver == TypeOK /\ OneMotorDriven /\ [Next]_vars => OneMotorDriven'
  <1> SUFFICES ASSUME TypeOK, OneMotorDriven, [Next]_vars PROVE OneMotorDriven'
    OBVIOUS
  <1>1. CASE UNCHANGED <<at, motor>>
    BY <1>1 DEF OneMotorDriven, motor
  <1>2. CASE at # "move" /\ at' # "move" /\ UNCHANGED motor
    BY <1>2 DEF OneMotorDriven, motor
  <1>3. CASE Events
    <2>1. at = "events" /\ at' # "events"
      BY <1>3 DEF Events, SetDac, SetTtl, SetMonitor, SetMotor, StartMove
    <2>2. CASE rx # <<>> /\ Head(rx).cmd \in {"move", "bump"} /\ SetMotor(Head(rx))
      <3>1. Head(rx) \in Frames
        BY <2>2 DEF TypeOK
      <3>2. Head(rx).motor \in Motors
        BY <2>2, <3>1, FrameFields
      <3>3. QED
        BY <2>1, <2>2, <3>2, StartMoveDriver, BumpDriver DEF SetMotor
    <2>3. CASE ~ (rx # <<>> /\ Head(rx).cmd \in {"move", "bump"} /\ SetMotor(Head(rx)))
      BY <1>2, <1>3, <2>1, <2>3 DEF Events, SetDac, SetTtl, SetMonitor
    <2>4. QED
      BY <2>2, <2>3
  <1>4. CASE Serial
    <2>1. at = "serial"
      BY <1>4 DEF Serial
    <2>2. CASE console.cmd \in {"move", "bump"} /\ console \in Lines
      <3>1. console.motor \in Motors
        BY <2>2, LineFields
      <3>2. CASE StartMove(console.motor, console.goal, "status")
        BY <2>1, <3>1, <3>2, StartMoveDriver
      <3>3. CASE BumpMotor(console.motor, console.dir) /\ at' = "status"
        BY <2>1, <3>1, <3>3, BumpDriver
      <3>4. QED
        BY <1>2, <1>4, <2>1, <2>2, <3>2, <3>3 DEF Serial
    <2>3. CASE ~ (console.cmd \in {"move", "bump"} /\ console \in Lines)
      <3>1. console.cmd \notin {"move", "bump"}
        BY <2>3 DEF TypeOK, Nothing
      <3>2. QED
        BY <1>2, <1>4, <2>1, <3>1 DEF Serial
    <2>4. QED
      BY <2>2, <2>3
  <1>5. CASE Poll
    BY <1>5, PollDriver
  <1>6. QED
    BY <1>1, <1>2, <1>3, <1>4, <1>5
    DEF Next, Loop, Status, ReceiveFrame, ReceiveLine, vars, motor

\* For any board: the driver is awake during a move only and drives the one
\* motor of that move, on every path out of moveMotor() and bumpMotor().
THEOREM DriverFollowsMove == Spec => []OneMotorDriven
  <1>1. Init => OneMotorDriven
    BY DEF Init, OneMotorDriven
  <1>2. QED
    BY <1>1, InitTypes, NextTypes, NextDriver, PTL DEF Spec

-------------------------------------------------------------------------------
(* The limits *)

\* A move starts where the motor is, in a direction.
LEMMA StartMoveInside ==
    ASSUME TypeOK, at # "move", NEW m \in Motors, NEW goal, NEW then,
           then # "move", StartMove(m, goal, then)
    PROVE  InsideOrStart'
  BY DEF StartMove, InsideOrStart, Up, Down

\* A turn of the loop that goes on found the motor within the limits.
LEMMA PollInside ==
    ASSUME TypeOK, InsideOrStart, Poll
    PROVE  InsideOrStart'
  <1>1. PICK p \in Positions :
            /\ position' = [position EXCEPT ![move.motor] = p]
            /\ IF Ended(p)
               THEN Sleep(move.motor) /\ move' = NoMove /\ at' = after
               ELSE /\ move' = [move EXCEPT !.polls = Counted]
                    /\ UNCHANGED <<awake, pwm, at>>
    BY DEF Poll, Reached
  <1>2. CASE Ended(p)
    BY <1>1, <1>2 DEF TypeOK, InsideOrStart
  <1>3. CASE ~ Ended(p)
    <2>1. /\ move'.motor = move.motor /\ move'.motor \in Motors
          /\ move'.dir = move.dir /\ move.dir # 0
      BY <1>1, <1>3 DEF TypeOK, Move, InsideOrStart, Poll
    <2>2. position'[move'.motor] = p
      BY <1>1, <2>1 DEF TypeOK
    <2>3. ~ OutOfRange(move'.motor, p)
      BY <1>3, <2>1 DEF Ended
    <2>4. QED
      BY <2>1, <2>2, <2>3 DEF InsideOrStart, OutOfRange
  <1>4. QED
    BY <1>2, <1>3

\* Every step keeps a move inside.
LEMMA NextInside == TypeOK /\ InsideOrStart /\ [Next]_vars => InsideOrStart'
  <1> SUFFICES ASSUME TypeOK, InsideOrStart, [Next]_vars PROVE InsideOrStart'
    OBVIOUS
  <1>1. CASE UNCHANGED <<at, motor>>
    BY <1>1 DEF InsideOrStart, OutOfRange, motor
  <1>2. CASE at' # "move"
    BY <1>2 DEF InsideOrStart
  <1>3. CASE Events
    <2>1. CASE rx # <<>> /\ Head(rx).cmd = "move"
      <3>1. Head(rx) \in Frames
        BY <2>1 DEF TypeOK
      <3>2. Head(rx).motor \in Motors
        BY <2>1, <3>1, FrameFields
      <3>3. StartMove(Head(rx).motor, Head(rx).goal, "serial")
        BY <1>3, <2>1 DEF Events, SetMotor
      <3>4. QED
        BY <1>3, <3>2, <3>3, StartMoveInside DEF Events
    <2>2. CASE ~ (rx # <<>> /\ Head(rx).cmd = "move")
      BY <1>2, <1>3, <2>2 DEF Events, SetDac, SetTtl, SetMonitor, SetMotor
    <2>3. QED
      BY <2>1, <2>2
  <1>4. CASE Serial
    <2>1. CASE StartMove(console.motor, console.goal, "status") /\ console.cmd = "move"
      <3>1. console \in Lines
        BY <2>1 DEF TypeOK, Nothing
      <3>2. console.motor \in Motors
        BY <2>1, <3>1, LineFields
      <3>3. QED
        BY <1>4, <2>1, <3>2, StartMoveInside DEF Serial
    <2>2. CASE ~ (StartMove(console.motor, console.goal, "status") /\ console.cmd = "move")
      BY <1>2, <1>4, <2>2 DEF Serial
    <2>3. QED
      BY <2>1, <2>2
  <1>5. CASE Poll
    BY <1>5, PollInside
  <1>6. QED
    BY <1>1, <1>2, <1>3, <1>4, <1>5
    DEF Next, Loop, Status, ReceiveFrame, ReceiveLine, vars, motor

\* One turn takes the motor one reading's travel from where it was.
LEMMA PollTravels ==
    ASSUME TypeOK, InsideOrStart, Poll, NEW m \in Limited
    PROVE  Envelope(m)
  <1> SUFFICES ASSUME move.motor = m PROVE Envelope(m)
    BY DEF Envelope
  <1>1. PICK p \in Reached(m, move.dir, Step) : position' = [position EXCEPT ![m] = p]
    BY DEF Poll
  <1>2. /\ position[m] \in Nat /\ move.start \in Nat /\ p \in Nat
        /\ move.dir \in {Down, 0, Up} /\ position'[m] = p
    BY <1>1 DEF TypeOK, Reached, Move, Positions, Limited, Motors
  <1>3. move.dir * (p - position[m]) \in 0 .. Step
    BY <1>1 DEF Reached
  <1>4. p <= position[m] + Step /\ p >= position[m] - Step
    <2>1. move.dir # 0
      BY DEF InsideOrStart, Poll
    <2>2. CASE move.dir = 1
      BY <1>2, <1>3, <2>2
    <2>3. CASE move.dir = -1
      BY <1>2, <1>3, <2>3
    <2>4. QED
      BY <1>2, <2>1, <2>2, <2>3 DEF Up, Down
  <1>5. position[m] = move.start \/ position[m] \in Lower .. Upper
    BY <1>2 DEF InsideOrStart, OutOfRange, Poll
  <1>6. QED
    BY <1>2, <1>4, <1>5 DEF Envelope

\* No step takes a motor out of its envelope.
LEMMA NextContained ==
    ASSUME TypeOK, InsideOrStart, [Next]_vars, NEW m \in Limited
    PROVE  Envelope(m)
  <1>1. CASE Poll
    BY <1>1, PollTravels
  <1>2. CASE at # "move"
    BY <1>2 DEF Envelope
  <1>3. CASE UNCHANGED position
    <2> SUFFICES ASSUME at = "move", move.motor = m PROVE Envelope(m)
      BY DEF Envelope
    <2>1. position[m] \in Nat /\ move.start \in Nat
      BY DEF TypeOK, Positions, Limited, Motors, Move
    <2>2. position[m] = move.start \/ position[m] \in Lower .. Upper
      BY <2>1 DEF InsideOrStart, OutOfRange
    <2>3. QED
      BY <1>3, <2>1, <2>2 DEF Envelope
  <1>4. QED
    BY <1>1, <1>2, <1>3
    DEF Next, Loop, Status, Events, Serial, ReceiveFrame, ReceiveLine, vars, motor

\* For any limits, goals, starting points and travel, whichever channel
\* moveMotor() took its direction from: a move of the tuner or the backshort
\* leaves the limits, or goes on from where it began outside them, by what the
\* motor travels between two readings and no further.
THEOREM MovesContained == Spec => MoveContained
  <1>1. Init => InsideOrStart
    BY DEF Init, InsideOrStart
  <1>2. TypeOK /\ InsideOrStart /\ [Next]_vars =>
            [\A m \in Limited : Envelope(m)]_vars
    BY NextContained
  <1>3. (\A m \in Limited : Envelope(m)) =>
            \A m \in Limited :
               (at = "move" /\ move.motor = m) =>
                   /\ \/ position'[m] >= Lower - Step
                      \/ position'[m] >= move.start - Step
                   /\ \/ position'[m] <= Upper + Step
                      \/ position'[m] <= move.start + Step
    BY DEF Envelope
  <1>4. QED
    BY <1>1, <1>2, <1>3, InitTypes, NextTypes, NextInside, PTL DEF Spec, MoveContained
=============================================================================
