------------------------- MODULE SpectrometerProofs -------------------------
(***************************************************************************)
(* Spectrometer implements Observation, for any number of labels,          *)
(* integrations, commands and lost packets: its initial states are         *)
(* Observation's, and each of its steps is one of Observation's or none.   *)
(*                                                                         *)
(* What the proof needs of a state: Typed, where send_data() is and how    *)
(* much it summed; Fresh, which load the packets come from; Chained and    *)
(* InStep, how the labels follow one another.                              *)
(***************************************************************************)
EXTENDS Spectrometer, TLAPS

USE SpectrometerAssumption DEF SpectrometerAssumption

\* Where send_data() is: data are wanted, packets are there while the socket
\* is open, and the sum is empty before it begins and short of a spectrum until
\* it ends.
Place ==
    /\ at \in {"fake1", "fake2", "fake3", "sync", "sum"} => running
    /\ at = "sum" => open /\ n < Labels * Integration
    /\ ~ open => udp = <<>>
    /\ at = "sync" => /\ ~ open => lost
                      /\ n = 0 /\ loads = {} /\ sums = [l \in LabelSet |-> 0]
    /\ \A l \in LabelSet : sums[l] <= n

Typed == TypeOK /\ Place

\* Unless vaned moved it, the load is where the last command put it, and what
\* waits and what is summed is from there.
Fresh ==
    /\ (~ moved /\ at # "settle") => load = promised
    /\ (~ moved /\ at = "settle") => load = mode
    /\ NoStalePackets

\* Unless one is missing before it, a packet has the label after the one before
\* it, and so has the next one of the board.
Chained ==
    /\ \A j \in 1 .. Len(udp) - 1 :
           ~ udp[j + 1].gap => udp[j + 1].label = (udp[j].label + 1) % Labels
    /\ (udp # <<>> /\ ~ gap) => next = (udp[Len(udp)].label + 1) % Labels

\* The packet that comes next has label c, unless one is missing before it.
Expected(c) ==
    /\ (udp # <<>> /\ ~ udp[1].gap) => udp[1].label = c
    /\ (udp = <<>> /\ ~ gap) => next = c

\* After m packets: q whole integrations and the labels before c of another.
Balanced(s, m, q, c) ==
    /\ m = Labels * q + c
    /\ \A l \in LabelSet : s[l] = IF l < c THEN q + 1 ELSE q

InStep ==
    (at = "sum" /\ ~ lost) =>
        \E q \in Nat, c \in LabelSet : Balanced(sums, n, q, c) /\ Expected(c)

-------------------------------------------------------------------------------
(* Arithmetic *)

\* The label after c.
LEMMA NextLabel ==
    ASSUME NEW c \in LabelSet
    PROVE  /\ (c + 1) % Labels \in LabelSet
           /\ (c + 1) % Labels = IF c = LastLabel THEN 0 ELSE c + 1
  BY SMT DEF LabelSet, LastLabel

\* Whole integrations and a rest: the number of one follows from the sum.
LEMMA DivideRest ==
    ASSUME NEW q \in Int, NEW c \in LabelSet, NEW a \in Int, a = Labels * q + c
    PROVE  a \div Labels = q
  BY SMT DEF LabelSet

LEMMA WholeRest ==
    ASSUME NEW q \in Int, NEW c \in LabelSet, Labels * Integration = Labels * q + c
    PROVE  q = Integration /\ c = 0
  BY SMT DEF LabelSet

\* A spectrum has packets.
LEMMA SomePackets == Labels * Integration \in Nat \ {0}
  BY SMT

-------------------------------------------------------------------------------
(* Types and places *)

\* ibob_control starts with nothing to send.
LEMMA InitTyped == Init => Typed
  <1> SUFFICES ASSUME Init PROVE Typed
    OBVIOUS
  <1>1. sums \in [LabelSet -> 0 .. Labels * Integration] /\ n \in 0 .. Labels * Integration
    BY SomePackets DEF Init
  <1>2. next \in LabelSet /\ k \in 0 .. Spectra - 1
    BY DEF Init, LabelSet
  <1>3. udp \in Seq(Packet) /\ Len(udp) <= MaxQueue
    BY DEF Init
  <1>4. inbox \in Seq(IbobCommands) /\ vaneInbox \in Seq(VaneCommands)
    BY DEF Init
  <1>5. before \in [running : BOOLEAN, mode : {Sky, Hot}]
    BY DEF Init, NotSwitching
  <1>6. losses \in 0 .. MaxLost /\ commands \in 0 .. MaxCommands
    BY DEF Init
  <1>7. TypeOK
    BY <1>1, <1>2, <1>3, <1>4, <1>5, <1>6 DEF Init, TypeOK
  <1>8. Place
    BY DEF Init, Place
  <1>9. QED
    BY <1>7, <1>8 DEF Typed

\* The board sends packets of its labels.
LEMMA EmitTyped ==
    ASSUME Typed, Emit
    PROVE  Typed'
  <1>1. next' \in LabelSet
    BY NextLabel DEF Typed, TypeOK, Emit
  <1>2. udp' \in Seq(Packet) /\ Len(udp') <= MaxQueue
    <2>1. CASE ~ open
      BY <2>1 DEF Typed, TypeOK, Emit
    <2>2. CASE open
      <3>1. [label |-> next, load |-> load, gap |-> gap] \in Packet
        BY DEF Typed, TypeOK, Packet
      <3>2. udp' = Append(udp, [label |-> next, load |-> load, gap |-> gap])
        BY <2>2 DEF Emit
      <3>3. QED
        BY <3>1, <3>2 DEF Typed, TypeOK, Emit
    <2>3. QED
      BY <2>1, <2>2
  <1>3. gap' \in BOOLEAN
    BY DEF Emit
  <1>4. TypeOK'
    BY <1>1, <1>2, <1>3 DEF Typed, TypeOK, Emit, progVars, sumVars, vaneVars, history
  <1>5. Place'
    BY DEF Typed, Place, Emit, progVars, sumVars
  <1>6. QED
    BY <1>4, <1>5 DEF Typed

\* A lost packet leaves a gap.
LEMMA LoseTyped ==
    ASSUME Typed, Lose
    PROVE  Typed'
  <1>1. next' \in LabelSet
    BY NextLabel DEF Typed, TypeOK, Lose
  <1>2. losses' \in 0 .. MaxLost
    BY DEF Typed, TypeOK, Lose
  <1>3. TypeOK'
    BY <1>1, <1>2 DEF Typed, TypeOK, Lose, progVars, sumVars, vaneVars, history
  <1>4. Place'
    BY DEF Typed, Place, Lose, progVars, sumVars
  <1>5. QED
    BY <1>3, <1>4 DEF Typed

\* Data are begun only while they are wanted.
LEMMA TopTyped ==
    ASSUME Typed, Top
    PROVE  Typed'
  <1>1. /\ at' \in {"fake1", "read"}
        /\ at' = "fake1" => running
        /\ UNCHANGED <<running, client, mode, zero, open>>
    BY DEF Top, Goto
  <1>2. TypeOK'
    BY <1>1 DEF Typed, TypeOK, Top, sumVars, boardVars, vaneVars, history
  <1>3. Place'
    BY <1>1 DEF Typed, Place, Top, sumVars
  <1>4. QED
    BY <1>2, <1>3 DEF Typed

\* The tests for fake data.  After the last the sum is empty.
LEMMA FakeTestCases ==
    ASSUME Typed, NEW f \in 1 .. 3, FakeTest(f)
    PROVE  /\ at \in {"fake1", "fake2", "fake3"} /\ at' \in {"fake2", "fake3", "sync", "read"}
           /\ k' \in 0 .. Spectra - 1
           /\ \/ /\ at' = "sync" /\ NoSum /\ lost' = ~ open
                 /\ udp' = IF open THEN <<>> ELSE udp
                 /\ UNCHANGED heard
              \/ /\ at' # "sync" /\ UNCHANGED <<udp, sumVars, lost>>
                 /\ \/ UNCHANGED heard
                    \/ at' = "read" /\ heard' = Report(f, sums, loads, lost)
  <1>1. NextSpectrum \in 0 .. Spectra - 1
    BY SMT DEF Typed, TypeOK, NextSpectrum
  <1>2. k' \in 0 .. Spectra - 1
    BY <1>1 DEF Typed, TypeOK, FakeTest
  <1>3. f = 1 \/ f = 2 \/ f = 3
    OBVIOUS
  <1>4. QED
    BY <1>2, <1>3 DEF FakeTest, Goto, Cleared

LEMMA FakeTestTyped ==
    ASSUME Typed, NEW f \in 1 .. 3, FakeTest(f)
    PROVE  Typed'
  <1>1. UNCHANGED <<running, client, mode, zero, open>>
    BY DEF FakeTest, Goto
  <1>2. CASE at' = "sync" /\ NoSum /\ lost' = ~ open /\ udp' = IF open THEN <<>> ELSE udp
    <2>1. /\ sums' \in [LabelSet -> 0 .. Labels * Integration] /\ n' \in 0 .. Labels * Integration
          /\ loads' \subseteq {Sky, Hot}
      BY <1>2, SomePackets DEF NoSum
    <2>2. udp' \in Seq(Packet) /\ Len(udp') <= MaxQueue
      BY <1>2 DEF Typed, TypeOK
    <2>3. lost' \in BOOLEAN
      BY <1>2
    <2>4. TypeOK'
      BY <1>1, <1>2, <2>1, <2>2, <2>3, FakeTestCases
      DEF Typed, TypeOK, FakeTest, boardVars, vaneVars, history
    <2>5. Place'
      BY <1>1, <1>2, FakeTestCases DEF Typed, Place, NoSum, LabelSet
    <2>6. QED
      BY <2>4, <2>5 DEF Typed
  <1>3. CASE at' # "sync" /\ UNCHANGED <<udp, sumVars, lost>>
    <2>1. TypeOK'
      BY <1>1, <1>3, FakeTestCases
      DEF Typed, TypeOK, FakeTest, sumVars, boardVars, vaneVars, history
    <2>2. Place'
      BY <1>1, <1>3, FakeTestCases DEF Typed, Place, sumVars
    <2>3. QED
      BY <2>1, <2>2 DEF Typed
  <1>4. QED
    BY <1>2, <1>3, FakeTestCases

\* A packet that is waited for leaves the socket; if it ends an integration the
\* sum begins.
LEMMA SyncTyped ==
    ASSUME Typed, Sync
    PROVE  Typed'
  <1>1. at' \in {"sum", "sync"} /\ UNCHANGED <<running, client, mode, zero, open>>
    BY DEF Sync, Goto
  <1>2. udp' \in Seq(Packet) /\ Len(udp') <= MaxQueue
    BY DEF Typed, TypeOK, Sync
  <1>3. TypeOK'
    BY <1>1, <1>2 DEF Typed, TypeOK, Sync, sumVars, boardVars, vaneVars, history
  <1>4. Place'
    BY <1>1, SomePackets DEF Typed, TypeOK, Place, Sync, sumVars
  <1>5. QED
    BY <1>3, <1>4 DEF Typed

\* A packet is added: it may be the last one, and else the sum is still short.
LEMMA SumCases ==
    ASSUME Typed, Sum, NEW p, p = Head(udp)
    PROVE  /\ p \in Packet /\ udp' = Tail(udp) /\ at = "sum" /\ udp # <<>>
           /\ [sums EXCEPT ![p.label] = @ + 1] \in [LabelSet -> 0 .. n + 1]
           /\ loads \cup {p.load} \subseteq {Sky, Hot}
           /\ (lost \/ p.gap) \in BOOLEAN
           /\ n \in Nat /\ n < Labels * Integration
           /\ \/ /\ Complete /\ NoSum /\ lost' = FALSE /\ at' = "read"
                 /\ heard' = Report(0, [sums EXCEPT ![p.label] = @ + 1],
                                    loads \cup {p.load}, lost \/ p.gap)
              \/ /\ ~ Complete /\ n' = n + 1 /\ at' = "sum" /\ UNCHANGED heard
                 /\ sums' = [sums EXCEPT ![p.label] = @ + 1]
                 /\ loads' = loads \cup {p.load} /\ lost' = (lost \/ p.gap)
  <1>1. at = "sum" /\ udp # <<>> /\ udp' = Tail(udp)
    BY DEF Sum
  <1>2. p \in Packet
    BY <1>1 DEF Typed, TypeOK
  <1>3. p.label \in LabelSet /\ p.load \in {Sky, Hot} /\ p.gap \in BOOLEAN
    BY <1>2 DEF Packet
  <1>4. n \in Nat /\ n < Labels * Integration /\ \A l \in LabelSet : sums[l] \in 0 .. n
    BY <1>1, SomePackets DEF Typed, TypeOK, Place
  <1>5. [sums EXCEPT ![p.label] = @ + 1] \in [LabelSet -> 0 .. n + 1]
    BY <1>3, <1>4 DEF Typed, TypeOK
  <1>6. loads \cup {p.load} \subseteq {Sky, Hot}
    BY <1>3 DEF Typed, TypeOK
  <1>7. \/ /\ Complete /\ NoSum /\ lost' = FALSE /\ at' = "read"
           /\ heard' = Report(0, [sums EXCEPT ![p.label] = @ + 1],
                              loads \cup {p.load}, lost \/ p.gap)
        \/ /\ ~ Complete /\ n' = n + 1 /\ at' = "sum" /\ UNCHANGED heard
           /\ sums' = [sums EXCEPT ![p.label] = @ + 1]
           /\ loads' = loads \cup {p.load} /\ lost' = (lost \/ p.gap)
    BY DEF Sum, Goto
  <1>8. (lost \/ p.gap) \in BOOLEAN
    OBVIOUS
  <1>9. QED
    BY <1>1, <1>2, <1>4, <1>5, <1>6, <1>7, <1>8

LEMMA SumTyped ==
    ASSUME Typed, Sum
    PROVE  Typed'
  <1> DEFINE p == Head(udp)
  <1>1. UNCHANGED <<running, client, mode, zero, open>>
    BY DEF Sum, Goto
  <1>2. udp # <<>> /\ udp' = Tail(udp) /\ open
    BY DEF Typed, Place, Sum
  <1>3. udp' \in Seq(Packet) /\ Len(udp') <= MaxQueue
    BY <1>2 DEF Typed, TypeOK
  <1>4. /\ sums' \in [LabelSet -> 0 .. Labels * Integration]
        /\ n' \in 0 .. Labels * Integration /\ loads' \subseteq {Sky, Hot}
        /\ lost' \in BOOLEAN /\ at' \in {"read", "sum"}
        /\ at' = "sum" => n' < Labels * Integration
        /\ \A l \in LabelSet : sums'[l] <= n'
    <2>1. CASE Complete /\ NoSum /\ lost' = FALSE /\ at' = "read"
      <3>1. n' = 0 /\ loads' = {} /\ sums' = [l \in LabelSet |-> 0]
        BY <2>1 DEF NoSum
      <3>2. /\ sums' \in [LabelSet -> 0 .. Labels * Integration]
            /\ n' \in 0 .. Labels * Integration /\ loads' \subseteq {Sky, Hot}
            /\ \A l \in LabelSet : sums'[l] <= n'
        BY <3>1, SomePackets
      <3>3. lost' \in BOOLEAN /\ at' = "read"
        BY <2>1
      <3> HIDE DEF p
      <3>4. QED
        BY <3>2, <3>3
    <2>2. CASE /\ ~ Complete /\ n' = n + 1 /\ at' = "sum"
               /\ sums' = [sums EXCEPT ![p.label] = @ + 1]
               /\ loads' = loads \cup {p.load} /\ lost' = (lost \/ p.gap)
      <3>1. n' \in 0 .. Labels * Integration /\ n' < Labels * Integration
        BY <2>2, SumCases, SomePackets DEF Complete
      <3>2. sums' \in [LabelSet -> 0 .. n']
        BY <2>2, SumCases
      <3>3. loads' \subseteq {Sky, Hot} /\ lost' \in BOOLEAN
        BY <2>2, SumCases
      <3> HIDE DEF p
      <3>4. QED
        BY <2>2, <3>1, <3>2, <3>3, SomePackets
    <2>3. QED
      BY <2>1, <2>2, SumCases
  <1>5. TypeOK'
    BY <1>1, <1>3, <1>4 DEF Typed, TypeOK, Sum, boardVars, vaneVars, history
  <1>6. Place'
    BY <1>1, <1>2, <1>4 DEF Typed, Place, Sum
  <1>7. QED
    BY <1>5, <1>6 DEF Typed

\* The old bytes end the data of a closed socket.
LEMMA StaleTyped ==
    ASSUME Typed, Stale
    PROVE  Typed'
  <1>1. at' = "read" /\ UNCHANGED <<running, client, mode, zero, open>>
    BY DEF Stale, Goto
  <1>2. lost' \in BOOLEAN
    BY DEF Stale
  <1>3. TypeOK'
    BY <1>1, <1>2 DEF Typed, TypeOK, Stale, sumVars, boardVars, vaneVars, history
  <1>4. Place'
    BY <1>1 DEF Typed, Place, Stale, sumVars
  <1>5. QED
    BY <1>3, <1>4 DEF Typed

\* So does a mailbox with no command.
LEMMA NoCommandTyped ==
    ASSUME Typed, NoCommand
    PROVE  Typed'
  <1>1. at' = "top" /\ UNCHANGED <<running, client, mode, zero, open>>
    BY DEF NoCommand, Goto
  <1>2. TypeOK'
    BY <1>1 DEF Typed, TypeOK, NoCommand, sumVars, boardVars, vaneVars, history
  <1>3. Place'
    BY <1>1 DEF Typed, Place, NoCommand, sumVars
  <1>4. QED
    BY <1>2, <1>3 DEF Typed

\* What taking a command leaves in the mailboxes and in the sum.
LEMMA ReceiveKeeps ==
    ASSUME Typed, NEW cs \in SUBSET AllIbobCommands, Receive(cs)
    PROVE  /\ at = "read" /\ Head(inbox) \in cs /\ inbox' \in Seq(IbobCommands)
           /\ client' \in BOOLEAN
           /\ UNCHANGED <<k, sumVars, boardVars, load, vaneVars, commands>>
  BY DEF Typed, TypeOK, Receive

\* do_sky() and do_hot() leave ibob_control as it can be.
LEMMA SwitchTyped ==
    ASSUME Typed, Switch
    PROVE  Typed'
  <1>1. {"sky", "hot"} \in SUBSET AllIbobCommands
    BY DEF AllIbobCommands
  <1>2. /\ inbox' \in Seq(IbobCommands) /\ client' \in BOOLEAN
        /\ UNCHANGED <<k, sumVars, boardVars, load, vaneVars, commands>>
    BY <1>1, ReceiveKeeps DEF Switch
  <1>3. /\ running' \in BOOLEAN /\ mode' \in {Sky, Hot} /\ at' = "cal"
        /\ UNCHANGED <<zero, open, heard, moved, lost, promised>>
        /\ udp' = IF open THEN <<>> ELSE udp
    BY DEF Switch, Cleared
  <1>4. before' \in [running : BOOLEAN, mode : {Sky, Hot}]
    BY DEF Switch, Typed, TypeOK
  <1>5. udp' \in Seq(Packet) /\ Len(udp') <= MaxQueue
    BY <1>3 DEF Typed, TypeOK
  <1>6. TypeOK'
    BY <1>2, <1>3, <1>4, <1>5 DEF Typed, TypeOK, sumVars, boardVars, vaneVars
  <1>7. Place'
    BY <1>2, <1>3 DEF Typed, Place, sumVars
  <1>8. QED
    BY <1>6, <1>7 DEF Typed

\* So does "cal".
LEMMA CalTyped ==
    ASSUME Typed, Cal
    PROVE  Typed'
  <1>1. at' = "settle" /\ UNCHANGED <<running, client, mode, zero, open>>
    BY DEF Cal, Goto
  <1>2. moved' \in BOOLEAN /\ load' \in {Sky, Hot}
    BY DEF Cal, Typed, TypeOK
  <1>3. TypeOK'
    BY <1>1, <1>2 DEF Typed, TypeOK, Cal, sumVars, boardVars, vaneVars, history
  <1>4. Place'
    BY <1>1 DEF Typed, Place, Cal, sumVars
  <1>5. QED
    BY <1>3, <1>4 DEF Typed

\* And what do_sky() and do_hot() do after it.
LEMMA SettleTyped ==
    ASSUME Typed, Settle
    PROVE  Typed'
  <1>1. /\ at' = "top" /\ running' \in BOOLEAN
        /\ udp' = IF open THEN <<>> ELSE udp
        /\ UNCHANGED <<client, mode, zero, k, open, sumVars, inbox, boardVars,
                       load, vaneVars, moved, lost, commands>>
    BY DEF Settle, Cleared
  <1>2. promised' \in {Sky, Hot}
    BY DEF Settle, Typed, TypeOK
  <1>3. before' \in [running : BOOLEAN, mode : {Sky, Hot}]
    BY DEF Settle, NotSwitching
  <1>4. udp' \in Seq(Packet) /\ Len(udp') <= MaxQueue
    BY <1>1 DEF Typed, TypeOK
  <1>5. TypeOK'
    BY <1>1, <1>2, <1>3, <1>4 DEF Typed, TypeOK, sumVars, boardVars, vaneVars
  <1>6. Place'
    BY <1>1 DEF Typed, Place, sumVars
  <1>7. QED
    BY <1>5, <1>6 DEF Typed

\* do_zero_in() and do_zero_out() have no "cal" between.
LEMMA ZeroTyped ==
    ASSUME Typed, Zero
    PROVE  Typed'
  <1>1. {"zero_in", "zero_out"} \in SUBSET AllIbobCommands
    BY DEF AllIbobCommands
  <1>2. /\ inbox' \in Seq(IbobCommands) /\ client' \in BOOLEAN
        /\ UNCHANGED <<k, sumVars, boardVars, load, vaneVars, commands>>
    BY <1>1, ReceiveKeeps DEF Zero
  <1>3. /\ mode' \in {Sky, Hot} /\ zero' \in {0, 1} /\ running' \in BOOLEAN
        /\ at' = "top" /\ udp' = IF open THEN <<>> ELSE udp
        /\ UNCHANGED <<open, moved, lost, history>>
    BY DEF Zero, Cleared
  <1>4. udp' \in Seq(Packet) /\ Len(udp') <= MaxQueue
    BY <1>3 DEF Typed, TypeOK
  <1>5. TypeOK'
    BY <1>2, <1>3, <1>4 DEF Typed, TypeOK, sumVars, boardVars, vaneVars, history
  <1>6. Place'
    BY <1>2, <1>3 DEF Typed, Place, sumVars
  <1>7. QED
    BY <1>5, <1>6 DEF Typed

\* The commands that only start or stop the data.
LEMMA SimpleTyped ==
    ASSUME Typed, Simple
    PROVE  Typed'
  <1>1. {"start", "stop", "config", "cold"} \in SUBSET AllIbobCommands
    BY DEF AllIbobCommands
  <1>2. /\ inbox' \in Seq(IbobCommands) /\ client' \in BOOLEAN
        /\ UNCHANGED <<k, sumVars, boardVars, load, vaneVars, commands>>
    BY <1>1, ReceiveKeeps DEF Simple
  <1>3. running' \in BOOLEAN
    BY DEF Simple, RunsAfter, Typed, TypeOK
  <1>4. at' = "top" /\ UNCHANGED <<mode, zero, open, udp, moved, lost, history>>
    BY DEF Simple
  <1>5. TypeOK'
    BY <1>2, <1>3, <1>4 DEF Typed, TypeOK, sumVars, boardVars, vaneVars, history
  <1>6. Place'
    BY <1>2, <1>4 DEF Typed, Place, sumVars
  <1>7. QED
    BY <1>5, <1>6 DEF Typed

\* A closed socket has no packets.
LEMMA ShutdownTyped ==
    ASSUME Typed, Shutdown
    PROVE  Typed'
  <1>1. /\ inbox' \in Seq(IbobCommands) /\ client' \in BOOLEAN /\ running' \in BOOLEAN
        /\ open' \in BOOLEAN /\ streaming' \in BOOLEAN
    <2>1. inbox' \in Seq(IbobCommands) /\ client' \in BOOLEAN
      BY DEF Shutdown, Typed, TypeOK
    <2>2. running' \in BOOLEAN
      BY DEF Shutdown, RunsAfter, Typed, TypeOK
    <2>3. open' \in BOOLEAN
      BY DEF Shutdown
    <2>4. streaming' \in BOOLEAN
      BY DEF Shutdown, Typed, TypeOK
    <2>5. QED
      BY <2>1, <2>2, <2>3, <2>4
  <1>2. /\ udp' = <<>> /\ at' = "top"
        /\ UNCHANGED <<mode, zero, k, sumVars, next, gap, losses, load, vaneVars,
                       moved, lost, commands, history>>
    BY DEF Shutdown
  <1>3. udp' \in Seq(Packet) /\ Len(udp') <= MaxQueue
    BY <1>2
  <1>4. TypeOK'
    BY <1>1, <1>2, <1>3 DEF Typed, TypeOK, sumVars, vaneVars, history
  <1>5. Place'
    BY <1>2 DEF Typed, Place, sumVars
  <1>6. QED
    BY <1>4, <1>5 DEF Typed

\* An opened one has none yet.
LEMMA InitializeTyped ==
    ASSUME Typed, Initialize
    PROVE  Typed'
  <1>1. /\ inbox' \in Seq(IbobCommands) /\ client' \in BOOLEAN
        /\ open' \in BOOLEAN /\ streaming' \in BOOLEAN /\ at' \in {"top", "exited"}
    <2>1. inbox' \in Seq(IbobCommands) /\ client' \in BOOLEAN
      BY DEF Initialize, Typed, TypeOK
    <2>2. open' \in BOOLEAN /\ at' \in {"top", "exited"}
      BY DEF Initialize
    <2>3. streaming' \in BOOLEAN
      BY DEF Initialize, Typed, TypeOK
    <2>4. QED
      BY <2>1, <2>2, <2>3
  <1>2. open' /\ UNCHANGED <<running, mode, zero, k, udp, sumVars, next, gap, losses,
                             load, vaneVars, heard, moved, lost, commands, history>>
    BY DEF Initialize
  <1>3. TypeOK'
    BY <1>1, <1>2 DEF Typed, TypeOK, sumVars, vaneVars, history
  <1>4. Place'
    BY <1>1, <1>2 DEF Typed, Place, sumVars
  <1>5. QED
    BY <1>3, <1>4 DEF Typed

\* A command nobody knows does nothing.
LEMMA UnknownTyped ==
    ASSUME Typed, Unknown
    PROVE  Typed'
  <1>1. {"unknown"} \in SUBSET AllIbobCommands
    BY DEF AllIbobCommands
  <1>2. /\ inbox' \in Seq(IbobCommands) /\ client' \in BOOLEAN
        /\ UNCHANGED <<k, sumVars, boardVars, load, vaneVars, commands>>
    BY <1>1, ReceiveKeeps DEF Unknown
  <1>3. /\ at' = "top"
        /\ UNCHANGED <<running, mode, zero, open, udp, heard, moved, lost, history>>
    BY DEF Unknown
  <1>4. TypeOK'
    BY <1>2, <1>3 DEF Typed, TypeOK, sumVars, boardVars, vaneVars, history
  <1>5. Place'
    BY <1>2, <1>3 DEF Typed, Place, sumVars
  <1>6. QED
    BY <1>4, <1>5 DEF Typed

\* vaned and the observer leave ibob_control's variables alone.
LEMMA VanedTyped ==
    ASSUME Typed, Vaned
    PROVE  Typed'
  <1>1. UNCHANGED <<progVars, udp, sumVars, inbox, boardVars, heard, lost, commands, history>>
    BY DEF Vaned, VaneMove, VaneCal, VaneFake
  <1>2. /\ fake' \in 0 .. 3 /\ vaneAt' \in {"idle", "VANEIN", "VANEHOME"}
        /\ vaneInbox' \in Seq(VaneCommands)
    <2>1. CASE VaneMove
      BY <2>1 DEF VaneMove, VaneIdle, Typed, TypeOK
    <2>2. CASE VaneCal
      BY <2>2 DEF VaneCal, Typed, TypeOK
    <2>3. CASE VaneFake
      <3>1. Head(vaneInbox) \in {"fake_cal", "fake_ref", "fake_sig", "real"}
        BY <2>3 DEF VaneFake, VaneIdle, Typed, TypeOK, AllVaneCommands
      <3>2. fake' \in 0 .. 3
        BY <2>3, <3>1 DEF VaneFake
      <3>3. UNCHANGED vaneAt /\ vaneInbox' \in Seq(VaneCommands)
        BY <2>3 DEF VaneFake, VaneIdle, Typed, TypeOK
      <3>4. QED
        BY <3>2, <3>3 DEF Typed, TypeOK
    <2>4. QED
      BY <2>1, <2>2, <2>3 DEF Vaned
  <1>3. load' \in {Sky, Hot} /\ moved' \in BOOLEAN
    BY DEF Vaned, VaneMove, VaneCal, VaneFake, Typed, TypeOK
  <1>4. TypeOK'
    BY <1>1, <1>2, <1>3 DEF Typed, TypeOK, progVars, sumVars, boardVars, history
  <1>5. Place'
    BY <1>1 DEF Typed, Place, progVars, sumVars
  <1>6. QED
    BY <1>4, <1>5 DEF Typed

LEMMA CommandTyped ==
    ASSUME Typed, Command
    PROVE  Typed'
  <1>1. inbox' \in Seq(IbobCommands) /\ vaneInbox' \in Seq(VaneCommands)
    BY DEF Command, Typed, TypeOK
  <1>2. commands' \in 0 .. MaxCommands
    BY DEF Command, Typed, TypeOK
  <1>3. TypeOK'
    BY <1>1, <1>2 DEF Command, Typed, TypeOK, progVars, sumVars, boardVars, history
  <1>4. Place'
    BY DEF Command, Typed, Place, progVars, sumVars
  <1>5. QED
    BY <1>3, <1>4 DEF Typed

\* Every step keeps the types and the places.
LEMMA NextTyped == Typed /\ [Next]_vars => Typed'
  <1> SUFFICES ASSUME Typed, [Next]_vars PROVE Typed'
    OBVIOUS
  <1>1. CASE Emit \/ Lose \/ Stale \/ Vaned \/ Command
    BY <1>1, EmitTyped, LoseTyped, StaleTyped, VanedTyped, CommandTyped
  <1>2. CASE Top \/ SendData \/ NoCommand
    BY <1>2, TopTyped, SyncTyped, SumTyped, FakeTestTyped, NoCommandTyped DEF SendData
  <1>3. CASE Handle
    BY <1>3, SwitchTyped, CalTyped, SettleTyped, ZeroTyped, SimpleTyped,
       ShutdownTyped, InitializeTyped, UnknownTyped DEF Handle
  <1>4. CASE UNCHANGED vars
    BY <1>4 DEF Typed, TypeOK, Place, vars, progVars, sumVars, vaneVars, boardVars, history
  <1>5. QED
    BY <1>1, <1>2, <1>3, <1>4 DEF Next, Ibob

\* For any number of labels, integrations and packets, sums and counts stay
\* within a spectrum and k within FAKE_SIGS.
THEOREM TypeCorrect == Spec => []TypeOK
  <1>1. Typed => TypeOK
    BY DEF Typed
  <1>2. QED
    BY <1>1, InitTyped, NextTyped, PTL DEF Spec

-------------------------------------------------------------------------------
(* The load of what is summed *)

\* Before the first command nothing is promised.
LEMMA InitFresh == Init => Fresh
  BY DEF Init, Fresh, NoStalePackets

\* Packets are dropped while the load moves for a command; vaned's moves are
\* marked.
LEMMA NextFresh == Typed /\ Fresh /\ [Next]_vars => Fresh'
  <1> SUFFICES ASSUME Typed, Fresh, [Next]_vars PROVE Fresh'
    OBVIOUS
  <1>1. CASE Emit
    <2>1. UNCHANGED <<at, mode, load, loads, moved, promised>>
      BY <1>1 DEF Emit, progVars, sumVars, history
    <2>2. CASE open
      <3>1. udp' = Append(udp, [label |-> next, load |-> load, gap |-> gap])
        BY <1>1, <2>2 DEF Emit
      <3>2. udp \in Seq(Packet)
        BY DEF Typed, TypeOK
      <3>3. DOMAIN udp' = 1 .. Len(udp) + 1 /\ Len(udp) \in Nat
        BY <3>1, <3>2
      <3>4. \A j \in DOMAIN udp' :
                udp'[j].load = load \/ (j \in DOMAIN udp /\ udp'[j] = udp[j])
        BY <3>1, <3>2, <3>3
      <3>5. QED
        BY <2>1, <3>4 DEF Fresh, NoStalePackets
    <2>3. CASE ~ open
      BY <1>1, <2>1, <2>3 DEF Emit, Fresh, NoStalePackets
    <2>4. QED
      BY <2>2, <2>3
  <1>2. CASE Lose \/ Command
    BY <1>2 DEF Lose, Command, progVars, sumVars, history, Fresh, NoStalePackets
  <1>3. CASE Top \/ NoCommand \/ Stale
    BY <1>3 DEF Top, NoCommand, Stale, Goto, sumVars, history, Fresh, NoStalePackets
  <1>4. ASSUME NEW f \in 1 .. 3, FakeTest(f)
        PROVE  Fresh'
    <2>1. UNCHANGED <<mode, load, moved, promised>> /\ at # "settle"
          /\ at' \notin {"settle", "sum"}
      BY <1>4, FakeTestCases DEF FakeTest, Goto, history
    <2>2. udp' = <<>> \/ udp' = udp
      BY <1>4, FakeTestCases
    <2>3. QED
      BY <2>1, <2>2 DEF Fresh, NoStalePackets
  <1>5. CASE Sync
    <2>1. /\ UNCHANGED <<mode, load, loads, moved, promised>> /\ at = "sync"
          /\ at' \in {"sync", "sum"} /\ loads = {}
      BY <1>5 DEF Sync, Goto, history, sumVars, Typed, Place
    <2>2. udp \in Seq(Packet) /\ udp # <<>> /\ udp' = Tail(udp)
      BY <1>5 DEF Sync, Typed, TypeOK
    <2>3. \A j \in DOMAIN udp' : j + 1 \in DOMAIN udp /\ udp'[j] = udp[j + 1]
      BY <2>2
    <2>4. QED
      BY <2>1, <2>3 DEF Fresh, NoStalePackets
  <1>6. CASE Sum
    <2> DEFINE p == Head(udp)
    <2>1. /\ UNCHANGED <<mode, load, moved, promised>> /\ at = "sum"
          /\ at' \in {"read", "sum"}
          /\ at' = "sum" => loads' = loads \cup {p.load}
      <3>1. UNCHANGED <<mode, load, moved, promised>>
        BY <1>6 DEF Sum, Goto, history
      <3>2. \/ at' = "read"
            \/ at' = "sum" /\ loads' = loads \cup {p.load}
        BY <1>6, SumCases
      <3>3. QED
        BY <1>6, <3>1, <3>2 DEF Sum
    <2>2. udp \in Seq(Packet) /\ udp # <<>> /\ udp' = Tail(udp)
      BY <1>6 DEF Sum, Typed, TypeOK
    <2>3. /\ \A j \in DOMAIN udp' : j + 1 \in DOMAIN udp /\ udp'[j] = udp[j + 1]
          /\ 1 \in DOMAIN udp /\ p = udp[1]
      BY <2>2
    <2>4. QED
      BY <2>1, <2>3 DEF Fresh, NoStalePackets
  <1>7. CASE Switch
    <2>1. /\ UNCHANGED <<load, moved, promised>> /\ at = "read" /\ at' = "cal"
          /\ udp' = <<>> \/ udp' = udp
      BY <1>7 DEF Switch, Receive, Cleared
    <2>2. QED
      BY <2>1 DEF Fresh, NoStalePackets
  <1>8. CASE Cal
    BY <1>8 DEF Cal, Goto, Fresh, NoStalePackets
  <1>9. CASE Settle
    <2>1. /\ UNCHANGED <<load, moved, mode>> /\ at = "settle" /\ at' = "top"
          /\ promised' = mode /\ udp' = <<>>
      BY <1>9 DEF Settle, Cleared, Typed, Place
    <2>2. QED
      BY <2>1 DEF Fresh, NoStalePackets
  <1>10. CASE Zero \/ Simple \/ Unknown
    <2>1. /\ UNCHANGED <<load, moved, promised>> /\ at = "read" /\ at' = "top"
          /\ udp' = <<>> \/ udp' = udp
      BY <1>10 DEF Zero, Simple, Unknown, Receive, Cleared, history
    <2>2. QED
      BY <2>1 DEF Fresh, NoStalePackets
  <1>11. CASE Shutdown \/ Initialize
    <2>1. /\ UNCHANGED <<load, moved, promised>> /\ at = "read"
          /\ at' \in {"top", "exited"}
          /\ udp' = <<>> \/ udp' = udp
      BY <1>11 DEF Shutdown, Initialize, history
    <2>2. QED
      BY <2>1 DEF Fresh, NoStalePackets
  <1>12. CASE Vaned
    <2>1. UNCHANGED <<at, mode, udp, loads, promised>>
      BY <1>12 DEF Vaned, VaneMove, VaneCal, VaneFake, progVars, sumVars, history
    <2>2. moved' \/ UNCHANGED <<load, moved>>
      BY <1>12 DEF Vaned, VaneMove, VaneCal, VaneFake
    <2>3. QED
      BY <2>1, <2>2 DEF Fresh, NoStalePackets
  <1>13. CASE UNCHANGED vars
    BY <1>13 DEF vars, progVars, sumVars, history, Fresh, NoStalePackets
  <1>14. QED
    BY <1>1, <1>2, <1>3, <1>4, <1>5, <1>6, <1>7, <1>8, <1>9, <1>10, <1>11, <1>12, <1>13
    DEF Next, Ibob, SendData, Handle

-------------------------------------------------------------------------------
(* The labels of what is summed *)

\* What an Append or a Tail leaves of the chain.
LEMMA EmitChained ==
    ASSUME Typed, Chained, Emit
    PROVE  Chained'
  <1>1. CASE open
    <2>1. udp' = Append(udp, [label |-> next, load |-> load, gap |-> gap])
      BY <1>1 DEF Emit
    <2>2. udp \in Seq(Packet) /\ Len(udp) \in Nat
      BY DEF Typed, TypeOK
    <2>3. /\ Len(udp') = Len(udp) + 1
          /\ udp'[Len(udp) + 1] = [label |-> next, load |-> load, gap |-> gap]
          /\ \A j \in 1 .. Len(udp) : udp'[j] = udp[j]
      BY <2>1, <2>2
    <2>4. next' = (next + 1) % Labels
      BY DEF Emit
    <2>5. ASSUME NEW j \in 1 .. Len(udp') - 1, ~ udp'[j + 1].gap
          PROVE  udp'[j + 1].label = (udp'[j].label + 1) % Labels
      <3>1. CASE j = Len(udp)
        <4>1. udp # <<>> /\ ~ gap /\ udp'[j + 1].label = next /\ udp'[j] = udp[Len(udp)]
          BY <2>2, <2>3, <2>5, <3>1
        <4>2. QED
          BY <4>1 DEF Chained
      <3>2. CASE j # Len(udp)
        <4>1. j \in 1 .. Len(udp) - 1 /\ udp'[j + 1] = udp[j + 1] /\ udp'[j] = udp[j]
          BY <2>2, <2>3, <3>2
        <4>2. QED
          BY <2>5, <4>1 DEF Chained
      <3>3. QED
        BY <3>1, <3>2
    <2>6. next' = (udp'[Len(udp')].label + 1) % Labels
      BY <2>3, <2>4
    <2>7. QED
      BY <2>5, <2>6 DEF Chained
  <1>2. CASE ~ open
    <2>1. udp = <<>> /\ udp' = udp /\ Len(udp') = 0
      BY <1>2 DEF Emit, Typed, Place
    <2>2. QED
      BY <2>1 DEF Chained
  <1>3. QED
    BY <1>1, <1>2

LEMMA TailChained ==
    ASSUME Typed, Chained, udp # <<>>, udp' = Tail(udp), UNCHANGED <<next, gap>>
    PROVE  Chained'
  <1>1. udp \in Seq(Packet) /\ Len(udp) \in Nat
    BY DEF Typed, TypeOK
  <1>2. /\ Len(udp') = Len(udp) - 1
        /\ \A j \in 1 .. Len(udp') : udp'[j] = udp[j + 1]
    BY <1>1
  <1>3. ASSUME NEW j \in 1 .. Len(udp') - 1, ~ udp'[j + 1].gap
        PROVE  udp'[j + 1].label = (udp'[j].label + 1) % Labels
    <2>1. /\ j + 1 \in 1 .. Len(udp) - 1
          /\ udp'[j + 1] = udp[j + 1 + 1] /\ udp'[j] = udp[j + 1]
      BY <1>1, <1>2
    <2>2. QED
      BY <1>3, <2>1 DEF Chained
  <1>4. ASSUME udp' # <<>>, ~ gap'
        PROVE  next' = (udp'[Len(udp')].label + 1) % Labels
    <2>1. udp'[Len(udp')] = udp[Len(udp)]
      BY <1>1, <1>2, <1>4
    <2>2. QED
      BY <1>4, <2>1 DEF Chained
  <1>5. QED
    BY <1>3, <1>4 DEF Chained

\* Nothing waits at first.
LEMMA InitChained == Init => Chained
  <1> SUFFICES ASSUME Init PROVE Chained
    OBVIOUS
  <1>1. udp = <<>> /\ Len(udp) = 0
    BY DEF Init
  <1>2. QED
    BY <1>1 DEF Chained

LEMMA NextChained == Typed /\ Chained /\ [Next]_vars => Chained'
  <1> SUFFICES ASSUME Typed, Chained, [Next]_vars PROVE Chained'
    OBVIOUS
  <1>1. CASE Emit
    BY <1>1, EmitChained
  <1>2. CASE Lose
    <2>1. gap' /\ udp' = udp
      BY <1>2 DEF Lose
    <2>2. QED
      BY <2>1 DEF Chained
  <1>3. CASE Sync \/ Sum
    <2>1. udp # <<>> /\ udp' = Tail(udp) /\ UNCHANGED <<next, gap>>
      BY <1>3 DEF Sync, Sum, boardVars
    <2>2. QED
      BY <2>1, TailChained
  <1>4. CASE ~ (Emit \/ Lose \/ Sync \/ Sum)
    <2>1. UNCHANGED <<next, gap>>
      BY <1>4 DEF Next, Ibob, SendData, Handle, Vaned, Top, NoCommand, FakeTest, Switch,
         Cal, Settle, Zero, Simple, Shutdown, Initialize, Unknown, Receive, Stale,
         VaneMove, VaneCal, VaneFake, Command, vars, boardVars
    <2>2. udp' = udp \/ udp' = <<>>
      BY <1>4 DEF Next, Ibob, SendData, Handle, Vaned, Top, NoCommand, FakeTest, Switch,
         Cal, Settle, Zero, Simple, Shutdown, Initialize, Unknown, Stale,
         VaneMove, VaneCal, VaneFake, Command, vars, Cleared
    <2>3. Len(<<>>) = 0
      OBVIOUS
    <2>4. QED
      BY <2>1, <2>2, <2>3 DEF Chained
  <1>5. QED
    BY <1>1, <1>2, <1>3, <1>4

\* A packet with the expected label makes a balanced sum of a balanced sum.
LEMMA BalancedStep ==
    ASSUME NEW s \in [LabelSet -> Nat], NEW m \in Nat, NEW q \in Nat,
           NEW c \in LabelSet, Balanced(s, m, q, c)
    PROVE  \E r \in Nat :
               Balanced([s EXCEPT ![c] = @ + 1], m + 1, r, (c + 1) % Labels)
  <1> DEFINE t == [s EXCEPT ![c] = @ + 1]
  <1>1. t[c] = q + 1 /\ \A l \in LabelSet \ {c} : t[l] = s[l]
    BY DEF Balanced, LabelSet
  <1>2. CASE c = LastLabel
    <2>1. (c + 1) % Labels = 0 /\ m + 1 = Labels * (q + 1) + 0
      BY <1>2, NextLabel DEF Balanced, LabelSet, LastLabel
    <2>2. \A l \in LabelSet : t[l] = IF l < 0 THEN q + 1 + 1 ELSE q + 1
      BY <1>1, <1>2 DEF Balanced, LabelSet, LastLabel
    <2>3. Balanced(t, m + 1, q + 1, 0) /\ q + 1 \in Nat
      BY <2>1, <2>2 DEF Balanced
    <2>4. QED
      BY <2>1, <2>3
  <1>3. CASE c # LastLabel
    <2>1. (c + 1) % Labels = c + 1 /\ m + 1 = Labels * q + (c + 1)
      BY <1>3, NextLabel DEF Balanced, LabelSet, LastLabel
    <2>2. \A l \in LabelSet : t[l] = IF l < c + 1 THEN q + 1 ELSE q
      BY <1>1, <1>3 DEF Balanced, LabelSet, LastLabel
    <2>3. Balanced(t, m + 1, q, c + 1)
      BY <2>1, <2>2 DEF Balanced
    <2>4. QED
      BY <2>1, <2>3
  <1>4. QED
    BY <1>2, <1>3

LEMMA EmptyLen ==
    ASSUME NEW s \in Seq(Packet)
    PROVE  s = <<>> <=> Len(s) = 0
  OBVIOUS

\* Taking a packet leaves the next label expected.
LEMMA TailExpected ==
    ASSUME Typed, Chained, udp # <<>>, udp' = Tail(udp), UNCHANGED <<next, gap>>,
           NEW c, c = (udp[1].label + 1) % Labels
    PROVE  Expected(c)'
  <1>1. udp \in Seq(Packet) /\ Len(udp) \in Nat
    BY DEF Typed, TypeOK
  <1>2. /\ Len(udp) >= 1 /\ Len(udp') = Len(udp) - 1
        /\ udp' = <<>> <=> Len(udp') = 0
        /\ \A j \in 1 .. Len(udp') : udp'[j] = udp[j + 1]
    <2>1. udp' \in Seq(Packet)
      BY <1>1
    <2>2. Len(udp) >= 1
      BY <1>1, EmptyLen
    <2>3. Len(udp') = Len(udp) - 1 /\ \A j \in 1 .. Len(udp') : udp'[j] = udp[j + 1]
      BY <1>1
    <2>4. udp' = <<>> <=> Len(udp') = 0
      BY <2>1, EmptyLen
    <2>5. QED
      BY <2>2, <2>3, <2>4
  <1>3. CASE Len(udp) = 1
    <2>1. udp' = <<>>
      BY <1>2, <1>3
    <2>2. QED
      BY <1>3, <2>1 DEF Chained, Expected
  <1>4. CASE Len(udp) # 1
    <2>1. 1 \in 1 .. Len(udp) - 1 /\ udp'[1] = udp[1 + 1] /\ udp' # <<>>
      BY <1>1, <1>2, <1>4
    <2>2. QED
      BY <2>1 DEF Chained, Expected
  <1>5. QED
    BY <1>3, <1>4

\* While nothing is missing a packet adds to the label it is expected to.
LEMMA SumInStep ==
    ASSUME Typed, Chained, InStep, Sum, ~ lost, ~ Head(udp).gap
    PROVE  \E q \in Nat, c \in LabelSet :
               /\ Balanced([sums EXCEPT ![Head(udp).label] = @ + 1], n + 1, q, c)
               /\ Expected(c)'
  <1>1. udp \in Seq(Packet) /\ udp # <<>> /\ udp' = Tail(udp) /\ UNCHANGED <<next, gap>>
    BY DEF Sum, boardVars, Typed, TypeOK
  <1>2. Head(udp) = udp[1] /\ udp[1] \in Packet
    BY <1>1
  <1>3. PICK q \in Nat, c \in LabelSet : Balanced(sums, n, q, c) /\ Expected(c)
    BY DEF InStep, Sum
  <1>4. udp[1].label = c
    BY <1>1, <1>2, <1>3 DEF Expected
  <1>5. sums \in [LabelSet -> Nat] /\ n \in Nat
    BY SomePackets DEF Typed, TypeOK
  <1>6. PICK r \in Nat : Balanced([sums EXCEPT ![c] = @ + 1], n + 1, r, (c + 1) % Labels)
    BY <1>3, <1>5, BalancedStep
  <1>7. PICK d \in LabelSet : d = (c + 1) % Labels
    BY NextLabel
  <1>8. Expected(d)'
    BY <1>1, <1>4, <1>7, TailExpected
  <1>9. QED
    BY <1>2, <1>4, <1>6, <1>7, <1>8

\* What the board does keeps the next label expected.
LEMMA EmitExpected ==
    ASSUME Typed, Emit \/ Lose, at = "sum", NEW c \in LabelSet, Expected(c)
    PROVE  Expected(c)'
  <1>1. udp \in Seq(Packet) /\ open
    BY DEF Typed, TypeOK, Place
  <1>2. CASE Lose
    BY <1>2 DEF Lose, Expected
  <1>3. CASE Emit
    <2>1. udp' = Append(udp, [label |-> next, load |-> load, gap |-> gap])
      BY <1>1, <1>3 DEF Emit
    <2>2. CASE udp = <<>>
      <3>1. udp'[1] = [label |-> next, load |-> load, gap |-> gap] /\ udp' # <<>>
        BY <2>1, <2>2
      <3>2. QED
        BY <2>2, <3>1 DEF Expected
    <2>3. CASE udp # <<>>
      <3>1. udp'[1] = udp[1] /\ udp' # <<>>
        BY <1>1, <2>1, <2>3
      <3>2. QED
        BY <2>3, <3>1 DEF Expected
    <2>4. QED
      BY <2>2, <2>3
  <1>4. QED
    BY <1>2, <1>3

\* A sum begins after the end of an integration, and each packet continues it.
LEMMA NextInStep == Typed /\ Chained /\ InStep /\ [Next]_vars => InStep'
  <1> SUFFICES ASSUME Typed, Chained, InStep, [Next]_vars PROVE InStep'
    OBVIOUS
  <1>1. CASE Emit \/ Lose
    <2>1. UNCHANGED <<at, lost, sums, n>>
      BY <1>1 DEF Emit, Lose, progVars, sumVars
    <2>2. SUFFICES ASSUME at = "sum", ~ lost
                   PROVE  \E q \in Nat, c \in LabelSet :
                              Balanced(sums, n, q, c) /\ Expected(c)'
      BY <2>1 DEF InStep
    <2>3. PICK q \in Nat, c \in LabelSet : Balanced(sums, n, q, c) /\ Expected(c)
      BY <2>2 DEF InStep
    <2>4. Expected(c)'
      BY <1>1, <2>2, <2>3, EmitExpected
    <2>5. QED
      BY <2>3, <2>4
  <1>2. CASE Sync
    <2>1. SUFFICES ASSUME at' = "sum"
                   PROVE  \E q \in Nat, c \in LabelSet :
                              Balanced(sums', n', q, c) /\ Expected(c)'
      BY DEF InStep
    <2>2. /\ udp # <<>> /\ udp' = Tail(udp) /\ UNCHANGED <<sums, n, next, gap>>
          /\ n = 0 /\ sums = [l \in LabelSet |-> 0] /\ udp[1].label = LastLabel
      BY <1>2, <2>1 DEF Sync, Goto, Synchronizes, sumVars, boardVars, Typed, Place
    <2>3. LastLabel \in LabelSet /\ (LastLabel + 1) % Labels = 0 /\ 0 \in LabelSet
      BY NextLabel DEF LabelSet, LastLabel
    <2>4. Expected(0)'
      BY <2>2, <2>3, TailExpected
    <2>5. Balanced(sums', n', 0, 0)
      BY <2>2 DEF Balanced, LabelSet
    <2>6. QED
      BY <2>3, <2>4, <2>5
  <1>3. CASE Sum
    <2>1. SUFFICES ASSUME at' = "sum", ~ lost'
                   PROVE  \E q \in Nat, c \in LabelSet :
                              Balanced(sums', n', q, c) /\ Expected(c)'
      BY DEF InStep
    <2>2. /\ n' = n + 1 /\ sums' = [sums EXCEPT ![Head(udp).label] = @ + 1]
          /\ lost' = (lost \/ Head(udp).gap)
      BY <1>3, <2>1 DEF Sum, Goto
    <2>3. ~ lost /\ ~ Head(udp).gap
      BY <2>1, <2>2
    <2>4. QED
      BY <1>3, <2>2, <2>3, SumInStep
  <1>4. CASE ~ (Emit \/ Lose \/ Sync \/ Sum)
    <2>1. CASE at' # "sum"
      BY <2>1 DEF InStep
    <2>2. CASE at' = "sum"
      <3>1. UNCHANGED <<at, lost, sums, n, udp, gap, next>>
        BY <1>4, <2>2, FakeTestCases
        DEF Next, Ibob, SendData, Handle, Vaned, Top, NoCommand, Switch, Goto,
            Cal, Settle, Zero, Simple, Shutdown, Initialize, Unknown, Receive, Stale,
            VaneMove, VaneCal, VaneFake, Command, vars, progVars, sumVars, boardVars
      <3>2. QED
        BY <3>1 DEF InStep, Expected
    <2>3. QED
      BY <2>1, <2>2
  <1>5. QED
    BY <1>1, <1>2, <1>3, <1>4

\* A balanced sum has the sums of SumsInStep.
LEMMA InStepSums == Typed /\ InStep => SumsInStep
  <1> SUFFICES ASSUME Typed, InStep, at = "sum", ~ lost, NEW l \in LabelSet
               PROVE  sums[l] = (n + LastLabel - l) \div Labels
    BY DEF SumsInStep
  <1>1. PICK q \in Nat, c \in LabelSet : Balanced(sums, n, q, c)
    BY DEF InStep
  <1>2. n \in Nat
    BY SomePackets DEF Typed, TypeOK
  <1>3. CASE l < c
    <2>1. /\ c - 1 - l \in LabelSet
          /\ n + LastLabel - l = Labels * (q + 1) + (c - 1 - l)
          /\ sums[l] = q + 1
      BY <1>1, <1>3 DEF Balanced, LabelSet, LastLabel
    <2>2. QED
      BY <1>2, <2>1, DivideRest DEF LabelSet, LastLabel
  <1>4. CASE ~ (l < c)
    <2>1. /\ c + LastLabel - l \in LabelSet
          /\ n + LastLabel - l = Labels * q + (c + LastLabel - l)
          /\ sums[l] = q
      BY <1>1, <1>4 DEF Balanced, LabelSet, LastLabel
    <2>2. QED
      BY <1>2, <2>1, DivideRest DEF LabelSet, LastLabel
  <1>5. QED
    BY <1>3, <1>4

Safe == Typed /\ Fresh /\ Chained /\ InStep

\* Initially nothing is summed.
LEMMA InitSafe == Init => Safe
  BY InitTyped, InitFresh, InitChained DEF Safe, Init, InStep

LEMMA NextSafe == Safe /\ [Next]_vars => Safe'
  BY NextTyped, NextFresh, NextChained, NextInStep DEF Safe

\* However packets get lost and commands and vaned's moves fall between them: a
\* sum has packets of the load in the beam only, and as many of each label as
\* can be.
THEOREM SpectraStaySound == Spec => []SpectraSound
  <1>1. Safe => SpectraSound
    BY InStepSums DEF Safe, Fresh, SpectraSound
  <1>2. QED
    BY <1>1, InitSafe, NextSafe, PTL DEF Spec

-------------------------------------------------------------------------------
(* Each step is one of Observation's *)

\* What Observation sees stays, away from do_sky() and do_hot().
Unseen ==
    /\ ~ Switching /\ ~ Switching'
    /\ UNCHANGED <<heard, mode, zero, running, promised>>

LEMMA UnseenStutters ==
    ASSUME Unseen
    PROVE  UNCHANGED Obs!vars
  BY DEF Unseen, Obs!vars

\* A spectrum is sent while data are wanted, by what is promised, save for the
\* exceptions it carries.
LEMMA ReportIsSpectrum ==
    ASSUME Typed, running, ~ Switching, ~ Switching',
           UNCHANGED <<mode, zero, running, promised>>,
           NEW f \in 0 .. 3, NEW s, NEW ls \in SUBSET {Sky, Hot}, NEW missing \in BOOLEAN,
           s \in [LabelSet -> 0 .. Labels * Integration],
           heard' = Report(f, s, ls, missing),
           (f = 0 /\ ~ missing) => s = [l \in LabelSet |-> Integration],
           (f = 0 /\ ~ moved) => ls \subseteq {promised}
    PROVE  Obs!Spectrum
  <1>1. /\ heard'.tag = mode /\ heard'.sums = s /\ heard'.loads = ls /\ heard'.fake = f
        /\ heard'.zero = zero /\ heard'.moved = moved /\ heard'.lost = missing
    BY DEF Report
  <1>2. moved \in BOOLEAN
    BY DEF Typed, TypeOK
  <1>3. heard' \in
          [tag : {mode}, sums : [0 .. Labels - 1 -> 0 .. Labels * Integration],
           loads : SUBSET {Sky, Hot}, fake : 0 .. 3, zero : {zero},
           moved : BOOLEAN, lost : BOOLEAN]
    BY <1>2 DEF Report, LabelSet
  <1>4. (heard'.fake = 0 /\ ~ heard'.lost) =>
            heard'.sums = [l \in 0 .. Labels - 1 |-> Integration]
    BY <1>1 DEF LabelSet
  <1>5. (heard'.fake = 0 /\ ~ heard'.moved) => heard'.loads \subseteq {promised}
    BY <1>1
  <1>6. QED
    BY <1>3, <1>4, <1>5 DEF Obs!Spectrum

\* The fake spectra.
LEMMA FakeTestObserved ==
    ASSUME Safe, NEW f \in 1 .. 3, FakeTest(f)
    PROVE  Obs!Spectrum \/ UNCHANGED Obs!vars
  <1>1. /\ running /\ ~ Switching /\ ~ Switching'
        /\ UNCHANGED <<mode, zero, running, promised>>
    BY FakeTestCases DEF Safe, Typed, Place, Switching, FakeTest, Goto, history
  <1>2. CASE UNCHANGED heard
    BY <1>1, <1>2, UnseenStutters DEF Unseen
  <1>3. CASE heard' = Report(f, sums, loads, lost)
    <2>1. /\ loads \in SUBSET {Sky, Hot} /\ lost \in BOOLEAN /\ f \in 0 .. 3 /\ f # 0
          /\ sums \in [LabelSet -> 0 .. Labels * Integration]
      BY DEF Safe, Typed, TypeOK
    <2>2. QED
      BY <1>1, <1>3, <2>1, ReportIsSpectrum DEF Safe
  <1>4. QED
    BY <1>2, <1>3, FakeTestCases DEF Safe

\* A sum that is complete, and has nothing missing, has each label Integration
\* times.
LEMMA CompleteSum ==
    ASSUME Safe, Sum, Complete, ~ lost, ~ Head(udp).gap
    PROVE  [sums EXCEPT ![Head(udp).label] = @ + 1] = [l \in LabelSet |-> Integration]
  <1> DEFINE s == [sums EXCEPT ![Head(udp).label] = @ + 1]
  <1>1. PICK q \in Nat, c \in LabelSet : Balanced(s, n + 1, q, c)
    BY SumInStep DEF Safe
  <1>2. DOMAIN s = LabelSet /\ s = [l \in LabelSet |-> s[l]]
    BY DEF Safe, Typed, TypeOK
  <1> HIDE DEF s
  <1>3. Labels * Integration = Labels * q + c
    BY <1>1 DEF Balanced, Complete
  <1>4. q = Integration /\ c = 0
    BY <1>3, WholeRest
  <1>5. \A l \in LabelSet : s[l] = Integration
    BY <1>1, <1>4 DEF Balanced, LabelSet
  <1>6. QED
    BY <1>2, <1>5 DEF s

\* The spectra of the board.
LEMMA SumObserved ==
    ASSUME Safe, Sum
    PROVE  Obs!Spectrum \/ UNCHANGED Obs!vars
  <1> DEFINE p == Head(udp)
             s == [sums EXCEPT ![p.label] = @ + 1]
  <1>1. /\ running /\ ~ Switching
        /\ UNCHANGED <<mode, zero, running, promised>>
    BY DEF Safe, Typed, Place, Switching, Sum, Goto, history
  <1>2. CASE /\ ~ Complete /\ n' = n + 1 /\ at' = "sum" /\ UNCHANGED heard
    BY <1>1, <1>2, UnseenStutters DEF Unseen, Switching
  <1>3. CASE /\ Complete /\ at' = "read"
             /\ heard' = Report(0, s, loads \cup {p.load}, lost \/ p.gap)
    <2>1. ~ Switching'
      BY <1>3 DEF Switching
    <2>2. (loads \cup {p.load}) \in SUBSET {Sky, Hot} /\ (lost \/ p.gap) \in BOOLEAN
      BY SumCases DEF Safe
    <2>3. s \in [LabelSet -> 0 .. Labels * Integration]
      <3>1. n + 1 = Labels * Integration
        BY <1>3 DEF Complete
      <3>2. s \in [LabelSet -> 0 .. n + 1]
        BY SumCases DEF Safe
      <3>3. QED
        BY <3>1, <3>2
    <2>4. ~ (lost \/ p.gap) => s = [l \in LabelSet |-> Integration]
      BY <1>3, CompleteSum
    <2>5. ~ moved => loads \cup {p.load} \subseteq {promised}
      <3>1. udp # <<>> /\ udp \in Seq(Packet)
        BY DEF Safe, Typed, TypeOK, Sum
      <3>2. 1 \in DOMAIN udp /\ p = udp[1]
        BY <3>1
      <3>3. QED
        BY <3>2 DEF Safe, Fresh, NoStalePackets, Sum
    <2>6. 0 \in 0 .. 3
      OBVIOUS
    <2> HIDE DEF p, s
    <2>7. QED
      BY <1>1, <1>3, <2>1, <2>2, <2>3, <2>4, <2>5, <2>6, ReportIsSpectrum DEF Safe
  <1>4. QED
    BY <1>2, <1>3, SumCases DEF Safe

\* What a closed socket leaves is marked as lost.
LEMMA StaleObserved ==
    ASSUME Safe, Stale
    PROVE  Obs!Spectrum
  <1>1. /\ running /\ ~ Switching /\ ~ Switching' /\ lost /\ loads = {}
        /\ UNCHANGED <<mode, zero, running, promised>>
        /\ heard' = Report(0, sums, loads, lost)
    BY DEF Safe, Typed, Place, Switching, Stale, Goto, history
  <1>2. /\ loads \in SUBSET {Sky, Hot} /\ lost \in BOOLEAN
        /\ sums \in [LabelSet -> 0 .. Labels * Integration]
    BY DEF Safe, Typed, TypeOK
  <1>3. loads \subseteq {promised} /\ 0 \in 0 .. 3
    BY <1>1
  <1>4. QED
    BY <1>1, <1>2, <1>3, ReportIsSpectrum DEF Safe

\* do_sky() and do_hot() are done when the answer is sent; until then what was
\* promised before stays.
LEMMA SwitchObserved ==
    ASSUME Switch
    PROVE  UNCHANGED Obs!vars
  <1>1. /\ at = "read" /\ at' = "cal" /\ UNCHANGED <<zero, heard, promised>>
        /\ before' = [running |-> running, mode |-> mode]
    BY DEF Switch, Receive
  <1>2. ~ Switching /\ Switching' /\ before'.mode = mode /\ before'.running = running
    BY <1>1 DEF Switching
  <1>3. QED
    BY <1>1, <1>2 DEF Obs!vars

LEMMA CalObserved ==
    ASSUME Cal
    PROVE  UNCHANGED Obs!vars
  <1>1. Switching /\ Switching' /\ UNCHANGED <<zero, heard, promised, before>>
    BY DEF Cal, Goto, history, Switching
  <1>2. QED
    BY <1>1 DEF Obs!vars

LEMMA SettleObserved ==
    ASSUME Typed, Settle
    PROVE  \E c \in Obs!Answered : Obs!Done(c)
  <1> DEFINE c == IF mode = Sky THEN "sky" ELSE "hot"
  <1>1. /\ ~ Switching' /\ running' /\ heard' = [done |-> c] /\ promised' = mode
        /\ UNCHANGED <<mode, zero>>
    BY DEF Settle, Answer, Switching
  <1>2. mode \in {Sky, Hot}
    BY DEF Typed, TypeOK
  <1>3. CASE mode = Sky
    <2>1. Obs!Done("sky")
      BY <1>1, <1>3 DEF Obs!Done, Obs!TagAfter, Obs!LoadAfter
    <2>2. QED
      BY <2>1 DEF Obs!Answered
  <1>4. CASE mode = Hot
    <2>1. Obs!Done("hot")
      BY <1>1, <1>4 DEF Obs!Done, Obs!TagAfter, Obs!LoadAfter
    <2>2. QED
      BY <2>1 DEF Obs!Answered
  <1>5. QED
    BY <1>2, <1>3, <1>4

\* The other commands are done at once.
LEMMA ZeroObserved ==
    ASSUME Typed, Zero
    PROVE  \E c \in Obs!Answered : Obs!Done(c)
  <1>1. /\ ~ Switching /\ ~ Switching' /\ running' /\ promised' = promised
        /\ heard' = [done |-> Head(inbox)]
        /\ Head(inbox) \in {"zero_in", "zero_out"}
        /\ mode' = IF Head(inbox) = "zero_in" THEN Hot ELSE Sky
        /\ zero' = IF Head(inbox) = "zero_in" THEN 0 ELSE 1
    BY DEF Zero, Receive, Answer, Switching, history
  <1>2. CASE Head(inbox) = "zero_in"
    <2>1. Obs!Done("zero_in")
      BY <1>1, <1>2 DEF Obs!Done, Obs!TagAfter, Obs!LoadAfter
    <2>2. QED
      BY <2>1 DEF Obs!Answered
  <1>3. CASE Head(inbox) = "zero_out"
    <2>1. Obs!Done("zero_out")
      BY <1>1, <1>3 DEF Obs!Done, Obs!TagAfter, Obs!LoadAfter
    <2>2. QED
      BY <2>1 DEF Obs!Answered
  <1>4. QED
    BY <1>1, <1>2, <1>3

LEMMA SimpleObserved ==
    ASSUME Typed, Simple
    PROVE  \E c \in Obs!Answered : Obs!Done(c)
  <1> DEFINE c == Head(inbox)
  <1>1. /\ ~ Switching /\ ~ Switching'
        /\ UNCHANGED <<mode, zero, promised>> /\ heard' = [done |-> c]
        /\ c \in {"start", "stop", "config", "cold"}
        /\ running' = RunsAfter(c)
    BY DEF Simple, Receive, Answer, Switching, history
  <1>2. running' <=> c # "stop"
    BY <1>1 DEF RunsAfter
  <1>3. Obs!TagAfter(c) = mode /\ Obs!LoadAfter(c) = promised
    BY <1>1 DEF Obs!TagAfter, Obs!LoadAfter
  <1> HIDE DEF c
  <1>4. Obs!Done(c)
    BY <1>1, <1>2, <1>3 DEF Obs!Done
  <1>5. QED
    BY <1>1, <1>4 DEF Obs!Answered

LEMMA ShutdownObserved ==
    ASSUME Typed, Shutdown
    PROVE  \E c \in Obs!Answered : Obs!Done(c)
  <1>1. /\ ~ Switching /\ ~ Switching' /\ running' = running
        /\ UNCHANGED <<mode, zero, promised>> /\ heard' = [done |-> "shutdown"]
    BY DEF Shutdown, Answer, Switching, history, RunsAfter
  <1>2. Obs!Done("shutdown")
    BY <1>1 DEF Obs!Done, Obs!TagAfter, Obs!LoadAfter
  <1>3. QED
    BY <1>2 DEF Obs!Answered

\* Every step is one of Observation's or leaves what it sees alone.
LEMMA NextObserved == Safe /\ [Next]_vars => [Obs!Next]_Obs!vars
  <1> SUFFICES ASSUME Safe, [Next]_vars PROVE Obs!Next \/ UNCHANGED Obs!vars
    OBVIOUS
  <1>1. CASE Emit \/ Lose \/ Vaned \/ Command \/ UNCHANGED vars
    <2>1. UNCHANGED <<at, heard, mode, zero, running, before, promised>>
      BY <1>1 DEF Emit, Lose, Vaned, VaneMove, VaneCal, VaneFake, Command, vars,
         progVars, history
    <2>2. QED
      BY <2>1 DEF Obs!vars, Switching
  <1>2. CASE Top \/ Sync \/ NoCommand \/ Unknown \/ Initialize
    <2>1. Unseen
      BY <1>2 DEF Top, Sync, NoCommand, Unknown, Initialize, Goto, Receive, history,
         Unseen, Switching
    <2>2. QED
      BY <2>1, UnseenStutters
  <1>3. CASE Stale
    BY <1>3, StaleObserved DEF Obs!Next
  <1>4. CASE Sum
    BY <1>4, SumObserved DEF Obs!Next
  <1>5. ASSUME NEW f \in 1 .. 3, FakeTest(f)
        PROVE  Obs!Next \/ UNCHANGED Obs!vars
    BY <1>5, FakeTestObserved DEF Obs!Next
  <1>6. CASE Switch \/ Cal
    BY <1>6, SwitchObserved, CalObserved
  <1>7. CASE Settle \/ Zero \/ Simple \/ Shutdown
    BY <1>7, SettleObserved, ZeroObserved, SimpleObserved, ShutdownObserved
    DEF Safe, Obs!Next
  <1>8. QED
    BY <1>1, <1>2, <1>3, <1>4, <1>5, <1>6, <1>7 DEF Next, Ibob, SendData, Handle

LEMMA InitObserved == Init => Obs!Init
  <1> SUFFICES ASSUME Init PROVE Obs!Init
    OBVIOUS
  <1>1. ~ Switching /\ ~ running /\ heard = Nothing /\ mode = Sky /\ zero = 1
        /\ promised \in {Sky, Hot}
    BY DEF Init, Switching
  <1>2. QED
    BY <1>1 DEF Obs!Init

\* For any number of labels, integrations, lost packets and commands of either
\* program: all the catcher hears is what Observation promises.
THEOREM ImplementsObservation == Spec => MeetsObservation
  <1>1. Spec => []Safe
    BY InitSafe, NextSafe, PTL DEF Spec
  <1>2. QED
    BY <1>1, InitObserved, NextObserved, PTL DEF Spec, MeetsObservation, Obs!Spec
=============================================================================
