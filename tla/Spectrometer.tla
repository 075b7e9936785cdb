---------------------------- MODULE Spectrometer ----------------------------
(***************************************************************************)
(* The spectrometer's programs: ibob_control.c, which sums the packets the *)
(* IBOB board streams over UDP into spectra and sends them to the catcher; *)
(* vaned.c, which moves the vane and switches to fake data through shared  *)
(* memory; the load both of them move, by the control server's "cal"; and  *)
(* the observer, who sends each program commands at any time.              *)
(*                                                                         *)
(* One integration of the board is Labels packets (bram and offset, eight  *)
(* in the code); a spectrum sums Integration integrations (four).          *)
(***************************************************************************)
EXTENDS Integers, Sequences

CONSTANTS
    Labels, Integration, Sky, Hot, Nothing,  \* see Observation
    MaxQueue,    \* packets the socket holds (a bound of the model)
    MaxLost,     \* packets lost in all (a bound of the model)
    MaxCommands, \* commands sent in all (a bound of the model)
    IbobCommands, VaneCommands, \* those that are sent
    Spectra      \* the fake signal spectra, five in the code

AllIbobCommands == {"sky", "hot", "zero_in", "zero_out", "cold", "config",
                 "start", "stop", "shutdown", "init", "unknown"}
AllVaneCommands == {"VANEIN", "VANEHOME", "fake_cal", "fake_ref", "fake_sig",
                 "real"}

ASSUME SpectrometerAssumption ==
    /\ Labels \in Nat \ {0} /\ Integration \in Nat \ {0}
    /\ MaxQueue \in Nat \ {0} /\ MaxLost \in Nat /\ MaxCommands \in Nat
    /\ IbobCommands \subseteq AllIbobCommands
    /\ VaneCommands \subseteq AllVaneCommands
    /\ Spectra \in Nat \ {0} /\ Sky # Hot

VARIABLES
    at,        \* where ibob_control is
    running,   \* its flag: send data
    client,    \* whether it connected to the catcher
    mode,      \* MODE and BIN, which are always set alike
    zero,      \* zero_factor
    k,         \* the next fake signal spectrum
    open,      \* whether udpsock is open
    udp,       \* packets waiting in it
    n, sums,   \* send_data(): packets summed, in all and of each label
    loads,     \* the loads they were taken with
    inbox,     \* commands for ibob_control, at most one: a second one is
               \* not looked at before the first is done
    streaming, \* the board sends packets
    next,      \* the label of the next one
    gap,       \* the one before it was lost
    load,      \* the load in the beam
    fake,      \* shm->fake
    vaneAt,    \* what vaned is doing: nothing, or moving the load
    vaneInbox, \* commands for vaned, likewise
    heard,     \* the last message the catcher got
    before,    \* history: running and mode when do_sky() or do_hot() began
    promised,  \* history: the load the last of them put in
    moved,     \* history: vaned moved the load since ibob_control did
    lost,      \* history: a packet is missing from the current sum
    losses,    \* history: packets lost in all
    commands   \* history: commands sent in all

progVars == <<at, running, client, mode, zero, k, open>>
sumVars == <<n, sums, loads>>
vaneVars == <<fake, vaneAt, vaneInbox>>
boardVars == <<streaming, next, gap, losses>>
history == <<before, promised>>
vars == <<progVars, udp, sumVars, inbox, boardVars, load, vaneVars, heard,
          history, moved, lost, commands>>

LabelSet == 0 .. Labels - 1
LastLabel == Labels - 1   \* bram 1, offset 768: the end of an integration

-------------------------------------------------------------------------------
(* The board, and the network between *)

Emit ==
    /\ streaming /\ Len(udp) < MaxQueue
    /\ next' = (next + 1) % Labels /\ gap' = FALSE
    /\ udp' = IF open
              THEN Append(udp, [label |-> next, load |-> load, gap |-> gap])
              ELSE udp
    /\ UNCHANGED <<progVars, sumVars, inbox, streaming, losses, load, vaneVars,
                   heard, moved, lost, commands, history>>

\* A packet is lost on the way, or because the socket is full.
Lose ==
    /\ streaming /\ losses < MaxLost
    /\ next' = (next + 1) % Labels /\ gap' = TRUE
    /\ losses' = losses + 1
    /\ UNCHANGED <<progVars, udp, sumVars, inbox, streaming, load, vaneVars,
                   heard, moved, lost, commands, history>>

-------------------------------------------------------------------------------
(* ibob_control: send_data() *)

Goto(step) ==
    at' = step /\ UNCHANGED <<running, client, mode, zero, open>>

\* Fault for the mutation checks: the socket is left as it is.
NotCleared == udp

\* clear_udp_buffer(): reads until the socket is empty.
Cleared == <<>>

Report(f, s, ls, missing) ==
    [tag |-> mode, sums |-> s, loads |-> ls, fake |-> f,
     zero |-> zero, moved |-> moved, lost |-> missing]

NoSum == n' = 0 /\ loads' = {} /\ sums' = [l \in LabelSet |-> 0]

\* The head of the loop: data first, when they are wanted and a client is there.
Top ==
    /\ at = "top"
    /\ Goto(IF running /\ client THEN "fake1" ELSE "read")
    /\ UNCHANGED <<k, udp, sumVars, inbox, boardVars, load, vaneVars, heard,
                   moved, lost, commands, history>>

\* Fault for the mutation checks: k is not set back to 0.
NeverBack == k + 1

NextSpectrum == (k + 1) % Spectra

\* shm->fake is read anew for each of the three tests, and vaned may change it
\* between two of them.  Without a match the data are real.
FakeTest(i) ==
    /\ at = <<"fake1", "fake2", "fake3">>[i]
    /\ IF fake = i
       THEN /\ Goto("read") /\ heard' = Report(i, sums, loads, lost)
            /\ k' = IF i = 3 THEN NextSpectrum ELSE k
            /\ UNCHANGED <<udp, sumVars, lost>>
       ELSE /\ UNCHANGED <<k, heard>>
            /\ IF i < 3
               THEN /\ Goto(<<"fake2", "fake3">>[i])
                    /\ UNCHANGED <<udp, sumVars, lost>>
               ELSE /\ Goto("sync")
                    /\ udp' = IF open THEN Cleared ELSE udp
                    /\ NoSum /\ lost' = ~ open
    /\ UNCHANGED <<inbox, boardVars, load, vaneVars, moved, commands, history>>

\* Fault for the mutation checks: the wait is for an offset no packet has.
NoSuchOffset(p) == p.label = Labels

Synchronizes(p) == p.label = LastLabel
Complete == n + 1 = Labels * Integration

\* recvfrom() waits for packets until one ends an integration.
Sync ==
    /\ at = "sync" /\ open /\ udp # <<>>
    /\ Goto(IF Synchronizes(Head(udp)) THEN "sum" ELSE "sync")
    /\ udp' = Tail(udp)
    /\ UNCHANGED <<k, sumVars, inbox, boardVars, load, vaneVars, heard, moved,
                   lost, commands, history>>

Sum ==
    /\ at = "sum" /\ open /\ udp # <<>>
    /\ udp' = Tail(udp)
    /\ LET p == Head(udp)
           s == [sums EXCEPT ![p.label] = @ + 1]
           ls == loads \cup {p.load}
           missing == lost \/ p.gap
       IN IF Complete
          THEN /\ heard' = Report(0, s, ls, missing)
               /\ NoSum /\ lost' = FALSE
               /\ Goto("read")
          ELSE /\ n' = n + 1 /\ sums' = s /\ loads' = ls /\ lost' = missing
               /\ UNCHANGED heard
               /\ Goto("sum")
    /\ UNCHANGED <<k, inbox, boardVars, load, vaneVars, moved, commands, history>>

\* After "shutdown" recvfrom() fails at once and buf keeps what the stack held:
\* the loop spins for ever (this action need not happen), or takes the old
\* bytes for an end of integration and sums them.
Stale ==
    /\ at = "sync" /\ ~ open
    /\ heard' = Report(0, sums, loads, lost) /\ Goto("read")
    /\ lost' = FALSE
    /\ UNCHANGED <<k, udp, sumVars, inbox, boardVars, load, vaneVars, moved,
                   commands, history>>

-------------------------------------------------------------------------------
(* ibob_control: commands *)

Answer(c) == heard' = [done |-> c]

\* The first command of all makes the connection to the catcher.
Receive(cs) ==
    /\ at = "read" /\ inbox # <<>> /\ Head(inbox) \in cs
    /\ inbox' = Tail(inbox)
    /\ client' = TRUE
    /\ UNCHANGED <<k, sumVars, boardVars, load, vaneVars, commands>>

NoCommand ==
    /\ at = "read" /\ inbox = <<>>
    /\ Goto("top")
    /\ UNCHANGED <<k, udp, sumVars, inbox, boardVars, load, vaneVars, heard,
                   moved, lost, commands, history>>

NotSwitching == [running |-> FALSE, mode |-> Sky]

\* do_sky() and do_hot(), up to the call of system()
Switch ==
    /\ Receive({"sky", "hot"})
    /\ running' = FALSE
    /\ udp' = IF open THEN Cleared ELSE udp
    /\ mode' = IF Head(inbox) = "sky" THEN Sky ELSE Hot
    /\ before' = [running |-> running, mode |-> mode]
    /\ at' = "cal"
    /\ UNCHANGED <<zero, open, heard, moved, lost, promised>>

\* system() returns when "cal" is done: the load is where MODE says.
Cal ==
    /\ at = "cal"
    /\ load' = mode
    /\ moved' = FALSE
    /\ Goto("settle")
    /\ UNCHANGED <<k, udp, sumVars, inbox, boardVars, vaneVars, heard, lost,
                   commands, history>>

Settle ==
    /\ at = "settle"
    /\ udp' = IF open THEN Cleared ELSE udp
    /\ running' = TRUE
    /\ promised' = mode /\ before' = NotSwitching
    /\ Answer(IF mode = Sky THEN "sky" ELSE "hot")
    /\ at' = "top"
    /\ UNCHANGED <<client, mode, zero, k, open, sumVars, inbox, boardVars, load,
                   vaneVars, moved, lost, commands>>

\* do_zero_in() and do_zero_out()
Zero ==
    /\ Receive({"zero_in", "zero_out"})
    /\ mode' = IF Head(inbox) = "zero_in" THEN Hot ELSE Sky
    /\ zero' = IF Head(inbox) = "zero_in" THEN 0 ELSE 1
    /\ udp' = IF open THEN Cleared ELSE udp
    /\ running' = TRUE
    /\ Answer(Head(inbox))
    /\ at' = "top"
    /\ UNCHANGED <<open, moved, lost, history>>

\* Fault for the mutation checks: do_stop() leaves the data running.
RunsAfterStop(c) == TRUE

\* do_start(), do_config() and do_cold() leave the data running, do_stop()
\* not, do_shutdown() as they were.
RunsAfter(c) ==
    CASE c = "stop" -> FALSE [] c = "shutdown" -> running [] OTHER -> TRUE

Simple ==
    /\ Receive({"start", "stop", "config", "cold"})
    /\ running' = RunsAfter(Head(inbox))
    /\ Answer(Head(inbox))
    /\ at' = "top"
    /\ UNCHANGED <<mode, zero, open, udp, moved, lost, history>>

\* "endudp" goes out without the end of line the other commands to the board
\* have: it may or may not be obeyed.
Shutdown ==
    /\ at = "read" /\ inbox # <<>> /\ Head(inbox) = "shutdown"
    /\ inbox' = Tail(inbox)
    /\ client' = TRUE
    /\ running' = RunsAfter("shutdown")
    /\ Answer("shutdown")
    /\ open' = FALSE /\ udp' = <<>>
    /\ streaming' \in {streaming, FALSE}
    /\ at' = "top"
    /\ UNCHANGED <<mode, zero, k, sumVars, next, gap, losses, load, vaneVars, moved,
                   lost, commands, history>>

\* do_initialize(): with the UDP port still bound, bind() fails and the
\* program exits.
Initialize ==
    /\ at = "read" /\ inbox # <<>> /\ Head(inbox) = "init"
    /\ inbox' = Tail(inbox)
    /\ client' = TRUE
    /\ open' = TRUE
    /\ IF open THEN at' = "exited" /\ UNCHANGED streaming
       ELSE at' = "top" /\ streaming' = TRUE
    /\ UNCHANGED <<running, mode, zero, k, udp, sumVars, next, gap, losses, load,
                   vaneVars, heard, moved, lost, commands, history>>

Unknown ==
    /\ Receive({"unknown"})
    /\ at' = "top"
    /\ UNCHANGED <<running, mode, zero, open, udp, heard, moved, lost, history>>

-------------------------------------------------------------------------------
(* vaned *)

VaneIdle == vaneAt = "idle" /\ vaneInbox # <<>>

\* do_hot() and do_sky() of vaned, up to the call of system().  Moving the vane
\* in while the data are fake makes them the fake calibration.
VaneMove ==
    /\ VaneIdle /\ Head(vaneInbox) \in {"VANEIN", "VANEHOME"}
    /\ vaneAt' = Head(vaneInbox)
    /\ fake' = IF Head(vaneInbox) = "VANEIN" /\ fake # 0 THEN 1 ELSE fake
    /\ vaneInbox' = Tail(vaneInbox)
    /\ UNCHANGED <<progVars, udp, sumVars, inbox, boardVars, load, heard, moved,
                   lost, commands, history>>

VaneCal ==
    /\ vaneAt # "idle"
    /\ load' = IF vaneAt = "VANEIN" THEN Hot ELSE Sky
    /\ moved' = TRUE
    /\ vaneAt' = "idle"
    /\ UNCHANGED <<progVars, udp, sumVars, inbox, boardVars, fake, vaneInbox,
                   heard, lost, commands, history>>

VaneFake ==
    /\ VaneIdle /\ Head(vaneInbox) \notin {"VANEIN", "VANEHOME"}
    /\ fake' = CASE Head(vaneInbox) = "fake_cal" -> 1
                 [] Head(vaneInbox) = "fake_ref" -> 2
                 [] Head(vaneInbox) = "fake_sig" -> 3
                 [] Head(vaneInbox) = "real" -> 0
    /\ vaneInbox' = Tail(vaneInbox)
    /\ UNCHANGED <<progVars, udp, sumVars, inbox, boardVars, load, vaneAt,
                   heard, moved, lost, commands, history>>

-------------------------------------------------------------------------------
(* The observer *)

Command ==
    /\ commands < MaxCommands
    /\ commands' = commands + 1
    /\ \/ /\ inbox = <<>>
          /\ \E c \in IbobCommands : inbox' = Append(inbox, c)
          /\ UNCHANGED vaneInbox
       \/ /\ vaneInbox = <<>>
          /\ \E c \in VaneCommands : vaneInbox' = Append(vaneInbox, c)
          /\ UNCHANGED inbox
    /\ UNCHANGED <<progVars, udp, sumVars, boardVars, load, fake, vaneAt, heard,
                   moved, lost, history>>

Init ==
    /\ at = "top" /\ running = FALSE /\ client = FALSE /\ mode = Sky
    /\ zero = 1 /\ k = 0 /\ open = TRUE /\ udp = <<>>
    /\ n = 0 /\ sums = [l \in LabelSet |-> 0] /\ loads = {}
    /\ inbox = <<>> /\ streaming = TRUE /\ next = 0
    /\ load \in {Sky, Hot} /\ fake = 0 /\ vaneAt = "idle" /\ vaneInbox = <<>>
    /\ gap = FALSE /\ heard = Nothing /\ moved = TRUE /\ lost = FALSE /\ losses = 0
    /\ commands = 0 /\ promised = load
    /\ before = NotSwitching

SendData == Sync \/ Sum \/ \E i \in 1 .. 3 : FakeTest(i)
Handle == Switch \/ Cal \/ Settle \/ Zero \/ Simple \/ Shutdown \/ Initialize
              \/ Unknown
Ibob == Top \/ SendData \/ NoCommand \/ Handle
Vaned == VaneMove \/ VaneCal \/ VaneFake

Next == Emit \/ Lose \/ Ibob \/ Stale \/ Vaned \/ Command

Spec == Init /\ [][Next]_vars

\* The board streams, and both programs run.
FairSpec == Spec /\ WF_vars(Emit) /\ WF_vars(Ibob) /\ WF_vars(Vaned)

-------------------------------------------------------------------------------
(* Properties *)

Packet == [label : LabelSet, load : {Sky, Hot}, gap : BOOLEAN]

\* Every variable stays in its type; k stays an index of FAKE_SIGS.
TypeOK ==
    /\ at \in {"top", "fake1", "fake2", "fake3", "sync", "sum", "read", "cal",
               "settle", "exited"}
    /\ running \in BOOLEAN /\ client \in BOOLEAN /\ open \in BOOLEAN
    /\ mode \in {Sky, Hot} /\ zero \in {0, 1} /\ k \in 0 .. Spectra - 1
    /\ udp \in Seq(Packet) /\ Len(udp) <= MaxQueue
    /\ n \in 0 .. Labels * Integration /\ loads \subseteq {Sky, Hot}
    /\ sums \in [LabelSet -> 0 .. Labels * Integration]
    /\ inbox \in Seq(IbobCommands) /\ vaneInbox \in Seq(VaneCommands)
    /\ streaming \in BOOLEAN /\ next \in LabelSet /\ gap \in BOOLEAN
    /\ losses \in 0 .. MaxLost /\ commands \in 0 .. MaxCommands
    /\ load \in {Sky, Hot} /\ fake \in 0 .. 3
    /\ vaneAt \in {"idle", "VANEIN", "VANEHOME"}
    /\ moved \in BOOLEAN /\ lost \in BOOLEAN /\ promised \in {Sky, Hot}
    /\ before \in [running : BOOLEAN, mode : {Sky, Hot}]

\* What is still to be summed, and what is summed so far, was taken with the
\* load now in the beam, unless vaned moved it: the packets from before
\* do_sky() or do_hot() moved it are gone.
NoStalePackets ==
    (~ moved /\ at # "settle") =>
        /\ \A i \in DOMAIN udp : udp[i].load = load
        /\ at = "sum" => loads \subseteq {load}

\* While a spectrum is summed and no packet is missing, the sums of two labels
\* differ by at most one, the earlier label ahead; label 0 follows the end of
\* the integration send_data() waited for.
SumsInStep ==
    (at = "sum" /\ ~ lost) =>
        \A l \in LabelSet : sums[l] = (n + LastLabel - l) \div Labels

\* What a spectrum is made of: packets of the load in the beam, as many of each
\* label as can be.
SpectraSound == NoStalePackets /\ SumsInStep

Switching == at \in {"cal", "settle"}

\* The messages the catcher gets are those Observation allows.
Obs == INSTANCE Observation WITH
    tag <- IF Switching THEN before.mode ELSE mode,
    load <- promised,
    silent <- ~ (IF Switching THEN before.running ELSE running)
MeetsObservation == Obs!Spec

\* Every command is taken from the mailbox in the end, whatever data are being
\* summed, as long as the board streams to an open socket.
CommandsHandled ==
    inbox # <<>> ~> (inbox = <<>> \/ at = "exited" \/ ~ open \/ ~ streaming)
=============================================================================
