------------------------------ MODULE Receiver ------------------------------
(***************************************************************************)
(* The command handlers of rxServer, with what they reach: the GPIB        *)
(* adapter behind which the L-band synthesizer and the CAL generator share *)
(* one line, the CAN bus with the bias module, the CAN thread that keeps   *)
(* the module's reports, and tunemrid, which sends setfreq through nc.     *)
(*                                                                         *)
(* A handler is the list of what it writes; tellSerial() and writeCan()    *)
(* may fail at any of them, and no handler looks.  How commands get to the *)
(* handlers is ConnServer; which ones the checks let through is Dispatch.  *)
(***************************************************************************)
EXTENDS Integers, Sequences, SequencesExt

CONSTANTS
    Commands,    \* the commands clients send (a bound of the model)
    Tunings,     \* the frequencies RAMBO asks for, in MHz (a bound)
    Biases,      \* where a sweep may end, and the power-up bias (a bound)
    None,        \* no value
    MaxPending,  \* commands that wait (a bound of the model)
    MaxReports,  \* reports the thread has yet to read (a bound of the model)
    MaxFaults,   \* writes that fail, reports lost, resets (a bound)
    MaxCommands  \* commands in all (a bound of the model)

Within(low, high) == {x \in Nat : low <= x /\ x <= high}

\* What the checks of the command table let through; frequencies of setLband
\* in kHz, of setfreq in MHz.
Command ==
    [cmd : {"cal"}, state : {0, 1}]
      \cup [cmd : {"setLband"}, plan : [band : 1 .. 3, n : {8, 9}, m : 8 .. 10,
                                        freq : Within(1100000, 1260000)]]
      \cup [cmd : {"setfreq"}, freq : Within(80000, 273000)]
      \cup [cmd : {"setbias"}, value : Within(0, 24000)]
      \cup [cmd : {"setLNAgate"}, value : Within(0, 24000)]
      \cup [cmd : {"sweep"}]

ASSUME ReceiverAssumption ==
    /\ Commands \subseteq Command
    /\ Tunings \subseteq Within(80000, 113349) \cup Within(211110, 273000)
    /\ Biases \subseteq Nat /\ None \notin Nat
    /\ MaxPending \in Nat /\ MaxReports \in Nat
    /\ MaxFaults \in Nat /\ MaxCommands \in Nat

VARIABLES
    pending,    \* the commands on the connections
    doing,      \* the command whose handler runs, Idle if none does
    script,     \* what it has still to write
    adapter,    \* the GPIB adapter's settings: addr, and auto with eos
    generator,  \* the CAL generator's output state
    synth,      \* the synthesizer's frequency, in kHz
    yig,        \* the harmonic and frequency the YIG's DAC was set for
    server,     \* the server record: calState, LOFreq in kHz, and the plan
    bias,       \* the bias module's set point
    gate,       \* its two LNA gate voltages
    reports,    \* its reports the CAN thread has yet to read: [bias, new]
    VSET,       \* _server.VSET
    listening,  \* the CAN thread runs
    tunemrid,   \* [at, freq]: what tunemrid waits for
    whole,      \* history: no write of the handler has failed
    done,       \* history: the commands whose last run was whole
    asked,      \* history: the last bias asked for, None if a sweep followed
    fresh,      \* history: VSET is from a report of the present bias
    behind,     \* history: it was not when the bias was asked for
    faults, commands  \* history: how many of each

gpib == <<adapter, generator, synth>>
module == <<bias, gate, yig>>
thread == <<reports, VSET, listening>>
history == <<done, asked, behind>>
vars == <<pending, doing, script, gpib, server, module, thread, tunemrid,
          whole, history, fresh, faults, commands>>

Idle == [cmd |-> "none"]

-------------------------------------------------------------------------------
(* setFreq(): the harmonics and the frequency of the synthesizer *)

\* Fault for the mutation checks: the table ends at 211.11 GHz.
Row3mm(freq) ==
    IF 100000 <= freq /\ freq < 113350 THEN <<3, 9, 10>> ELSE <<>>

\* The first row of the table that holds the frequency, <<>> if none does.
Row(freq) ==
    CASE 79160 <= freq /\ freq < 90000 -> <<3, 8, 9>>
      [] 90000 <= freq /\ freq < 100000 -> <<3, 8, 10>>
      [] 100000 <= freq /\ freq < 113350 -> <<3, 9, 10>>
      [] 211110 <= freq /\ freq < 240000 -> <<1, 8, 8>>
      [] 240000 <= freq /\ freq <= 273040 -> <<1, 8, 9>>
      [] OTHER -> <<>>

InTable(freq) == Row(freq) # <<>>

\* The Gunn oscillator runs at the LO frequency, or a third of it, and 50 MHz
\* above the m-th harmonic of the YIG, and this 10 MHz below the n-th of the
\* synthesizer.
Planned(freq, n, m) ==
    LET gunn == IF Row(freq)[1] = 3 THEN 1000 * freq ELSE (1000 * freq) \div 3
    IN [band |-> Row(freq)[1], n |-> n, m |-> m,
        freq |-> (gunn - 50000 + 10000 * m) \div (n * m)]

Plan(freq) == Planned(freq, Row(freq)[2], Row(freq)[3])
\* What setLband_worker() is called with.
PlanOf(c) == IF c.cmd = "setLband" THEN c.plan ELSE Plan(c.freq)

-------------------------------------------------------------------------------
(* What the handlers write *)

Adapter(setting, value) == [to |-> "adapter", item |-> setting, value |-> value]
Instrument(text, value) == [to |-> "instrument", item |-> text, value |-> value]
Can(item, value) == [to |-> "can", item |-> item, value |-> value]
Sleep == [to |-> "none", item |-> "sleep", value |-> 1]

\* Fault for the mutation checks: the adapter is taken to be at 8 already.
CalScriptShort(state) == <<Adapter("mode", 8), Instrument("OUTP", state)>>

\* ++auto and ++eos are set for the instrument that is to be spoken to, one
\* right after the other: together they are the adapter's mode.
CalScript(state) ==
    <<Adapter("addr", 8), Adapter("mode", 8), Instrument("OUTP", state)>>

LbandScript(plan) ==
    <<Adapter("addr", 7), Adapter("mode", 7), Instrument("FR", plan.freq), Can("yig", <<plan.n, plan.freq>>)>>

\* Fault for the mutation checks: a bias of 0 is taken for a missing one.
BiasScriptNonzero(value) ==
    (IF value # VSET /\ value # 0 THEN <<Can("bias", value)>> ELSE <<>>)
        \o <<Sleep>>

\* Only a bias that differs from the one last reported is sent.
BiasScript(value) ==
    (IF value # VSET THEN <<Can("bias", value)>> ELSE <<>>) \o <<Sleep>>

Script(c) ==
    CASE c.cmd = "cal" -> CalScript(c.state)
      [] c.cmd = "setLband" -> LbandScript(c.plan)
      [] c.cmd = "setfreq" ->
             IF InTable(c.freq) THEN LbandScript(Plan(c.freq)) ELSE <<>>
      [] c.cmd = "setbias" -> BiasScript(c.value)
      [] c.cmd = "setLNAgate" -> <<Can("gate1", c.value), Can("gate2", c.value)>>
      [] c.cmd = "sweep" -> <<Can("sweep", 1)>>

-------------------------------------------------------------------------------
(* The devices *)

\* An instrument takes the text in its own language, ended as it expects, and
\* ignores any other.
SpeaksTo(device) == adapter.addr = device /\ adapter.mode = device

ToInstrument(w) ==
    /\ generator' = IF w.item = "OUTP" /\ SpeaksTo(8) THEN w.value ELSE generator
    /\ synth' = IF w.item = "FR" /\ SpeaksTo(7) THEN w.value ELSE synth
    /\ UNCHANGED <<adapter, module, reports, fresh>>

ToAdapter(w) ==
    /\ adapter' = [adapter EXCEPT ![w.item] = w.value]
    /\ UNCHANGED <<generator, synth, module, reports, fresh>>

\* A sweep leaves the bias where it ends.
ToCan(w) ==
    /\ bias' \in (CASE w.item = "bias" -> {w.value}
                    [] w.item = "sweep" -> Biases
                    [] OTHER -> {bias})
    /\ gate' = CASE w.item = "gate1" -> [gate EXCEPT ![1] = w.value]
                 [] w.item = "gate2" -> [gate EXCEPT ![2] = w.value]
                 [] OTHER -> gate
    /\ yig' = IF w.item = "yig" THEN w.value ELSE yig
    /\ reports' = [i \in DOMAIN reports |->
                      [reports[i] EXCEPT !.new = @ /\ bias' = bias]]
    /\ fresh' = (fresh /\ bias' = bias)
    /\ UNCHANGED gpib

-------------------------------------------------------------------------------
(* The server's main thread *)

\* The next line of a client: connections are served in the order of their
\* slots, not in the order the lines came.
Begin(i) ==
    LET c == pending[i] IN
    /\ doing = Idle
    /\ pending' = RemoveAt(pending, i)
    /\ doing' = c /\ script' = Script(c) /\ whole' = TRUE
    /\ asked' = CASE c.cmd = "setbias" -> c.value
                  [] c.cmd = "sweep" -> None
                  [] OTHER -> asked
    /\ behind' = IF c.cmd = "setbias" THEN ~ fresh ELSE behind
    /\ UNCHANGED <<gpib, server, module, thread, tunemrid, done, fresh, faults,
                   commands>>

\* tellSerial() and writeCan() return whether they wrote, to nobody.
Write ==
    /\ doing # Idle /\ script # <<>>
    /\ LET w == Head(script) IN
       \/ /\ \/ w.to = "adapter" /\ ToAdapter(w)
             \/ w.to = "instrument" /\ ToInstrument(w)
             \/ w.to = "can" /\ ToCan(w)
             \/ w.to = "none" /\ UNCHANGED <<gpib, module, reports, fresh>>
          /\ UNCHANGED <<whole, faults>>
       \/ /\ w.to # "none" /\ faults < MaxFaults
          /\ whole' = FALSE /\ faults' = faults + 1
          /\ UNCHANGED <<gpib, module, reports, fresh>>
    /\ script' = Tail(script)
    /\ UNCHANGED <<pending, doing, server, VSET, listening, tunemrid, history,
                   commands>>

\* The LO frequency setLband_worker() makes of the harmonics; with a band other
\* than 1 and 3 it stays what it was.
LOFreq(plan) ==
    LET gunn == plan.m * (plan.n * plan.freq - 10000) + 50000 IN
    CASE plan.band = 3 -> gunn [] plan.band = 1 -> 3 * gunn [] OTHER -> server.LOFreq

\* The server record is set whatever became of the writes.
Record(c) ==
    server' = CASE c.cmd = "cal" -> [server EXCEPT !.calState = c.state]
                [] c.cmd = "setLband" \/ (c.cmd = "setfreq" /\ InTable(c.freq)) ->
                       [server EXCEPT !.plan = PlanOf(c), !.LOFreq = LOFreq(PlanOf(c))]
                [] OTHER -> server

\* setfreq and setLband share the worker and its devices.
Kind(c) == IF c.cmd = "setfreq" THEN "setLband" ELSE c.cmd

Finish ==
    /\ doing # Idle /\ script = <<>>
    /\ Record(doing)
    /\ done' = IF doing.cmd = "setfreq" /\ ~ InTable(doing.freq) THEN done
               ELSE IF whole THEN done \cup {Kind(doing)}
               ELSE done \ {Kind(doing)}
    /\ doing' = Idle
    /\ UNCHANGED <<pending, script, gpib, module, thread, tunemrid, whole,
                   asked, behind, fresh, faults, commands>>

-------------------------------------------------------------------------------
(* The CAN thread, and the bias module's reports *)

Report ==
    /\ Len(reports) < MaxReports
    /\ reports' = Append(reports, [bias |-> bias, new |-> TRUE])
    /\ UNCHANGED <<pending, doing, script, gpib, server, module, VSET, listening,
                   tunemrid, whole, history, fresh, faults, commands>>

TakeReport ==
    /\ listening /\ reports # <<>>
    /\ VSET' = Head(reports).bias
    /\ fresh' = Head(reports).new
    /\ reports' = Tail(reports)
    /\ UNCHANGED <<pending, doing, script, gpib, server, module, listening,
                   tunemrid, whole, history, faults, commands>>

\* A failed read() ends the thread; the server goes on with what VSET was.
ReadFails ==
    /\ listening /\ faults < MaxFaults
    /\ listening' = FALSE
    /\ faults' = faults + 1
    /\ UNCHANGED <<pending, doing, script, gpib, server, module, reports, VSET,
                   tunemrid, whole, history, fresh, commands>>

\* The adapter is switched off and on: its settings are what it saved.
Reset ==
    /\ faults < MaxFaults
    /\ adapter' \in [addr : {7, 8}, mode : {7, 8}]
    /\ whole' = FALSE
    /\ faults' = faults + 1
    /\ UNCHANGED <<pending, doing, script, generator, synth, server, module,
                   thread, tunemrid, history, fresh, commands>>

-------------------------------------------------------------------------------
(* The clients *)

Ask(c) ==
    /\ commands < MaxCommands /\ Len(pending) < MaxPending
    /\ pending' = Append(pending, c)
    /\ commands' = commands + 1
    /\ UNCHANGED <<doing, script, gpib, server, module, thread, tunemrid, whole,
                   history, fresh, faults>>

\* tunemrid: "lofreq" becomes setfreq; nc leaves after a second of silence,
\* answered or not, and RAMBO is told "done frequency set".
DoFreq(freq) ==
    /\ tunemrid = None
    /\ commands < MaxCommands /\ Len(pending) < MaxPending
    /\ pending' = Append(pending, [cmd |-> "setfreq", freq |-> freq])
    /\ tunemrid' = freq
    /\ commands' = commands + 1
    /\ UNCHANGED <<doing, script, gpib, server, module, thread, whole, history, fresh,
                   faults>>

Done ==
    /\ tunemrid # None /\ tunemrid' = None
    /\ UNCHANGED <<pending, doing, script, gpib, server, module, thread, whole,
                   history, fresh, faults, commands>>

-------------------------------------------------------------------------------
Init ==
    /\ pending = <<>> /\ doing = Idle /\ script = <<>>
    /\ \E device \in {7, 8} : adapter = [addr |-> device, mode |-> device]
    /\ generator = 0 /\ synth = 0 /\ yig = <<0, 0>>
    /\ server = [calState |-> 0, LOFreq |-> 0,
              plan |-> [band |-> 0, n |-> 0, m |-> 0, freq |-> 0]]
    /\ bias \in Biases /\ gate = <<0, 0>>
    /\ reports = <<>> /\ VSET = 0 /\ listening = TRUE /\ tunemrid = None
    /\ whole = TRUE /\ done = {} /\ asked = None
    /\ fresh = FALSE /\ behind = FALSE
    /\ faults = 0 /\ commands = 0

Main == Write \/ Finish \/ \E i \in DOMAIN pending : Begin(i)

Next ==
    \/ Main \/ Report \/ TakeReport \/ ReadFails \/ Reset \/ Done
    \/ (\E c \in Commands : Ask(c)) \/ \E freq \in Tunings : DoFreq(freq)

Spec == Init /\ [][Next]_vars

\* The server runs.
FairSpec == Spec /\ WF_vars(Main)

-------------------------------------------------------------------------------
(* Properties *)

Planning == [band : 0 .. 3, n : {0, 8, 9}, m : {0, 8, 9, 10}, freq : Nat]

\* Every variable stays in its type.
TypeOK ==
    /\ pending \in Seq(Command) /\ Len(pending) <= MaxPending
    /\ doing \in Command \cup {Idle}
    /\ Len(script) <= 4
    /\ adapter \in [addr : {7, 8}, mode : {7, 8}]
    /\ generator \in {0, 1} /\ synth \in Nat /\ yig \in {0, 8, 9} \X Nat
    /\ server \in [calState : {0, 1}, LOFreq : Nat, plan : Planning]
    /\ bias \in Nat /\ gate \in Nat \X Nat
    /\ reports \in Seq([bias : Nat, new : BOOLEAN]) /\ Len(reports) <= MaxReports
    /\ VSET \in Nat /\ listening \in BOOLEAN /\ tunemrid \in Tunings \cup {None}
    /\ whole \in BOOLEAN /\ asked \in Nat \cup {None}
    /\ done \subseteq {"cal", "setLband", "setbias", "setLNAgate", "sweep"}
    /\ fresh \in BOOLEAN /\ behind \in BOOLEAN
    /\ faults \in 0 .. MaxFaults /\ commands \in 0 .. MaxCommands

\* Between two commands the generator, the synthesizer with the YIG, and the
\* two gates are as the server record says (or alike), for each of them whose
\* last command wrote all it had to: a write that failed in one command, or
\* settings the adapter kept from another or from a reset, do not send a later
\* command to the wrong instrument.
InstrumentsAgree ==
    /\ TypeOK
    /\ doing = Idle =>
           /\ "cal" \in done => generator = server.calState
           /\ "setLband" \in done =>
                  synth = server.plan.freq /\ yig = <<server.plan.n, synth>>
           /\ "setLNAgate" \in done => gate[1] = gate[2]

\* The bias module is where setbias told the client it sets it, once the frame
\* went through or was left out, if _server.VSET came from a report the module
\* made since its bias last changed.
BiasFollows ==
    (doing = Idle /\ "setbias" \in done /\ asked # None /\ ~ behind) =>
        bias = asked

\* A frequency that RAMBO asks for is the LO frequency the server reports in the
\* end, but for the rounding of the synthesizer to a kHz, though "done frequency
\* set" may have gone out before and others may be served first.
TunedInTheEnd ==
    \A freq \in Tunings :
        Contains(pending, [cmd |-> "setfreq", freq |-> freq])
            ~> server.LOFreq \in 1000 * freq - 300 .. 1000 * freq
=============================================================================
