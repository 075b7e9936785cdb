---------------------------- MODULE ServerProofs ----------------------------
(***************************************************************************)
(* Theorems about the two ends of the control server: the handlers and the *)
(* devices behind them (Receiver), for any commands, biases, reports and   *)
(* failures, and the lines of its clients (LineReader), for any clients,   *)
(* buffers and lines.                                                      *)
(***************************************************************************)
EXTENDS Receiver, LineReader, WellFoundedInduction, SequenceTheorems, TLAPS

-------------------------------------------------------------------------------
(* Receiver                                                                *)

\* Whether a command plans a frequency: setfreq may be out of its table.
Plans(c) == c.cmd = "setLband" \/ (c.cmd = "setfreq" /\ InTable(c.freq))

\* What a handler has left to write, and what the writes before did if none of
\* them failed.
CalLeft ==
    doing.cmd = "cal" =>
        LET outp == Instrument("OUTP", doing.state) IN
        \/ script = <<Adapter("addr", 8), Adapter("mode", 8), outp>>
        \/ script = <<Adapter("mode", 8), outp>> /\ (whole => adapter.addr = 8)
        \/ script = <<outp>> /\ (whole => SpeaksTo(8))
        \/ script = <<>> /\ (whole => generator = doing.state)

LbandLeft ==
    Plans(doing) =>
        LET plan == PlanOf(doing)
            fr == Instrument("FR", plan.freq)
            yg == Can("yig", <<plan.n, plan.freq>>) IN
        \/ script = <<Adapter("addr", 7), Adapter("mode", 7), fr, yg>>
        \/ script = <<Adapter("mode", 7), fr, yg>> /\ (whole => adapter.addr = 7)
        \/ script = <<fr, yg>> /\ (whole => SpeaksTo(7))
        \/ script = <<yg>> /\ (whole => synth = plan.freq)
        \/ script = <<>> /\ (whole => synth = plan.freq /\ yig = <<plan.n, plan.freq>>)

GateLeft ==
    doing.cmd = "setLNAgate" =>
        LET second == Can("gate2", doing.value) IN
        \/ script = <<Can("gate1", doing.value), second>>
        \/ script = <<second>> /\ (whole => gate[1] = doing.value)
        \/ script = <<>> /\ (whole => gate[1] = gate[2])

BiasLeft ==
    doing.cmd = "setbias" =>
        /\ asked = doing.value
        /\ \/ script = <<Can("bias", doing.value), Sleep>>
           \/ script = <<Sleep>> /\ (whole /\ ~ behind => bias = asked)
           \/ script = <<>> /\ (whole /\ ~ behind => bias = asked)

\* A sweep leaves no bias asked for; a command that plans nothing, and no
\* command, write nothing.
OtherLeft ==
    /\ doing.cmd = "sweep" => asked = None /\ script \in {<<Can("sweep", 1)>>, <<>>}
    /\ doing.cmd = "setfreq" /\ ~ InTable(doing.freq) => script = <<>>
    /\ doing = Idle => script = <<>>

\* What is in order stays so while another kind of command runs.
Kept ==
    /\ "cal" \in done /\ doing.cmd # "cal" => generator = server.calState
    /\ "setLband" \in done /\ ~ Plans(doing) =>
           synth = server.plan.freq /\ yig = <<server.plan.n, synth>>
    /\ "setLNAgate" \in done /\ doing.cmd # "setLNAgate" => gate[1] = gate[2]
    /\ ("setbias" \in done /\ doing.cmd # "setbias" /\ asked # None /\ ~ behind)
           => bias = asked

\* A report that is new, and VSET if it is fresh, are the bias as it is.
ReportsTrue ==
    /\ fresh => VSET = bias
    /\ \A i \in DOMAIN reports : reports[i].new => reports[i].bias = bias

Left == CalLeft /\ LbandLeft /\ GateLeft /\ BiasLeft /\ OtherLeft

Inv == TypeOK /\ Left /\ Kept /\ ReportsTrue

-------------------------------------------------------------------------------
(* Commands and plans *)

\* A command has the fields of its kind.
LEMMA CommandFields ==
    ASSUME NEW c \in Command
    PROVE  /\ c.cmd \in {"cal", "setLband", "setfreq", "setbias", "setLNAgate", "sweep"}
           /\ c # Idle
           /\ c.cmd = "cal" => c.state \in {0, 1}
           /\ c.cmd = "setLband" =>
                  c.plan \in [band : 1 .. 3, n : {8, 9}, m : 8 .. 10,
                              freq : Within(1100000, 1260000)]
           /\ c.cmd = "setfreq" => c.freq \in Within(80000, 273000)
           /\ c.cmd = "setbias" => c.value \in Nat
           /\ c.cmd = "setLNAgate" => c.value \in Nat
  <1>1. c.cmd \in {"cal", "setLband", "setfreq", "setbias", "setLNAgate", "sweep"}
    BY SMT DEF Command
  <1>2. c.cmd = "cal" => c.state \in {0, 1}
    BY SMT DEF Command
  <1>3. c.cmd = "setLband" =>
                  c.plan \in [band : 1 .. 3, n : {8, 9}, m : 8 .. 10,
                              freq : Within(1100000, 1260000)]
    BY SMT DEF Command
  <1>4. c.cmd = "setfreq" => c.freq \in Within(80000, 273000)
    BY SMT DEF Command
  <1>5. /\ c.cmd = "setbias" => c.value \in Nat
        /\ c.cmd = "setLNAgate" => c.value \in Nat
    BY SMT DEF Command, Within
  <1>6. QED
    BY <1>1, <1>2, <1>3, <1>4, <1>5, SMT DEF Idle

\* A frequency that RAMBO asks for makes a command.
LEMMA TuningsAreCommands ==
    ASSUME NEW freq \in Tunings
    PROVE  [cmd |-> "setfreq", freq |-> freq] \in Command
  <1>1. freq \in Within(80000, 273000)
    BY ReceiverAssumption, SMT DEF Within
  <1>2. QED
    BY <1>1, SMT DEF Command

\* The rows of the table, with what the plan makes of them.
LEMMA Rows ==
    ASSUME NEW freq \in Nat, InTable(freq)
    PROVE  /\ freq >= 79160
           /\ freq <= 273040
           /\ Row(freq) \in {<<3, 8, 9>>, <<3, 8, 10>>, <<3, 9, 10>>,
                             <<1, 8, 8>>, <<1, 8, 9>>}
  BY SMT DEF InTable, Row

\* The plan of a frequency in the table is one that a server record holds.
LEMMA PlanTypes ==
    ASSUME NEW freq \in Nat, InTable(freq)
    PROVE  /\ Plan(freq) \in [band : 1 .. 3, n : {8, 9}, m : 8 .. 10, freq : Nat]
           /\ Plan(freq).freq >= 250000
  <1> DEFINE g == IF Row(freq)[1] = 3 THEN 1000 * freq ELSE (1000 * freq) \div 3
  <1>1. g \in Nat /\ g >= 26000000
    BY Rows, SMT
  <1>2. /\ Row(freq)[1] \in {1, 3} /\ Row(freq)[2] \in {8, 9}
        /\ Row(freq)[3] \in {8, 9, 10}
    BY Rows, SMT
  <1>3. PICK n \in {8, 9}, m \in {8, 9, 10} : n = Row(freq)[2] /\ m = Row(freq)[3]
    BY <1>2
  <1>4. Plan(freq) = [band |-> Row(freq)[1], n |-> n, m |-> m,
                      freq |-> (g - 50000 + 10000 * m) \div (n * m)]
    BY <1>3 DEF Plan, Planned
  <1> HIDE DEF g
  <1>5. /\ (g - 50000 + 10000 * m) \div (n * m) \in Nat
        /\ (g - 50000 + 10000 * m) \div (n * m) >= 250000
    <2>1. CASE n = 8 /\ m = 8
      BY <1>1, <2>1, SMT
    <2>2. CASE n = 8 /\ m = 9
      BY <1>1, <2>2, SMT
    <2>3. CASE n = 8 /\ m = 10
      BY <1>1, <2>3, SMT
    <2>4. CASE n = 9 /\ m = 8
      BY <1>1, <2>4, SMT
    <2>5. CASE n = 9 /\ m = 9
      BY <1>1, <2>5, SMT
    <2>6. CASE n = 9 /\ m = 10
      BY <1>1, <2>6, SMT
    <2>7. QED
      BY <2>1, <2>2, <2>3, <2>4, <2>5, <2>6
  <1>6. QED
    BY <1>2, <1>4, <1>5, SMT

\* So is the plan of any command that plans.
LEMMA PlanOfTypes ==
    ASSUME NEW c \in Command, Plans(c)
    PROVE  /\ PlanOf(c) \in [band : 1 .. 3, n : {8, 9}, m : 8 .. 10, freq : Nat]
           /\ PlanOf(c).freq >= 250000
  <1>1. CASE c.cmd = "setLband"
    <2>1. PlanOf(c) = c.plan
      BY <1>1 DEF PlanOf
    <2>2. QED
      BY <1>1, <2>1, CommandFields, SMT DEF Within
  <1>2. CASE c.cmd # "setLband"
    <2>1. c.cmd = "setfreq" /\ InTable(c.freq) /\ c.freq \in Nat
      BY <1>2, CommandFields, SMT DEF Plans, Within
    <2>2. PlanOf(c) = Plan(c.freq)
      BY <1>2 DEF PlanOf
    <2>3. QED
      BY <2>1, <2>2, PlanTypes
  <1>3. QED
    BY <1>1, <1>2

\* The LO frequency that the server reports of a plan.
LEMMA LOFreqType ==
    ASSUME NEW plan \in [band : 1 .. 3, n : {8, 9}, m : 8 .. 10, freq : Nat],
           plan.freq >= 250000, server.LOFreq \in Nat
    PROVE  LOFreq(plan) \in Nat
  <1>1. PICK n \in {8, 9}, m \in {8, 9, 10}, f \in Nat :
            n = plan.n /\ m = plan.m /\ f = plan.freq /\ f >= 250000
    BY SMT
  <1>2. m * (n * f - 10000) + 50000 \in Nat
    <2>1. CASE n = 8 /\ m = 8
      BY <1>1, <2>1, SMT
    <2>2. CASE n = 8 /\ m = 9
      BY <1>1, <2>2, SMT
    <2>3. CASE n = 8 /\ m = 10
      BY <1>1, <2>3, SMT
    <2>4. CASE n = 9 /\ m = 8
      BY <1>1, <2>4, SMT
    <2>5. CASE n = 9 /\ m = 9
      BY <1>1, <2>5, SMT
    <2>6. CASE n = 9 /\ m = 10
      BY <1>1, <2>6, SMT
    <2>7. QED
      BY <2>1, <2>2, <2>3, <2>4, <2>5, <2>6
  <1>3. PICK gunn \in Nat : gunn = plan.m * (plan.n * plan.freq - 10000) + 50000
    BY <1>1, <1>2
  <1>4. LOFreq(plan) = CASE plan.band = 3 -> gunn [] plan.band = 1 -> 3 * gunn
                         [] OTHER -> server.LOFreq
    BY <1>3 DEF LOFreq
  <1>5. QED
    BY <1>3, <1>4, SMT

-------------------------------------------------------------------------------
(* One write *)

\* What a write leaves alone, whatever it is.
LEMMA WriteFrame ==
    ASSUME Write
    PROVE  /\ doing # Idle /\ script # <<>> /\ script' = Tail(script)
           /\ UNCHANGED <<pending, doing, server, VSET, listening, tunemrid,
                          done, asked, behind, commands>>
           /\ \/ UNCHANGED <<whole, faults>>
              \/ whole' = FALSE /\ faults' = faults + 1 /\ faults < MaxFaults
  BY Zenon DEF Write, history

\* A write to the adapter sets it, or fails.
LEMMA WroteAdapter ==
    ASSUME Write, NEW item, NEW value, Head(script) = Adapter(item, value)
    PROVE  /\ UNCHANGED <<generator, synth, bias, gate, yig, reports, fresh>>
           /\ \/ whole' = whole /\ adapter' = [adapter EXCEPT ![item] = value]
              \/ whole' = FALSE /\ adapter' = adapter
  <1>1. /\ Head(script).to = "adapter" /\ Head(script).item = item
        /\ Head(script).value = value
    BY SMT DEF Adapter
  <1>2. CASE ToAdapter(Head(script)) /\ UNCHANGED <<whole, faults>>
    BY <1>1, <1>2 DEF ToAdapter, module
  <1>3. CASE whole' = FALSE /\ UNCHANGED <<gpib, module, reports, fresh>>
    BY <1>3 DEF gpib, module
  <1>4. QED
    BY <1>1, <1>2, <1>3 DEF Write

\* A text for the CAL generator.
LEMMA WroteGenerator ==
    ASSUME Write, NEW value, Head(script) = Instrument("OUTP", value)
    PROVE  /\ UNCHANGED <<adapter, synth, bias, gate, yig, reports, fresh>>
           /\ \/ /\ whole' = whole
                 /\ generator' = IF SpeaksTo(8) THEN value ELSE generator
              \/ whole' = FALSE /\ generator' = generator
  <1>1. /\ Head(script).to = "instrument" /\ Head(script).item = "OUTP"
        /\ Head(script).value = value
    BY SMT DEF Instrument
  <1>2. CASE ToInstrument(Head(script)) /\ UNCHANGED <<whole, faults>>
    BY <1>1, <1>2 DEF ToInstrument, module
  <1>3. CASE whole' = FALSE /\ UNCHANGED <<gpib, module, reports, fresh>>
    BY <1>3 DEF gpib, module
  <1>4. QED
    BY <1>1, <1>2, <1>3 DEF Write

\* A text for the synthesizer.
LEMMA WroteSynth ==
    ASSUME Write, NEW value, Head(script) = Instrument("FR", value)
    PROVE  /\ UNCHANGED <<adapter, generator, bias, gate, yig, reports, fresh>>
           /\ \/ /\ whole' = whole
                 /\ synth' = IF SpeaksTo(7) THEN value ELSE synth
              \/ whole' = FALSE /\ synth' = synth
  <1>1. /\ Head(script).to = "instrument" /\ Head(script).item = "FR"
        /\ Head(script).value = value
    BY SMT DEF Instrument
  <1>2. CASE ToInstrument(Head(script)) /\ UNCHANGED <<whole, faults>>
    BY <1>1, <1>2 DEF ToInstrument, module
  <1>3. CASE whole' = FALSE /\ UNCHANGED <<gpib, module, reports, fresh>>
    BY <1>3 DEF gpib, module
  <1>4. QED
    BY <1>1, <1>2, <1>3 DEF Write

\* A frame on the bus.
LEMMA WroteCan ==
    ASSUME Write, NEW item, NEW value, Head(script) = Can(item, value)
    PROVE  /\ UNCHANGED <<adapter, generator, synth>>
           /\ \/ whole' = whole /\ ToCan(Can(item, value))
              \/ whole' = FALSE /\ UNCHANGED <<bias, gate, yig, reports, fresh>>
  <1>1. Head(script).to = "can"
    BY SMT DEF Can
  <1>2. CASE ToCan(Head(script)) /\ UNCHANGED <<whole, faults>>
    BY <1>2 DEF ToCan, gpib
  <1>3. CASE whole' = FALSE /\ UNCHANGED <<gpib, module, reports, fresh>>
    BY <1>3 DEF gpib, module
  <1>4. QED
    BY <1>1, <1>2, <1>3 DEF Write

\* A second of sleep.
LEMMA Slept ==
    ASSUME Write, Head(script) = Sleep
    PROVE  /\ UNCHANGED <<adapter, generator, synth, bias, gate, yig, reports, fresh>>
           /\ whole' = whole
  <1>1. Head(script).to = "none"
    BY SMT DEF Sleep
  <1>2. QED
    BY <1>1 DEF Write, gpib, module

\* The reports stay as true as they were, and as many.
ReportsStay ==
    /\ ReportsTrue' /\ fresh' \in BOOLEAN
    /\ reports' \in Seq([bias : Nat, new : BOOLEAN]) /\ Len(reports') = Len(reports)

\* What a frame that goes through does to the reports that wait.
LEMMA CanReports ==
    ASSUME NEW w, ToCan(w), TypeOK, ReportsTrue, VSET' = VSET
    PROVE  ReportsStay
  <1>1. /\ reports' = [i \in DOMAIN reports |->
                      [reports[i] EXCEPT !.new = @ /\ bias' = bias]]
        /\ fresh' = (fresh /\ bias' = bias)
    BY DEF ToCan
  <1>2. /\ reports \in Seq([bias : Nat, new : BOOLEAN]) /\ fresh \in BOOLEAN
        /\ fresh => VSET = bias
        /\ \A i \in DOMAIN reports : reports[i].new => reports[i].bias = bias
    BY DEF TypeOK, ReportsTrue, ReportsStay
  <1> DEFINE R == [bias : Nat, new : BOOLEAN]
  <1>3. reports \in Seq(R) /\ \A i \in DOMAIN reports : reports[i] \in R
    <2>1. reports \in Seq(R)
      BY <1>2
    <2> HIDE DEF R
    <2>2. QED
      BY <2>1, SMT
  <1>4. fresh' => VSET' = bias'
    BY <1>1, <1>2
  <1>5. DOMAIN reports' = DOMAIN reports
    BY <1>1
  <1>6. ASSUME NEW i \in DOMAIN reports', reports'[i].new
        PROVE  reports'[i].bias = bias'
    <2>1. reports[i] \in [bias : Nat, new : BOOLEAN]
      BY <1>3, <1>5, <1>6
    <2>2. reports'[i] = [reports[i] EXCEPT !.new = @ /\ bias' = bias]
      BY <1>1, <1>5, <1>6
    <2>3. reports'[i].new = (reports[i].new /\ bias' = bias)
      BY <2>1, <2>2, Zenon
    <2>4. reports'[i].bias = reports[i].bias
      BY <2>1, <2>2, SMT
    <2>5. reports[i].new /\ bias' = bias
      BY <1>6, <2>3, Zenon
    <2>6. QED
      BY <1>2, <1>5, <1>6, <2>4, <2>5, Zenon
  <1>7. ASSUME NEW i \in DOMAIN reports PROVE reports'[i] \in R
    <2>1. reports[i] \in R
      BY <1>3
    <2>2. reports'[i] = [reports[i] EXCEPT !.new = @ /\ bias' = bias]
      BY <1>1
    <2>3. reports[i].new \in BOOLEAN /\ reports[i].bias \in Nat
      BY <2>1, Zenon
    <2>4. (reports[i].new /\ bias' = bias) \in BOOLEAN
      BY Zenon
    <2>5. PICK b \in BOOLEAN : b = (reports[i].new /\ bias' = bias)
      BY <2>4, Zenon
    <2>6. reports'[i] = [reports[i] EXCEPT !.new = b]
      BY <2>2, <2>5, Zenon
    <2>7. QED
      BY <2>1, <2>6, SMT
  <1>8. reports' \in Seq(R) /\ Len(reports') = Len(reports)
    <2>1. DOMAIN reports = 1 .. Len(reports) /\ Len(reports) \in Nat
      <3> HIDE DEF R
      <3>1. QED
        BY <1>3, SMT
    <2>2. reports' \in [1 .. Len(reports) -> R]
      BY <1>1, <1>7, <2>1, Zenon
    <2> HIDE DEF R
    <2>3. QED
      BY <2>1, <2>2, SMT
  <1>9. fresh' \in BOOLEAN
    BY <1>1, <1>2, Zenon
  <1>10. ReportsTrue'
    BY <1>4, <1>6 DEF ReportsTrue
  <1>11. QED
    BY <1>8, <1>9, <1>10 DEF ReportsStay

\* The first of a few writes, and the rest.
LEMMA HeadTail ==
    ASSUME NEW a, NEW b, NEW c, NEW d
    PROVE  /\ Head(<<a>>) = a /\ Tail(<<a>>) = <<>>
           /\ Head(<<a, b>>) = a /\ Tail(<<a, b>>) = <<b>>
           /\ Head(<<a, b, c>>) = a /\ Tail(<<a, b, c>>) = <<b, c>>
           /\ Head(<<a, b, c, d>>) = a /\ Tail(<<a, b, c, d>>) = <<b, c, d>>
  BY SMT

-------------------------------------------------------------------------------
(* A write of each command *)

\* A write changes only what its command is about.
Changed ==
    /\ generator' = generator \/ (doing.cmd = "cal" /\ generator' = doing.state)
    /\ synth' = synth \/ (Plans(doing) /\ synth' = PlanOf(doing).freq)
    /\ \/ yig' = yig
       \/ Plans(doing) /\ yig' = <<PlanOf(doing).n, PlanOf(doing).freq>>
    /\ \/ gate' = gate
       \/ /\ doing.cmd = "setLNAgate"
          /\ gate' \in {[gate EXCEPT ![1] = doing.value],
                        [gate EXCEPT ![2] = doing.value]}
    /\ \/ bias' = bias
       \/ doing.cmd = "setbias" /\ bias' = doing.value
       \/ doing.cmd = "sweep" /\ bias' \in Biases
    /\ adapter' \in [addr : {7, 8}, mode : {7, 8}]
    /\ ReportsStay

\* The reports and VSET are as true as they were if the bias is.
LEMMA ReportsKept ==
    ASSUME TypeOK, ReportsTrue, UNCHANGED <<bias, reports, fresh, VSET>>
    PROVE  ReportsStay
  BY DEF TypeOK, ReportsTrue, ReportsStay

LEMMA WriteCal ==
    ASSUME Inv, Write, doing.cmd = "cal"
    PROVE  Left' /\ Changed
  <1> DEFINE outp == Instrument("OUTP", doing.state)
  <1>1. /\ doing # Idle /\ script # <<>> /\ script' = Tail(script)
        /\ doing' = doing /\ VSET' = VSET /\ TypeOK /\ ReportsTrue /\ CalLeft
        /\ adapter \in [addr : {7, 8}, mode : {7, 8}]
    BY WriteFrame DEF Inv, Left, TypeOK
  <1>2. SUFFICES CalLeft' /\ Changed
    BY <1>1 DEF Left, LbandLeft, GateLeft, BiasLeft, OtherLeft, Plans
  <1>3. CASE script = <<Adapter("addr", 8), Adapter("mode", 8), outp>>
    <2>1. Head(script) = Adapter("addr", 8) /\ script' = <<Adapter("mode", 8), outp>>
      BY <1>1, <1>3, HeadTail
    <2>2. /\ UNCHANGED <<generator, synth, bias, gate, yig, reports, fresh>>
          /\ \/ whole' = whole /\ adapter' = [adapter EXCEPT !["addr"] = 8]
             \/ whole' = FALSE /\ adapter' = adapter
      BY <2>1, WroteAdapter
    <2>3. adapter' \in [addr : {7, 8}, mode : {7, 8}] /\ (whole' => adapter'.addr = 8)
      BY <1>1, <2>2, SMT
    <2>4. CalLeft'
      BY <1>1, <2>1, <2>3 DEF CalLeft
    <2>5. QED
     <3>1. ReportsStay
       BY <1>1, <2>2, <2>3, <2>4, ReportsKept DEF Inv
     <3>2. QED
       BY <1>1, <2>2, <2>3, <2>4, <3>1 DEF Changed
  <1>4. CASE script = <<Adapter("mode", 8), outp>> /\ (whole => adapter.addr = 8)
    <2>1. Head(script) = Adapter("mode", 8) /\ script' = <<outp>>
      BY <1>1, <1>4, HeadTail
    <2>2. /\ UNCHANGED <<generator, synth, bias, gate, yig, reports, fresh>>
          /\ \/ whole' = whole /\ adapter' = [adapter EXCEPT !["mode"] = 8]
             \/ whole' = FALSE /\ adapter' = adapter
      BY <2>1, WroteAdapter
    <2>3. adapter' \in [addr : {7, 8}, mode : {7, 8}]
      BY <1>1, <2>2, SMT
    <2>4. whole' => adapter'.addr = 8 /\ adapter'.mode = 8
      <3>1. adapter' = [adapter EXCEPT !["mode"] = 8]
                => adapter'.addr = adapter.addr /\ adapter'.mode = 8
        BY <1>1, SMT
      <3>2. QED
        BY <1>4, <2>2, <3>1, Zenon
    <2>5. CalLeft'
      BY <1>1, <2>1, <2>4 DEF CalLeft, SpeaksTo
    <2>6. QED
     <3>1. ReportsStay
       BY <1>1, <2>2, <2>3, <2>5, ReportsKept DEF Inv
     <3>2. QED
       BY <1>1, <2>2, <2>3, <2>5, <3>1 DEF Changed
  <1>5. CASE script = <<outp>> /\ (whole => SpeaksTo(8))
    <2>1. Head(script) = outp /\ script' = <<>>
      BY <1>1, <1>5, HeadTail
    <2>2. /\ UNCHANGED <<adapter, synth, bias, gate, yig, reports, fresh>>
          /\ \/ /\ whole' = whole
                /\ generator' = IF SpeaksTo(8) THEN doing.state ELSE generator
             \/ whole' = FALSE /\ generator' = generator
      BY <2>1, WroteGenerator
    <2>3. CalLeft'
      BY <1>1, <1>5, <2>1, <2>2 DEF CalLeft
    <2>4. QED
     <3>1. ReportsStay
       BY <1>1, <2>2, <2>3, ReportsKept DEF Inv
     <3>2. QED
       BY <1>1, <2>2, <2>3, <3>1 DEF Changed
  <1>6. QED
    BY <1>1, <1>3, <1>4, <1>5 DEF CalLeft

LEMMA WriteLband ==
    ASSUME Inv, Write, Plans(doing)
    PROVE  Left' /\ Changed
  <1> DEFINE plan == PlanOf(doing)
             fr == Instrument("FR", plan.freq)
             yg == Can("yig", <<plan.n, plan.freq>>)
  <1>1. /\ doing # Idle /\ script # <<>> /\ script' = Tail(script)
        /\ doing' = doing /\ VSET' = VSET /\ TypeOK /\ ReportsTrue /\ LbandLeft
        /\ adapter \in [addr : {7, 8}, mode : {7, 8}]
        /\ doing.cmd \in {"setLband", "setfreq"}
    BY WriteFrame DEF Inv, Left, TypeOK, Plans
  <1>2. SUFFICES LbandLeft' /\ Changed
    BY <1>1 DEF Left, CalLeft, GateLeft, BiasLeft, OtherLeft, Plans
  <1>3. CASE script = <<Adapter("addr", 7), Adapter("mode", 7), fr, yg>>
    <2>1. Head(script) = Adapter("addr", 7) /\ script' = <<Adapter("mode", 7), fr, yg>>
      BY <1>1, <1>3, HeadTail
    <2>2. /\ UNCHANGED <<generator, synth, bias, gate, yig, reports, fresh>>
          /\ \/ whole' = whole /\ adapter' = [adapter EXCEPT !["addr"] = 7]
             \/ whole' = FALSE /\ adapter' = adapter
      BY <2>1, WroteAdapter
    <2>3. adapter' \in [addr : {7, 8}, mode : {7, 8}] /\ (whole' => adapter'.addr = 7)
      BY <1>1, <2>2, SMT
    <2>4. LbandLeft'
      BY <1>1, <2>1, <2>3 DEF LbandLeft
    <2>5. QED
     <3>1. ReportsStay
       BY <1>1, <2>2, <2>3, <2>4, ReportsKept DEF Inv
     <3>2. QED
       BY <1>1, <2>2, <2>3, <2>4, <3>1 DEF Changed
  <1>4. CASE script = <<Adapter("mode", 7), fr, yg>> /\ (whole => adapter.addr = 7)
    <2>1. Head(script) = Adapter("mode", 7) /\ script' = <<fr, yg>>
      BY <1>1, <1>4, HeadTail
    <2>2. /\ UNCHANGED <<generator, synth, bias, gate, yig, reports, fresh>>
          /\ \/ whole' = whole /\ adapter' = [adapter EXCEPT !["mode"] = 7]
             \/ whole' = FALSE /\ adapter' = adapter
      BY <2>1, WroteAdapter
    <2>3. adapter' \in [addr : {7, 8}, mode : {7, 8}]
      BY <1>1, <2>2, SMT
    <2>4. whole' => adapter'.addr = 7 /\ adapter'.mode = 7
      <3>1. adapter' = [adapter EXCEPT !["mode"] = 7]
                => adapter'.addr = adapter.addr /\ adapter'.mode = 7
        BY <1>1, SMT
      <3>2. QED
        BY <1>4, <2>2, <3>1, Zenon
    <2>5. LbandLeft'
      BY <1>1, <2>1, <2>4 DEF LbandLeft, SpeaksTo
    <2>6. QED
     <3>1. ReportsStay
       BY <1>1, <2>2, <2>3, <2>5, ReportsKept DEF Inv
     <3>2. QED
       BY <1>1, <2>2, <2>3, <2>5, <3>1 DEF Changed
  <1>5. CASE script = <<fr, yg>> /\ (whole => SpeaksTo(7))
    <2>1. Head(script) = fr /\ script' = <<yg>>
      BY <1>1, <1>5, HeadTail
    <2>2. /\ UNCHANGED <<adapter, generator, bias, gate, yig, reports, fresh>>
          /\ \/ /\ whole' = whole
                /\ synth' = IF SpeaksTo(7) THEN plan.freq ELSE synth
             \/ whole' = FALSE /\ synth' = synth
      BY <2>1, WroteSynth
    <2>3. LbandLeft'
      BY <1>1, <1>5, <2>1, <2>2 DEF LbandLeft
    <2>4. QED
     <3>1. ReportsStay
       BY <1>1, <2>2, <2>3, ReportsKept DEF Inv
     <3>2. QED
       BY <1>1, <2>2, <2>3, <3>1 DEF Changed
  <1>6. CASE script = <<yg>> /\ (whole => synth = plan.freq)
    <2>1. Head(script) = yg /\ script' = <<>>
      BY <1>1, <1>6, HeadTail
    <2>2. /\ UNCHANGED <<adapter, generator, synth>>
          /\ \/ whole' = whole /\ ToCan(yg)
             \/ whole' = FALSE /\ UNCHANGED <<bias, gate, yig, reports, fresh>>
      BY <2>1, WroteCan
    <2>3. yg.item = "yig" /\ yg.value = <<plan.n, plan.freq>>
      BY SMT DEF Can
    <2>4. ToCan(yg) => yig' = <<plan.n, plan.freq>> /\ bias' = bias /\ gate' = gate
      BY <2>3 DEF ToCan
    <2>5. LbandLeft'
      BY <1>1, <1>6, <2>1, <2>2, <2>4 DEF LbandLeft
    <2>6. CASE ToCan(yg)
     <3>1. ReportsStay
       BY <1>1, <2>2, <2>4, <2>5, <2>6, CanReports DEF Inv
     <3>2. QED
       BY <1>1, <2>2, <2>4, <2>5, <2>6, <3>1 DEF Changed
    <2>7. CASE UNCHANGED <<bias, gate, yig, reports, fresh>>
     <3>1. ReportsStay
       BY <1>1, <2>2, <2>5, <2>7, ReportsKept DEF Inv
     <3>2. QED
       BY <1>1, <2>2, <2>5, <2>7, <3>1 DEF Changed
    <2>8. QED
      BY <2>2, <2>6, <2>7
  <1>7. QED
    BY <1>1, <1>3, <1>4, <1>5, <1>6 DEF LbandLeft

LEMMA WriteGate ==
    ASSUME Inv, Write, doing.cmd = "setLNAgate"
    PROVE  Left' /\ Changed
  <1> DEFINE first == Can("gate1", doing.value)
             second == Can("gate2", doing.value)
  <1>1. /\ doing # Idle /\ script # <<>> /\ script' = Tail(script)
        /\ doing' = doing /\ VSET' = VSET /\ TypeOK /\ ReportsTrue /\ GateLeft
        /\ adapter \in [addr : {7, 8}, mode : {7, 8}] /\ gate \in Nat \X Nat
    BY WriteFrame DEF Inv, Left, TypeOK
  <1>2. SUFFICES GateLeft' /\ Changed
    BY <1>1 DEF Left, LbandLeft, CalLeft, BiasLeft, OtherLeft, Plans
  <1>3. /\ first.item = "gate1" /\ first.value = doing.value
        /\ second.item = "gate2" /\ second.value = doing.value
    BY SMT DEF Can
  <1>4. CASE script = <<first, second>>
    <2>1. Head(script) = first /\ script' = <<second>>
      BY <1>1, <1>4, HeadTail
    <2>2. /\ UNCHANGED <<adapter, generator, synth>>
          /\ \/ whole' = whole /\ ToCan(first)
             \/ whole' = FALSE /\ UNCHANGED <<bias, gate, yig, reports, fresh>>
      BY <2>1, WroteCan
    <2>3. ToCan(first) => /\ gate' = [gate EXCEPT ![1] = doing.value]
                          /\ bias' = bias /\ yig' = yig
      BY <1>3 DEF ToCan
    <2>4. ToCan(first) => gate'[1] = doing.value
      BY <1>1, <2>3, SMT
    <2>5. GateLeft'
      BY <1>1, <2>1, <2>2, <2>4 DEF GateLeft
    <2>6. CASE ToCan(first)
     <3>1. ReportsStay
       BY <1>1, <2>2, <2>3, <2>5, <2>6, CanReports DEF Inv
     <3>2. QED
       BY <1>1, <2>2, <2>3, <2>5, <2>6, <3>1 DEF Changed
    <2>7. CASE UNCHANGED <<bias, gate, yig, reports, fresh>>
     <3>1. ReportsStay
       BY <1>1, <2>2, <2>5, <2>7, ReportsKept DEF Inv
     <3>2. QED
       BY <1>1, <2>2, <2>5, <2>7, <3>1 DEF Changed
    <2>8. QED
      BY <2>2, <2>6, <2>7
  <1>5. CASE script = <<second>> /\ (whole => gate[1] = doing.value)
    <2>1. Head(script) = second /\ script' = <<>>
      BY <1>1, <1>5, HeadTail
    <2>2. /\ UNCHANGED <<adapter, generator, synth>>
          /\ \/ whole' = whole /\ ToCan(second)
             \/ whole' = FALSE /\ UNCHANGED <<bias, gate, yig, reports, fresh>>
      BY <2>1, WroteCan
    <2>3. ToCan(second) => /\ gate' = [gate EXCEPT ![2] = doing.value]
                           /\ bias' = bias /\ yig' = yig
      BY <1>3 DEF ToCan
    <2>4. ToCan(second) => gate'[1] = gate[1] /\ gate'[2] = doing.value
      BY <1>1, <2>3, SMT
    <2>5. GateLeft'
      BY <1>1, <1>5, <2>1, <2>2, <2>4 DEF GateLeft
    <2>6. CASE ToCan(second)
     <3>1. ReportsStay
       BY <1>1, <2>2, <2>3, <2>5, <2>6, CanReports DEF Inv
     <3>2. QED
       BY <1>1, <2>2, <2>3, <2>5, <2>6, <3>1 DEF Changed
    <2>7. CASE UNCHANGED <<bias, gate, yig, reports, fresh>>
     <3>1. ReportsStay
       BY <1>1, <2>2, <2>5, <2>7, ReportsKept DEF Inv
     <3>2. QED
       BY <1>1, <2>2, <2>5, <2>7, <3>1 DEF Changed
    <2>8. QED
      BY <2>2, <2>6, <2>7
  <1>6. QED
    BY <1>1, <1>4, <1>5 DEF GateLeft

LEMMA WriteBias ==
    ASSUME Inv, Write, doing.cmd = "setbias"
    PROVE  Left' /\ Changed
  <1> DEFINE set == Can("bias", doing.value)
  <1>1. /\ doing # Idle /\ script # <<>> /\ script' = Tail(script)
        /\ doing' = doing /\ VSET' = VSET /\ TypeOK /\ ReportsTrue /\ BiasLeft
        /\ asked' = asked /\ behind' = behind
        /\ adapter \in [addr : {7, 8}, mode : {7, 8}]
    BY WriteFrame DEF Inv, Left, TypeOK
  <1>2. SUFFICES BiasLeft' /\ Changed
    BY <1>1 DEF Left, LbandLeft, CalLeft, GateLeft, OtherLeft, Plans
  <1>3. asked = doing.value
    BY <1>1 DEF BiasLeft
  <1>4. CASE script = <<set, Sleep>>
    <2>1. Head(script) = set /\ script' = <<Sleep>>
      BY <1>1, <1>4, HeadTail
    <2>2. /\ UNCHANGED <<adapter, generator, synth>>
          /\ \/ whole' = whole /\ ToCan(set)
             \/ whole' = FALSE /\ UNCHANGED <<bias, gate, yig, reports, fresh>>
      BY <2>1, WroteCan
    <2>3. set.item = "bias" /\ set.value = doing.value
      BY SMT DEF Can
    <2>4. ToCan(set) => bias' = doing.value /\ gate' = gate /\ yig' = yig
      BY <2>3 DEF ToCan
    <2>5. BiasLeft'
      BY <1>1, <1>3, <2>1, <2>2, <2>4 DEF BiasLeft
    <2>6. CASE ToCan(set)
     <3>1. ReportsStay
       BY <1>1, <2>2, <2>4, <2>5, <2>6, CanReports DEF Inv
     <3>2. QED
       BY <1>1, <2>2, <2>4, <2>5, <2>6, <3>1 DEF Changed
    <2>7. CASE UNCHANGED <<bias, gate, yig, reports, fresh>>
     <3>1. ReportsStay
       BY <1>1, <2>2, <2>5, <2>7, ReportsKept DEF Inv
     <3>2. QED
       BY <1>1, <2>2, <2>5, <2>7, <3>1 DEF Changed
    <2>8. QED
      BY <2>2, <2>6, <2>7
  <1>5. CASE script = <<Sleep>> /\ (whole /\ ~ behind => bias = asked)
    <2>1. Head(script) = Sleep /\ script' = <<>>
      BY <1>1, <1>5, HeadTail
    <2>2. /\ UNCHANGED <<adapter, generator, synth, bias, gate, yig, reports, fresh>>
          /\ whole' = whole
      BY <2>1, Slept
    <2>3. BiasLeft'
      BY <1>1, <1>3, <1>5, <2>1, <2>2 DEF BiasLeft
    <2>4. QED
     <3>1. ReportsStay
       BY <1>1, <2>2, <2>3, ReportsKept DEF Inv
     <3>2. QED
       BY <1>1, <2>2, <2>3, <3>1 DEF Changed
  <1>6. QED
    BY <1>1, <1>4, <1>5 DEF BiasLeft

LEMMA WriteSweep ==
    ASSUME Inv, Write, doing.cmd = "sweep"
    PROVE  Left' /\ Changed
  <1> DEFINE sweep == Can("sweep", 1)
  <1>1. /\ doing # Idle /\ script # <<>> /\ script' = Tail(script)
        /\ doing' = doing /\ VSET' = VSET /\ TypeOK /\ ReportsTrue
        /\ asked' = asked /\ asked = None /\ script = <<sweep>>
        /\ adapter \in [addr : {7, 8}, mode : {7, 8}]
    BY WriteFrame DEF Inv, Left, TypeOK, OtherLeft
  <1>2. Head(script) = sweep /\ script' = <<>>
    BY <1>1, HeadTail
  <1>3. Left'
    BY <1>1, <1>2 DEF Left, LbandLeft, CalLeft, GateLeft, BiasLeft, OtherLeft, Plans
  <1>4. /\ UNCHANGED <<adapter, generator, synth>>
        /\ \/ whole' = whole /\ ToCan(sweep)
           \/ whole' = FALSE /\ UNCHANGED <<bias, gate, yig, reports, fresh>>
    BY <1>2, WroteCan
  <1>5. sweep.item = "sweep"
    BY SMT DEF Can
  <1>6. ToCan(sweep) => bias' \in Biases /\ gate' = gate /\ yig' = yig
    BY <1>5 DEF ToCan
  <1>7. CASE ToCan(sweep)
   <2>1. ReportsStay
     BY <1>1, <1>3, <1>4, <1>6, <1>7, CanReports DEF Inv
   <2>2. QED
     BY <1>1, <1>3, <1>4, <1>6, <1>7, <2>1 DEF Changed
  <1>8. CASE UNCHANGED <<bias, gate, yig, reports, fresh>>
   <2>1. ReportsStay
     BY <1>1, <1>3, <1>4, <1>8, ReportsKept DEF Inv
   <2>2. QED
     BY <1>1, <1>3, <1>4, <1>8, <2>1 DEF Changed
  <1>9. QED
    BY <1>4, <1>7, <1>8

-------------------------------------------------------------------------------
(* The steps *)

\* What the constants are.
LEMMA Bounds ==
    /\ Biases \subseteq Nat /\ None \notin Nat
    /\ MaxPending \in Nat /\ MaxReports \in Nat
    /\ MaxFaults \in Nat /\ MaxCommands \in Nat
  BY ReceiverAssumption, SMT

\* No handler has more than four things to write, after any step.
LEMMA ScriptShort ==
    ASSUME Left', doing' \in Command \cup {Idle}
    PROVE  Len(script') <= 4
  <1>1. \A a, b, c, d : /\ Len(<<>>) <= 4 /\ Len(<<a>>) <= 4 /\ Len(<<a, b>>) <= 4
                        /\ Len(<<a, b, c>>) <= 4 /\ Len(<<a, b, c, d>>) <= 4
    BY SMT
  <1>2. CASE doing'.cmd = "cal"
    BY <1>1, <1>2, Zenon DEF Left, CalLeft
  <1>3. CASE Plans(doing')
    BY <1>1, <1>3, Zenon DEF Left, LbandLeft
  <1>4. CASE doing'.cmd = "setLNAgate"
    BY <1>1, <1>4, Zenon DEF Left, GateLeft
  <1>5. CASE doing'.cmd = "setbias"
    BY <1>1, <1>5, Zenon DEF Left, BiasLeft
  <1>6. CASE doing'.cmd = "sweep"
    <2>1. script' = <<Can("sweep", 1)>> \/ script' = <<>>
      BY <1>6, Zenon DEF Left, OtherLeft
    <2>2. QED
      BY <1>1, <2>1, Zenon
  <1>7. CASE doing' = Idle \/ (doing'.cmd = "setfreq" /\ ~ InTable(doing'.freq))
    BY <1>1, <1>7, Zenon DEF Left, OtherLeft
  <1>8. doing' # Idle => doing'.cmd \in {"cal", "setLband", "setfreq", "setbias",
                                         "setLNAgate", "sweep"}
    BY CommandFields
  <1>9. QED
    BY <1>2, <1>3, <1>4, <1>5, <1>6, <1>7, <1>8 DEF Plans

LEMMA WriteStep ==
    ASSUME Inv, Write
    PROVE  Inv'
  <1>1. /\ TypeOK /\ Kept /\ Left /\ doing \in Command
        /\ doing # Idle /\ script # <<>> /\ script' = Tail(script)
        /\ UNCHANGED <<pending, doing, server, VSET, listening, tunemrid,
                       done, asked, behind, commands>>
        /\ \/ UNCHANGED <<whole, faults>>
           \/ whole' = FALSE /\ faults' = faults + 1 /\ faults < MaxFaults
    BY WriteFrame DEF Inv, TypeOK
  <1>2. Left' /\ Changed
    <2>1. doing.cmd = "setfreq" => InTable(doing.freq)
      BY <1>1 DEF Left, OtherLeft
    <2>2. \/ doing.cmd \in {"cal", "setbias", "setLNAgate", "sweep"}
          \/ Plans(doing)
      BY <1>1, <2>1, CommandFields DEF Plans
    <2>3. QED
      BY <2>2, WriteCal, WriteLband, WriteGate, WriteBias, WriteSweep
  <1>3. TypeOK'
    <2>1. generator' \in {0, 1}
      <3>1. doing.cmd = "cal" => doing.state \in {0, 1}
        BY <1>1, CommandFields
      <3>2. QED
        BY <1>1, <1>2, <3>1, Zenon DEF Changed, TypeOK
    <2>2. synth' \in Nat /\ yig' \in {0, 8, 9} \X Nat
      <3>1. Plans(doing) => PlanOf(doing).n \in {0, 8, 9} /\ PlanOf(doing).freq \in Nat
        BY <1>1, PlanOfTypes
      <3>2. synth \in Nat /\ yig \in {0, 8, 9} \X Nat
        BY <1>1 DEF TypeOK
      <3>3. QED
        BY <1>2, <3>1, <3>2 DEF Changed
    <2>3. gate' \in Nat \X Nat
      <3>1. gate \in Nat \X Nat
        BY <1>1 DEF TypeOK
      <3>2. doing.cmd = "setLNAgate" => doing.value \in Nat
        BY <1>1, CommandFields
      <3>3. \A v \in Nat : [gate EXCEPT ![1] = v] \in Nat \X Nat
                               /\ [gate EXCEPT ![2] = v] \in Nat \X Nat
        BY <3>1, SMT
      <3>4. QED
        BY <1>2, <3>1, <3>2, <3>3, Zenon DEF Changed
    <2>4. bias' \in Nat
      <3>1. bias \in Nat /\ (doing.cmd = "setbias" => doing.value \in Nat)
        BY <1>1, CommandFields DEF TypeOK
      <3>2. Biases \subseteq Nat
        BY Bounds
      <3>3. QED
        BY <1>2, <3>1, <3>2, Zenon DEF Changed
    <2>5. Len(script') <= 4
      <3>1. doing' \in Command \cup {Idle}
        BY <1>1
      <3>2. QED
        BY <1>2, <3>1, ScriptShort
    <2>6. whole' \in BOOLEAN
      BY <1>1, Zenon DEF TypeOK
    <2>7. faults' \in 0 .. MaxFaults
      <3>1. faults \in 0 .. MaxFaults
        BY <1>1 DEF TypeOK
      <3>2. QED
        <4>1. faults' = faults \/ (faults' = faults + 1 /\ faults < MaxFaults)
          BY <1>1, Zenon
        <4>2. QED
          BY <3>1, <4>1, Bounds, SMT
    <2>8. /\ adapter' \in [addr : {7, 8}, mode : {7, 8}]
          /\ fresh' \in BOOLEAN
          /\ reports' \in Seq([bias : Nat, new : BOOLEAN]) /\ Len(reports') <= MaxReports
      BY <1>1, <1>2 DEF Changed, ReportsStay, TypeOK
    <2>9. QED
      BY <1>1, <2>1, <2>2, <2>3, <2>4, <2>5, <2>6, <2>7, <2>8, Zenon DEF TypeOK
  <1>4. Kept'
    <2>1. doing.cmd # "cal" => generator' = generator
      BY <1>2 DEF Changed
    <2>2. ~ Plans(doing) => synth' = synth /\ yig' = yig
      BY <1>2 DEF Changed
    <2>3. doing.cmd # "setLNAgate" => gate' = gate
      BY <1>2 DEF Changed
    <2>4. doing.cmd # "setbias" /\ asked # None => bias' = bias
      BY <1>1, <1>2 DEF Changed, Left, OtherLeft
    <2>5. QED
      BY <1>1, <2>1, <2>2, <2>3, <2>4 DEF Kept
  <1>5. QED
    BY <1>2, <1>3, <1>4 DEF Inv, Changed, ReportsStay

\* The lines that wait are commands, with one fewer.
LEMMA Removed ==
    ASSUME NEW q \in Seq(Command), NEW i \in DOMAIN q
    PROVE  /\ q[i] \in Command /\ RemoveAt(q, i) \in Seq(Command)
           /\ Len(RemoveAt(q, i)) <= Len(q)
  <1>1. \A S : \A r \in Seq(S) : \A j \in DOMAIN r :
            LET t == SubSeq(r, 1, j - 1) \o SubSeq(r, j + 1, Len(r)) IN
            r[j] \in S /\ t \in Seq(S) /\ Len(t) <= Len(r)
    BY SMT
  <1>2. QED
    BY <1>1, Zenon DEF RemoveAt

\* Two writes are one and one.
LEMMA Pair ==
    ASSUME NEW a, NEW b
    PROVE  <<a>> \o <<b>> = <<a, b>>
  <1> DEFINE s == <<a>> \o <<b>>
  <1>1. /\ <<a>> \in Seq({a, b}) /\ <<b>> \in Seq({a, b})
        /\ <<a, b>> \in Seq({a, b})
        /\ Len(<<a>>) = 1 /\ Len(<<b>>) = 1 /\ Len(<<a, b>>) = 2
    BY SMT
  <1>2. /\ s \in Seq({a, b}) /\ Len(s) = Len(<<a>>) + Len(<<b>>)
        /\ \A i \in 1 .. Len(<<a>>) + Len(<<b>>) :
               s[i] = IF i <= Len(<<a>>) THEN <<a>>[i] ELSE <<b>>[i - Len(<<a>>)]
    BY <1>1, ConcatProperties, Zenon
  <1> HIDE DEF s
  <1>3. Len(s) = Len(<<a, b>>) /\ \A i \in 1 .. Len(s) : s[i] = <<a, b>>[i]
    BY <1>1, <1>2, SMT
  <1>4. s = <<a, b>>
    BY <1>1, <1>2, <1>3, SeqEqual
  <1>5. QED
    BY <1>4 DEF s

LEMMA BeginStep ==
    ASSUME Inv, NEW i \in DOMAIN pending, Begin(i)
    PROVE  Inv'
  <1> DEFINE c == pending[i]
  <1>1. /\ doing = Idle /\ doing' = c /\ script' = Script(c) /\ whole' = TRUE
        /\ pending' = RemoveAt(pending, i)
        /\ c.cmd = "setbias" => asked' = c.value /\ behind' = ~ fresh
        /\ c.cmd # "setbias" => behind' = behind
        /\ c.cmd = "sweep" => asked' = None
        /\ c.cmd \notin {"setbias", "sweep"} => asked' = asked
        /\ UNCHANGED <<adapter, generator, synth, server, bias, gate, yig, reports,
                       VSET, listening, tunemrid, done, fresh, faults, commands>>
    BY DEF Begin, gpib, module, thread
  <1>2. /\ c \in Command /\ pending' \in Seq(Command) /\ Len(pending') <= Len(pending)
        /\ TypeOK /\ Kept /\ ReportsTrue
    <2>1. pending \in Seq(Command)
      BY DEF Inv, TypeOK
    <2>2. QED
      BY <1>1, <2>1, Removed DEF Inv
  <1> HIDE DEF c
  <1>3. /\ c.cmd \in {"cal", "setLband", "setfreq", "setbias", "setLNAgate", "sweep"}
        /\ c # Idle
        /\ c.cmd = "setbias" => c.value \in Nat
    BY <1>2, CommandFields
  <1>4. Left'
    <2>1. CalLeft'
      <3>1. c.cmd = "cal" => Script(c) = <<Adapter("addr", 8), Adapter("mode", 8),
                                           Instrument("OUTP", c.state)>>
        BY SMT DEF Script, CalScript
      <3>2. QED
        BY <1>1, <3>1, Zenon DEF CalLeft
    <2>2. LbandLeft'
      <3>1. Plans(c) => Script(c) = LbandScript(PlanOf(c))
        BY SMT DEF Plans, Script, PlanOf
      <3>2. QED
        BY <1>1, <3>1, Zenon DEF LbandLeft, LbandScript
    <2>3. GateLeft'
      <3>1. c.cmd = "setLNAgate" =>
                Script(c) = <<Can("gate1", c.value), Can("gate2", c.value)>>
        BY SMT DEF Script
      <3>2. QED
        BY <1>1, <3>1, Zenon DEF GateLeft
    <2>4. BiasLeft'
      <3> SUFFICES ASSUME c.cmd = "setbias" PROVE BiasLeft'
        BY <1>1, Zenon DEF BiasLeft
      <3>1. Script(c) = BiasScript(c.value)
        BY SMT DEF Script
      <3>2. CASE c.value # VSET
        <4>1. BiasScript(c.value) = <<Can("bias", c.value), Sleep>>
          <5>1. BiasScript(c.value) = <<Can("bias", c.value)>> \o <<Sleep>>
            BY <3>2, Zenon DEF BiasScript
          <5>2. QED
            BY <5>1, Pair, Zenon
        <4>2. QED
          BY <1>1, <3>1, <4>1, Zenon DEF BiasLeft
      <3>3. CASE c.value = VSET
        <4>1. BiasScript(c.value) = <<Sleep>>
          BY <3>3, SMT DEF BiasScript
        <4>2. ~ behind' => bias' = asked'
          BY <1>1, <1>2, <3>3, Zenon DEF ReportsTrue
        <4>3. QED
          BY <1>1, <3>1, <4>1, <4>2, Zenon DEF BiasLeft
      <3>4. QED
        BY <3>2, <3>3
    <2>5. OtherLeft'
      <3>1. /\ c.cmd = "sweep" => Script(c) = <<Can("sweep", 1)>>
            /\ c.cmd = "setfreq" /\ ~ InTable(c.freq) => Script(c) = <<>>
        BY SMT DEF Script
      <3>2. QED
        BY <1>1, <1>3, <3>1, Zenon DEF OtherLeft
    <2>6. QED
      BY <2>1, <2>2, <2>3, <2>4, <2>5 DEF Left
  <1>5. Kept'
    <2>1. doing.cmd = "none" /\ ~ Plans(doing)
      BY <1>1, SMT DEF Idle, Plans
    <2>2. /\ "cal" \in done' /\ doing'.cmd # "cal" => generator' = server'.calState
          /\ "setLband" \in done' => synth' = server'.plan.freq
                                        /\ yig' = <<server'.plan.n, synth'>>
          /\ "setLNAgate" \in done' => gate'[1] = gate'[2]
      BY <1>1, <1>2, <2>1, Zenon DEF Kept
    <2>3. ("setbias" \in done' /\ doing'.cmd # "setbias" /\ asked' # None /\ ~ behind')
              => bias' = asked'
      BY <1>1, <1>2, <2>1, Zenon DEF Kept
    <2>4. QED
      BY <2>2, <2>3, Zenon DEF Kept
  <1>6. ReportsTrue'
    BY <1>1, <1>2 DEF ReportsTrue
  <1>7. TypeOK'
    <2>1. Len(script') <= 4
      <3>1. doing' \in Command \cup {Idle}
        BY <1>1, <1>2
      <3>2. QED
        BY <1>4, <3>1, ScriptShort
    <2>2. asked' \in Nat \cup {None} /\ behind' \in BOOLEAN
      BY <1>1, <1>2, <1>3, Zenon DEF TypeOK
    <2>3. Len(pending') <= MaxPending
      <3>1. /\ Len(pending) \in Nat /\ Len(pending') \in Nat
            /\ Len(pending) <= MaxPending
        <4>1. pending \in Seq(Command) /\ Len(pending) <= MaxPending
          BY <1>2 DEF TypeOK
        <4>2. QED
          BY <1>2, <4>1, LenProperties, Zenon
      <3>2. QED
        BY <1>2, <3>1, Bounds, SMT
    <2>4. QED
      BY <1>1, <1>2, <2>1, <2>2, <2>3, Zenon DEF TypeOK
  <1>8. QED
    BY <1>4, <1>5, <1>6, <1>7 DEF Inv

LEMMA FinishStep ==
    ASSUME Inv, Finish
    PROVE  Inv'
  <1>1. /\ doing \in Command /\ script = <<>> /\ Record(doing)
        /\ doing' = Idle
        /\ done' = IF doing.cmd = "setfreq" /\ ~ InTable(doing.freq) THEN done
                   ELSE IF whole THEN done \cup {Kind(doing)}
                   ELSE done \ {Kind(doing)}
        /\ UNCHANGED <<pending, script, adapter, generator, synth, bias, gate, yig,
                       reports, VSET, listening, tunemrid, whole, asked, behind,
                       fresh, faults, commands>>
        /\ TypeOK /\ Left /\ Kept /\ ReportsTrue
    BY DEF Finish, Inv, TypeOK, gpib, module, thread
  <1>2. /\ doing.cmd \in {"cal", "setLband", "setfreq", "setbias", "setLNAgate", "sweep"}
        /\ doing.cmd = "cal" => doing.state \in {0, 1}
    BY <1>1, CommandFields
  <1>3. /\ doing'.cmd = "none" /\ ~ Plans(doing')
    BY <1>1, SMT DEF Idle, Plans
  <1>4. server \in [calState : {0, 1}, LOFreq : Nat, plan : Planning]
    BY <1>1 DEF TypeOK
  <1>5. /\ doing.cmd = "cal" => server' = [server EXCEPT !.calState = doing.state]
        /\ Plans(doing) => server' = [server EXCEPT !.plan = PlanOf(doing),
                                                    !.LOFreq = LOFreq(PlanOf(doing))]
        /\ doing.cmd # "cal" /\ ~ Plans(doing) => server' = server
    BY <1>1, Zenon DEF Record, Plans
  <1>6. Plans(doing) => /\ PlanOf(doing) \in Planning
                        /\ LOFreq(PlanOf(doing)) \in Nat
    <2> SUFFICES ASSUME Plans(doing)
                 PROVE  PlanOf(doing) \in Planning /\ LOFreq(PlanOf(doing)) \in Nat
      OBVIOUS
    <2>1. /\ PlanOf(doing) \in [band : 1 .. 3, n : {8, 9}, m : 8 .. 10, freq : Nat]
          /\ PlanOf(doing).freq >= 250000
      BY <1>1, PlanOfTypes
    <2>2. server.LOFreq \in Nat
      BY <1>4
    <2>3. LOFreq(PlanOf(doing)) \in Nat
      BY <2>1, <2>2, LOFreqType
    <2>4. PlanOf(doing) \in Planning
      BY <2>1, SMT DEF Planning
    <2>5. QED
      BY <2>3, <2>4
  <1>7. /\ server' \in [calState : {0, 1}, LOFreq : Nat, plan : Planning]
        /\ doing.cmd = "cal" => server'.calState = doing.state
                                  /\ server'.plan = server.plan
        /\ Plans(doing) => server'.plan = PlanOf(doing)
                             /\ server'.calState = server.calState
    <2> DEFINE R == [calState : {0, 1}, LOFreq : Nat, plan : Planning]
    <2>1. \A v \in {0, 1} : LET t == [server EXCEPT !.calState = v] IN
              t \in R /\ t.calState = v /\ t.plan = server.plan
      BY <1>4, SMT
    <2>2. \A q \in Planning, f \in Nat :
              LET t == [server EXCEPT !.plan = q, !.LOFreq = f] IN
              t \in R /\ t.plan = q /\ t.calState = server.calState
      <3>1. TAKE q \in Planning, f \in Nat
      <3>2. PICK u \in R : u = [server EXCEPT !.plan = q]
        <4>1. [server EXCEPT !.plan = q] \in R
          BY <1>4, SMT
        <4>2. QED
          BY <4>1
      <3>3. [u EXCEPT !.LOFreq = f] \in R
        BY SMT
      <3>4. [server EXCEPT !.plan = q, !.LOFreq = f] \in R
        BY <3>2, <3>3, Zenon
      <3>5. /\ [server EXCEPT !.plan = q, !.LOFreq = f].plan = q
            /\ [server EXCEPT !.plan = q, !.LOFreq = f].calState = server.calState
        BY <1>4, SMT
      <3>6. QED
        BY <3>4, <3>5, Zenon
    <2>3. CASE doing.cmd = "cal"
      BY <1>2, <1>5, <2>1, <2>3, Zenon DEF Plans
    <2>4. CASE Plans(doing)
      BY <1>5, <1>6, <2>2, <2>4, Zenon DEF Plans
    <2>5. CASE doing.cmd # "cal" /\ ~ Plans(doing)
      BY <1>4, <1>5, <2>5, Zenon
    <2>6. QED
      BY <2>3, <2>4, <2>5
  <1>8. /\ Kind(doing) \in {"cal", "setLband", "setbias", "setLNAgate", "sweep"}
        /\ Kind(doing) = "cal" <=> doing.cmd = "cal"
        /\ Kind(doing) = "setLband" <=> doing.cmd \in {"setLband", "setfreq"}
        /\ Kind(doing) = "setbias" <=> doing.cmd = "setbias"
        /\ Kind(doing) = "setLNAgate" <=> doing.cmd = "setLNAgate"
    BY <1>2, SMT DEF Kind
  <1>9. Left'
    BY <1>1, <1>3, Zenon DEF Left, CalLeft, LbandLeft, GateLeft, BiasLeft, OtherLeft, Idle
  <1>10. Kept'
    <2>1. "cal" \in done' => generator' = server'.calState
      <3>1. CASE doing.cmd = "cal"
        <4>1. whole => generator = doing.state
          BY <1>1, <3>1, Zenon DEF Left, CalLeft
        <4>2. "cal" \in done' => whole
          BY <1>1, <1>8, <3>1, Zenon
        <4>3. QED
          BY <1>1, <1>7, <3>1, <4>1, <4>2, Zenon
      <3>2. CASE doing.cmd # "cal"
        <4>1. "cal" \in done' => "cal" \in done
          BY <1>1, <1>8, <3>2, Zenon
        <4>2. server'.calState = server.calState
          BY <1>5, <1>7, <3>2, Zenon
        <4>3. QED
          BY <1>1, <3>2, <4>1, <4>2, Zenon DEF Kept
      <3>3. QED
        BY <3>1, <3>2
    <2>2. "setLband" \in done' => synth' = server'.plan.freq
                                    /\ yig' = <<server'.plan.n, synth'>>
      <3>1. CASE Plans(doing)
        <4>1. whole => synth = PlanOf(doing).freq
                         /\ yig = <<PlanOf(doing).n, PlanOf(doing).freq>>
          BY <1>1, <3>1, Zenon DEF Left, LbandLeft
        <4>2. "setLband" \in done' => whole
          BY <1>1, <1>8, <3>1, Zenon DEF Plans
        <4>3. QED
          BY <1>1, <1>7, <3>1, <4>1, <4>2, Zenon
      <3>2. CASE ~ Plans(doing)
        <4>1. "setLband" \in done' => "setLband" \in done
          BY <1>1, <1>8, <3>2, Zenon DEF Plans
        <4>2. server'.plan = server.plan
          BY <1>5, <1>7, <3>2, Zenon
        <4>3. QED
          BY <1>1, <3>2, <4>1, <4>2, Zenon DEF Kept
      <3>3. QED
        BY <3>1, <3>2
    <2>3. "setLNAgate" \in done' => gate'[1] = gate'[2]
      <3>1. CASE doing.cmd = "setLNAgate"
        <4>1. whole => gate[1] = gate[2]
          BY <1>1, <3>1, Zenon DEF Left, GateLeft
        <4>2. "setLNAgate" \in done' => whole
          BY <1>1, <1>8, <3>1, Zenon
        <4>3. QED
          BY <1>1, <4>1, <4>2, Zenon
      <3>2. CASE doing.cmd # "setLNAgate"
        <4>1. "setLNAgate" \in done' => "setLNAgate" \in done
          BY <1>1, <1>8, <3>2, Zenon
        <4>2. QED
          BY <1>1, <3>2, <4>1, Zenon DEF Kept
      <3>3. QED
        BY <3>1, <3>2
    <2>4. "setbias" \in done' /\ asked' # None /\ ~ behind' => bias' = asked'
      <3>1. CASE doing.cmd = "setbias"
        <4>1. whole /\ ~ behind => bias = asked
          BY <1>1, <3>1, Zenon DEF Left, BiasLeft
        <4>2. "setbias" \in done' => whole
          BY <1>1, <1>8, <3>1, Zenon
        <4>3. QED
          BY <1>1, <4>1, <4>2, Zenon
      <3>2. CASE doing.cmd # "setbias"
        <4>1. "setbias" \in done' => "setbias" \in done
          BY <1>1, <1>8, <3>2, Zenon
        <4>2. QED
          BY <1>1, <3>2, <4>1, Zenon DEF Kept
      <3>3. QED
        BY <3>1, <3>2
    <2>5. QED
      BY <2>1, <2>2, <2>3, <2>4, Zenon DEF Kept
  <1>11. ReportsTrue'
    BY <1>1 DEF ReportsTrue
  <1>12. TypeOK'
    <2>1. done' \subseteq {"cal", "setLband", "setbias", "setLNAgate", "sweep"}
      <3>1. done \subseteq {"cal", "setLband", "setbias", "setLNAgate", "sweep"}
        BY <1>1 DEF TypeOK
      <3>2. QED
        BY <1>1, <1>8, <3>1, Zenon
    <2>2. doing' \in Command \cup {Idle}
      BY <1>1
    <2>3. Len(script') <= 4
      BY <1>9, <2>2, ScriptShort
    <2>4. QED
      BY <1>1, <1>7, <2>1, <2>2, <2>3, Zenon DEF TypeOK
  <1>13. QED
    BY <1>9, <1>10, <1>11, <1>12 DEF Inv

\* The steps of the others, which leave the handler and what it changes alone.
LEMMA OtherSteps ==
    ASSUME Inv,
           \/ Report \/ TakeReport \/ ReadFails \/ Reset \/ Done
           \/ \E c \in Commands : Ask(c)
           \/ \E freq \in Tunings : DoFreq(freq)
    PROVE  Inv'
  <1>1. /\ TypeOK /\ Left /\ Kept /\ ReportsTrue
        /\ \A i \in DOMAIN reports : reports[i] \in [bias : Nat, new : BOOLEAN]
    <2> DEFINE R == [bias : Nat, new : BOOLEAN]
    <2>1. TypeOK /\ Left /\ Kept /\ ReportsTrue /\ reports \in Seq(R)
      BY DEF Inv, TypeOK
    <2> HIDE DEF R
    <2>2. \A i \in DOMAIN reports : reports[i] \in R
      BY <2>1, SMT
    <2>3. QED
      BY <2>1, <2>2 DEF R
  <1>2. /\ UNCHANGED <<doing, script, generator, synth, server, bias, gate, yig,
                       done, asked, behind>>
        /\ whole' => whole /\ adapter' = adapter
        /\ adapter' \in [addr : {7, 8}, mode : {7, 8}] /\ whole' \in BOOLEAN
    <2>1. adapter \in [addr : {7, 8}, mode : {7, 8}] /\ whole \in BOOLEAN
      BY <1>1 DEF TypeOK
    <2>2. CASE Report
      BY <2>1, <2>2 DEF Report, gpib, module, history
    <2>3. CASE TakeReport
      BY <2>1, <2>3 DEF TakeReport, gpib, module, history
    <2>4. CASE ReadFails
      BY <2>1, <2>4 DEF ReadFails, gpib, module, history
    <2>5. CASE Reset
      BY <2>5, Zenon DEF Reset, gpib, module, history
    <2>6. CASE Done
      BY <2>1, <2>6 DEF Done, gpib, module, history
    <2>7. CASE \E c \in Commands : Ask(c)
      BY <2>1, <2>7 DEF Ask, gpib, module, history
    <2>8. CASE \E freq \in Tunings : DoFreq(freq)
      BY <2>1, <2>8 DEF DoFreq, gpib, module, history
    <2>9. QED
      BY <2>2, <2>3, <2>4, <2>5, <2>6, <2>7, <2>8
  <1>3. Left'
    <2>1. CalLeft'
      BY <1>1, <1>2, Zenon DEF Left, CalLeft, SpeaksTo
    <2>2. LbandLeft'
      BY <1>1, <1>2, Zenon DEF Left, LbandLeft, SpeaksTo
    <2>3. GateLeft'
      BY <1>1, <1>2, Zenon DEF Left, GateLeft
    <2>4. BiasLeft'
      BY <1>1, <1>2, Zenon DEF Left, BiasLeft
    <2>5. OtherLeft'
      BY <1>1, <1>2, Zenon DEF Left, OtherLeft
    <2>6. QED
      BY <2>1, <2>2, <2>3, <2>4, <2>5 DEF Left
  <1>4. Kept'
    BY <1>1, <1>2, Zenon DEF Kept
  <1>5. CASE Report
    <2> DEFINE R == [bias : Nat, new : BOOLEAN]
               r == [bias |-> bias, new |-> TRUE]
    <2>1. /\ Len(reports) < MaxReports /\ reports' = Append(reports, r)
          /\ UNCHANGED <<pending, VSET, listening, tunemrid, fresh, faults, commands>>
      BY <1>5 DEF Report, thread
    <2>2. reports \in Seq(R) /\ r \in R /\ r.bias = bias
      BY <1>1, SMT DEF TypeOK
    <2> HIDE DEF R, r
    <2>3. /\ reports' \in Seq(R) /\ Len(reports') <= MaxReports
          /\ DOMAIN reports' = 1 .. Len(reports) + 1
          /\ \A i \in DOMAIN reports : reports'[i] = reports[i]
          /\ reports'[Len(reports) + 1] = r
          /\ \A i \in 1 .. Len(reports) + 1 : i \in DOMAIN reports \/ i = Len(reports) + 1
      BY <2>1, <2>2, Bounds, SMT
    <2>4. ReportsTrue'
      <3>1. (fresh => VSET = bias)'
        BY <1>1, <1>2, <2>1, Zenon DEF ReportsTrue
      <3>2. ASSUME NEW i \in DOMAIN reports', reports'[i].new PROVE reports'[i].bias = bias'
        <4>1. CASE i = Len(reports) + 1
          BY <1>2, <2>2, <2>3, <4>1, Zenon
        <4>2. CASE i \in DOMAIN reports
          BY <1>1, <1>2, <2>3, <3>2, <4>2, Zenon DEF ReportsTrue
        <4>3. QED
          BY <2>3, <4>1, <4>2, Zenon
      <3>3. QED
        BY <3>1, <3>2, Zenon DEF ReportsTrue
    <2>5. TypeOK'
      <3>1. reports' \in Seq([bias : Nat, new : BOOLEAN])
        BY <2>3 DEF R
      <3>2. QED
        BY <1>1, <1>2, <2>1, <2>3, <3>1, Zenon DEF TypeOK
    <2>6. QED
      BY <1>3, <1>4, <2>4, <2>5 DEF Inv
  <1>6. CASE TakeReport
    <2> DEFINE R == [bias : Nat, new : BOOLEAN]
    <2>1. /\ reports # <<>> /\ reports' = Tail(reports)
          /\ VSET' = Head(reports).bias /\ fresh' = Head(reports).new
          /\ UNCHANGED <<pending, listening, tunemrid, faults, commands>>
      BY <1>6 DEF TakeReport, history
    <2>2. reports \in Seq(R) /\ Len(reports) <= MaxReports
      BY <1>1 DEF TypeOK
    <2>3. Head(reports) = reports[1] /\ 1 \in DOMAIN reports
      <3> HIDE DEF R
      <3>1. QED
        BY <2>1, <2>2, SMT
    <2>4. /\ reports' \in Seq(R) /\ Len(reports') <= MaxReports
          /\ \A i \in DOMAIN reports' : i + 1 \in DOMAIN reports
                                          /\ reports'[i] = reports[i + 1]
      <3> HIDE DEF R
      <3>1. QED
        BY <2>1, <2>2, Bounds, SMT
    <2>5. reports[1].bias \in Nat /\ reports[1].new \in BOOLEAN
      BY <1>1, <2>3, Zenon
    <2>6. ReportsTrue'
      <3>1. (fresh => VSET = bias)'
        <4>1. fresh' = reports[1].new /\ VSET' = reports[1].bias /\ bias' = bias
          BY <1>2, <2>1, <2>3, Zenon
        <4>2. reports[1].new => reports[1].bias = bias
          BY <1>1, <2>3, Zenon DEF ReportsTrue
        <4>3. QED
          BY <4>1, <4>2, Zenon
      <3>2. ASSUME NEW i \in DOMAIN reports', reports'[i].new PROVE reports'[i].bias = bias'
        <4>1. i + 1 \in DOMAIN reports /\ reports'[i] = reports[i + 1] /\ bias' = bias
          BY <1>2, <2>4, Zenon
        <4>2. reports[i + 1].new => reports[i + 1].bias = bias
          BY <1>1, <4>1, Zenon DEF ReportsTrue
        <4>3. QED
          BY <3>2, <4>1, <4>2, Zenon
      <3>3. QED
        BY <3>1, <3>2, Zenon DEF ReportsTrue
    <2>7. TypeOK'
      BY <1>1, <1>2, <2>1, <2>3, <2>4, <2>5, Zenon DEF TypeOK
    <2>8. QED
      BY <1>3, <1>4, <2>6, <2>7 DEF Inv
  <1>7. CASE ReadFails \/ Reset
    <2>1. /\ UNCHANGED <<pending, reports, VSET, tunemrid, fresh, commands>>
          /\ listening' \in BOOLEAN /\ faults < MaxFaults /\ faults' = faults + 1
      BY <1>1, <1>7, Zenon DEF ReadFails, Reset, thread, history, TypeOK
    <2>2. faults' \in 0 .. MaxFaults
      <3>1. faults \in 0 .. MaxFaults
        BY <1>1 DEF TypeOK
      <3>2. QED
        BY <2>1, <3>1, Bounds, SMT
    <2>3. TypeOK'
      BY <1>1, <1>2, <2>1, <2>2, Zenon DEF TypeOK
    <2>4. ReportsTrue'
      BY <1>1, <1>2, <2>1, Zenon DEF ReportsTrue
    <2>5. QED
      BY <1>3, <1>4, <2>3, <2>4 DEF Inv
  <1>8. CASE Done
    <2>1. /\ UNCHANGED <<pending, reports, VSET, listening, fresh, faults, commands>>
          /\ tunemrid' = None
      BY <1>8, Zenon DEF Done, thread, history
    <2>2. TypeOK' /\ ReportsTrue'
      BY <1>1, <1>2, <2>1, Zenon DEF TypeOK, ReportsTrue
    <2>3. QED
      BY <1>3, <1>4, <2>2 DEF Inv
  <1>9. ASSUME NEW c \in Command, pending' = Append(pending, c),
               tunemrid' \in Tunings \cup {None},
               Len(pending) < MaxPending, commands < MaxCommands,
               commands' = commands + 1,
               UNCHANGED <<reports, VSET, listening, fresh, faults>>
        PROVE  Inv'
    <2>1. pending' \in Seq(Command) /\ Len(pending') <= MaxPending
      <3>1. pending \in Seq(Command)
        BY <1>1 DEF TypeOK
      <3>2. QED
        BY <1>9, <3>1, Bounds, SMT
    <2>2. commands' \in 0 .. MaxCommands
      <3>1. commands \in 0 .. MaxCommands
        BY <1>1 DEF TypeOK
      <3>2. QED
        BY <1>9, <3>1, Bounds, SMT
    <2>3. TypeOK' /\ ReportsTrue'
      BY <1>1, <1>2, <1>9, <2>1, <2>2, Zenon DEF TypeOK, ReportsTrue
    <2>4. QED
      BY <1>3, <1>4, <2>3 DEF Inv
  <1>10. CASE \E c \in Commands : Ask(c)
    <2>1. PICK c \in Commands : Ask(c)
      BY <1>10
    <2>2. c \in Command
      BY ReceiverAssumption, SMT
    <2>3. tunemrid \in Tunings \cup {None}
      BY <1>1 DEF TypeOK
    <2>4. QED
      BY <1>9, <2>1, <2>2, <2>3, Zenon DEF Ask, thread, history
  <1>11. CASE \E freq \in Tunings : DoFreq(freq)
    <2>1. PICK freq \in Tunings : DoFreq(freq)
      BY <1>11
    <2>2. [cmd |-> "setfreq", freq |-> freq] \in Command
      BY TuningsAreCommands
    <2>3. QED
      BY <1>9, <2>1, <2>2, Zenon DEF DoFreq, thread, history
  <1>12. QED
    BY <1>5, <1>6, <1>7, <1>8, <1>10, <1>11

-------------------------------------------------------------------------------
(* The theorems *)

LEMMA InitInv == Init => Inv
  <1> SUFFICES ASSUME Init PROVE Inv
    OBVIOUS
  <1>1. doing.cmd = "none" /\ doing = Idle /\ script = <<>> /\ done = {} /\ reports = <<>>
        /\ fresh = FALSE
    BY SMT DEF Init, Idle
  <1>2. Left /\ Kept
    BY <1>1, Zenon DEF Left, CalLeft, LbandLeft, GateLeft, BiasLeft, OtherLeft, Kept, Plans
  <1>3. ReportsTrue
    <2>1. DOMAIN reports = {}
      BY <1>1, SMT
    <2>2. QED
      BY <1>1, <2>1, Zenon DEF ReportsTrue
  <1>4. TypeOK
    <2>1. /\ pending \in Seq(Command) /\ Len(pending) <= MaxPending /\ Len(script) <= 4
          /\ reports \in Seq([bias : Nat, new : BOOLEAN]) /\ Len(reports) <= MaxReports
          /\ faults \in 0 .. MaxFaults /\ commands \in 0 .. MaxCommands
      BY <1>1, Bounds, SMT DEF Init
    <2>2. /\ adapter \in [addr : {7, 8}, mode : {7, 8}]
          /\ generator \in {0, 1} /\ synth \in Nat /\ yig \in {0, 8, 9} \X Nat
          /\ bias \in Nat /\ gate \in Nat \X Nat /\ VSET \in Nat
      BY Bounds, SMT DEF Init
    <2>3. server \in [calState : {0, 1}, LOFreq : Nat, plan : Planning]
      BY SMT DEF Init, Planning
    <2>4. /\ whole \in BOOLEAN /\ asked \in Nat \cup {None} /\ listening \in BOOLEAN
          /\ done \subseteq {"cal", "setLband", "setbias", "setLNAgate", "sweep"}
          /\ fresh \in BOOLEAN /\ behind \in BOOLEAN
          /\ tunemrid \in Tunings \cup {None} /\ doing \in Command \cup {Idle}
      BY Zenon DEF Init
    <2>5. QED
      BY <2>1, <2>2, <2>3, <2>4, Zenon DEF TypeOK
  <1>5. QED
    BY <1>2, <1>3, <1>4 DEF Inv

LEMMA NextInv == Inv /\ [Next]_vars => Inv'
  <1> SUFFICES ASSUME Inv, [Next]_vars PROVE Inv'
    OBVIOUS
  <1>1. CASE Write
    BY <1>1, WriteStep
  <1>2. CASE Finish
    BY <1>2, FinishStep
  <1>3. CASE \E i \in DOMAIN pending : Begin(i)
    BY <1>3, BeginStep
  <1>4. CASE \/ Report \/ TakeReport \/ ReadFails \/ Reset \/ Done
             \/ \E c \in Commands : Ask(c)
             \/ \E freq \in Tunings : DoFreq(freq)
    BY <1>4, OtherSteps
  <1>5. CASE UNCHANGED vars
    <2>1. UNCHANGED <<pending, doing, script, adapter, generator, synth, server, bias,
                      gate, yig, reports, VSET, listening, tunemrid, whole, done, asked,
                      behind, fresh, faults, commands>>
      BY <1>5 DEF vars, gpib, module, thread, history
    <2>2. TypeOK' /\ Kept' /\ ReportsTrue'
      <3>1. TypeOK'
        BY <2>1, ZenonT(60) DEF Inv, TypeOK
      <3>2. Kept'
        BY <2>1, Zenon DEF Inv, Kept
      <3>3. ReportsTrue'
        BY <2>1, Zenon DEF Inv, ReportsTrue
      <3>4. QED
        BY <3>1, <3>2, <3>3
    <2>3. Left'
      <3>1. CalLeft'
        BY <2>1, Zenon DEF Inv, Left, CalLeft, SpeaksTo
      <3>2. LbandLeft'
        BY <2>1, Zenon DEF Inv, Left, LbandLeft, SpeaksTo
      <3>3. GateLeft'
        BY <2>1, Zenon DEF Inv, Left, GateLeft
      <3>4. BiasLeft'
        BY <2>1, Zenon DEF Inv, Left, BiasLeft
      <3>5. OtherLeft'
        BY <2>1, Zenon DEF Inv, Left, OtherLeft
      <3>6. QED
        BY <3>1, <3>2, <3>3, <3>4, <3>5 DEF Left
    <2>4. QED
      BY <2>2, <2>3 DEF Inv
  <1>6. QED
    BY <1>1, <1>2, <1>3, <1>4, <1>5 DEF Next, Main

\* Between two commands the instruments are as the server record says, for each
\* of them whose last command wrote all it had to, whatever the commands before
\* did and the adapter was left at: what cal(), setLband() and setLNAgate() write.
THEOREM AlwaysInAgreement == Spec => []InstrumentsAgree
  <1>1. Inv => InstrumentsAgree
    <2>1. Idle.cmd = "none"
      BY SMT DEF Idle
    <2>2. QED
      BY <2>1, Zenon DEF Inv, Kept, InstrumentsAgree, Plans
  <1>2. QED
    BY <1>1, InitInv, NextInv, PTL DEF Spec

\* The bias module is where setbias said it sets it, if _server.VSET was from a
\* report made since its bias last changed, for any biases and any sweep.
THEOREM AlwaysFollows == Spec => []BiasFollows
  <1>1. Inv => BiasFollows
    <2>1. Idle.cmd = "none"
      BY SMT DEF Idle
    <2>2. QED
      BY <2>1, Zenon DEF Inv, Kept, BiasFollows
  <1>2. QED
    BY <1>1, InitInv, NextInv, PTL DEF Spec

-------------------------------------------------------------------------------
(* Least elements, and the lines of a byte stream                          *)

\* A set of natural numbers that is not empty has a least element.
LEMMA LeastOf ==
    ASSUME NEW S \in SUBSET Nat, S # {}
    PROVE  \E n \in S : \A m \in S : n <= m
  <1> DEFINE R == {ss \in Nat \X Nat : ss[1] < ss[2]}
  <1>1. IsWellFoundedOn(R, Nat)
    <2>1. R = OpToRel(<, Nat)
      BY Zenon DEF OpToRel
    <2> QED
      BY <2>1, NatLessThanWellFounded, Zenon
  <1>2. PICK n \in S : \A m \in S : ~ (<<m, n>> \in R)
    BY <1>1, WFMin, Zenon
  <1>3. ASSUME NEW m \in S PROVE n <= m
    <2>1. ~ (<<m, n>> \in R) /\ m \in Nat /\ n \in Nat
      BY <1>2
    <2> QED
      BY <2>1, SMT
  <1> QED
    BY <1>3

\* Min() of a set of natural numbers is its least element.
LEMMA MinOf ==
    ASSUME NEW S \in SUBSET Nat, S # {}
    PROVE  Min(S) \in S /\ \A m \in S : Min(S) <= m
  <1>1. \E n \in S : \A m \in S : n <= m
    BY LeastOf, Zenon
  <1> QED
    BY <1>1 DEF Min

\* f[i] is what the first i sequences of s are, one after the other.
Joins(f, s) ==
    f = [i \in 1 .. Len(s) |-> IF i = 1 THEN s[i] ELSE f[i - 1] \o s[i]]

\* The function that FlattenSeq() defines by recursion exists.
LEMMA JoinsExists ==
    ASSUME NEW B, NEW s \in Seq(Seq(B))
    PROVE  \E f \in [1 .. Len(s) -> Seq(B)] : Joins(f, s)
  <1> DEFINE N == Len(s)
             Upto(n) == \E f \in [1 .. n -> Seq(B)] :
                            \A i \in 1 .. n : f[i] = IF i = 1 THEN s[i] ELSE f[i - 1] \o s[i]
             Bad == {n \in 0 .. N : ~ Upto(n)}
  <1>1. N \in Nat /\ \A i \in 1 .. N : s[i] \in Seq(B)
    OBVIOUS
  <1>2. Bad = {}
    <2> SUFFICES ASSUME Bad # {} PROVE FALSE
      OBVIOUS
    <2>0. Bad \subseteq Nat
      BY <1>1
    <2>1. PICK n \in Bad : \A m \in Bad : n <= m
      BY <2>0, LeastOf, Zenon
    <2>2. n \in 0 .. N /\ ~ Upto(n)
      BY <2>1
    <2>3. Upto(0)
      <3> DEFINE f0 == [i \in 1 .. 0 |-> <<>>]
      <3>1. f0 \in [1 .. 0 -> Seq(B)] /\ \A i \in 1 .. 0 : FALSE
        OBVIOUS
      <3> QED
        BY <3>1
    <2>4. n # 0
      BY <2>2, <2>3, Zenon
    <2>41. n - 1 \in 0 .. N /\ ~ (n <= n - 1)
      <3> HIDE DEF Upto
      <3> QED
        BY <1>1, <2>2, <2>4
    <2>5. Upto(n - 1)
      <3> HIDE DEF Upto
      <3> QED
        BY <2>1, <2>41
    <2>6. PICK f \in [1 .. n - 1 -> Seq(B)] :
              \A i \in 1 .. n - 1 : f[i] = IF i = 1 THEN s[i] ELSE f[i - 1] \o s[i]
      BY <2>5
    <2> DEFINE e == IF n = 1 THEN s[1] ELSE f[n - 1] \o s[n]
               g == [i \in 1 .. n |-> IF i = n THEN e ELSE f[i]]
    <2>7. e \in Seq(B)
      <3>1. CASE n = 1
        BY <3>1, <1>1, <2>2
      <3>2. CASE n # 1
        <4>1. f[n - 1] \in Seq(B) /\ s[n] \in Seq(B)
          BY <3>2, <1>1, <2>2, <2>41
        <4> QED
          BY <3>2, <4>1
      <3> QED
        BY <3>1, <3>2
    <2>8. g \in [1 .. n -> Seq(B)]
      <3>1. ASSUME NEW i \in 1 .. n, i # n PROVE f[i] \in Seq(B)
        BY <3>1, <1>1, <2>2
      <3> HIDE DEF e
      <3> QED
        BY <2>7, <3>1
    <2>9. ASSUME NEW i \in 1 .. n
          PROVE  g[i] = IF i = 1 THEN s[i] ELSE g[i - 1] \o s[i]
      <3>1. CASE i = n /\ n = 1
        BY <3>1
      <3>2. CASE i = n /\ n # 1
        <4>1. g[i] = f[n - 1] \o s[n]
          BY <3>2
        <4>2. g[i - 1] = f[n - 1]
          BY <3>2, <2>2, <2>41, <1>1
        <4> QED
          BY <3>2, <4>1, <4>2
      <3>3. CASE i # n
        <4>1. i \in 1 .. n - 1 /\ g[i] = f[i]
          BY <3>3, <2>2, <1>1
        <4>2. i # 1 => g[i - 1] = f[i - 1]
          BY <4>1, <2>2, <1>1
        <4> QED
          BY <4>1, <4>2, <2>6
      <3> QED
        BY <3>1, <3>2, <3>3
    <2>10. Upto(n)
      <3> HIDE DEF g
      <3> QED
        BY <2>8, <2>9
    <2> QED
      BY <2>2, <2>10
  <1>3. Upto(N)
    <2> HIDE DEF Upto
    <2> QED
      BY <1>1, <1>2
  <1>4. PICK f \in [1 .. N -> Seq(B)] :
            \A i \in 1 .. N : f[i] = IF i = 1 THEN s[i] ELSE f[i - 1] \o s[i]
    BY <1>3
  <1>5. Joins(f, s)
    <2>1. f = [i \in 1 .. N |-> f[i]]
      OBVIOUS
    <2> QED
      BY <1>4, <2>1 DEF Joins
  <1> QED
    BY <1>5

Begins(s, t) == Len(s) <= Len(t) /\ \A i \in 1 .. Len(s) : s[i] = t[i]

\* What such functions say of the sequences they have in common is the same.
LEMMA JoinsAgree ==
    ASSUME NEW B, NEW s \in Seq(Seq(B)), NEW t \in Seq(Seq(B)), NEW f, NEW g,
           Joins(f, s), Joins(g, t), Begins(s, t), NEW j \in 1 .. Len(s)
    PROVE  f[j] = g[j]
  <1> DEFINE Bad == {i \in 1 .. Len(s) : f[i] # g[i]}
  <1>0. /\ Len(s) \in Nat /\ Len(t) \in Nat /\ Len(s) <= Len(t)
        /\ \A i \in 1 .. Len(s) : s[i] = t[i]
    BY DEF Begins
  <1>1. SUFFICES ASSUME Bad # {} PROVE FALSE
    OBVIOUS
  <1>11. Bad \subseteq Nat
    BY <1>0
  <1>2. PICK n \in Bad : \A m \in Bad : n <= m
    BY <1>1, <1>11, LeastOf, Zenon
  <1>3. n \in 1 .. Len(s) /\ n \in 1 .. Len(t) /\ f[n] # g[n] /\ s[n] = t[n]
    BY <1>0, <1>2
  <1>4. f[n] = IF n = 1 THEN s[n] ELSE f[n - 1] \o s[n]
    BY <1>3 DEF Joins
  <1>5. g[n] = IF n = 1 THEN t[n] ELSE g[n - 1] \o t[n]
    BY <1>3 DEF Joins
  <1>6. n # 1 => n - 1 \notin Bad /\ n - 1 \in 1 .. Len(s)
    BY <1>0, <1>2, <1>3
  <1>7. n # 1 => f[n - 1] = g[n - 1]
    BY <1>6
  <1> QED
    BY <1>3, <1>4, <1>5, <1>7

\* FlattenSeq() of a sequence that is not empty is the last of its joins.
LEMMA FlattenJoins ==
    ASSUME NEW B, NEW s \in Seq(Seq(B)), s # <<>>
    PROVE  \E f : Joins(f, s) /\ FlattenSeq(s) = f[Len(s)]
  <1>1. \E f : Joins(f, s)
    BY JoinsExists
  <1> DEFINE h == CHOOSE f : Joins(f, s)
  <1>2. Joins(h, s)
    BY <1>1
  <1>3. FlattenSeq(s) = h[Len(s)]
    <2>1. Len(s) # 0
      OBVIOUS
    <2> QED
      BY <2>1 DEF FlattenSeq, Joins
  <1> QED
    BY <1>2, <1>3

\* FlattenSeq() appends.
LEMMA FlattenAppend ==
    ASSUME NEW B, NEW s \in Seq(Seq(B)), NEW e \in Seq(B)
    PROVE  FlattenSeq(Append(s, e)) = (IF s = <<>> THEN <<>> ELSE FlattenSeq(s)) \o e
  <1> DEFINE t == Append(s, e)
             n == Len(s)
  <1>1. /\ t \in Seq(Seq(B)) /\ t # <<>> /\ Len(t) = n + 1 /\ t[n + 1] = e
        /\ n \in Nat /\ \A i \in 1 .. n : t[i] = s[i]
    <2>1. n \in Nat
      OBVIOUS
    <2> QED
      BY <2>1, AppendProperties
  <1> HIDE DEF t
  <1>2. PICK g : Joins(g, t) /\ FlattenSeq(t) = g[Len(t)]
    BY <1>1, FlattenJoins
  <1>3. g[n + 1] = IF n + 1 = 1 THEN e ELSE g[n] \o e
    <2>1. n + 1 \in 1 .. Len(t) /\ (n + 1) - 1 = n
      BY <1>1
    <2> QED
      BY <1>1, <1>2, <2>1 DEF Joins
  <1>4. CASE s = <<>>
    BY <1>1, <1>2, <1>3, <1>4 DEF t
  <1>5. CASE s # <<>>
    <2>1. PICK f : Joins(f, s) /\ FlattenSeq(s) = f[n]
      BY <1>5, FlattenJoins
    <2>11. Begins(s, t)
      BY <1>1 DEF Begins
    <2>3. n \in 1 .. n /\ n # 0
      BY <1>5, <1>1
    <2>2. f[n] = g[n]
      BY <1>2, <1>1, <2>1, <2>11, <2>3, JoinsAgree
    <2> QED
      <3>1. FlattenSeq(t) = g[n] \o e
        <4>1. n + 1 # 1
          BY <1>1, <2>3
        <4> QED
          BY <1>1, <1>2, <1>3, <4>1, Zenon
      <3> QED
        BY <1>5, <2>1, <2>2, <3>1 DEF t
  <1> QED
    BY <1>4, <1>5

LEMMA BytesEmpty == Bytes(<<>>) = <<>>
  <1>1. [i \in DOMAIN <<>> |-> Append(<<>>[i], LF)] = <<>>
    OBVIOUS
  <1>2. FlattenSeq(<<>>) = <<>>
    BY DEF FlattenSeq
  <1> QED
    BY <1>1, <1>2 DEF Bytes

\* One more line is one more line of bytes, and its LF.
LEMMA BytesAppend ==
    ASSUME NEW B, LF \in B, NEW s \in Seq(Seq(B)), NEW l \in Seq(B)
    PROVE  Bytes(Append(s, l)) = Bytes(s) \o Append(l, LF)
  <1> DEFINE S(q) == [i \in DOMAIN q |-> Append(q[i], LF)]
  <1>1. S(s) \in Seq(Seq(B)) /\ (S(s) = <<>> <=> s = <<>>)
    <2>1. \A i \in 1 .. Len(s) : Append(s[i], LF) \in Seq(B)
      <3> SUFFICES ASSUME NEW i \in 1 .. Len(s) PROVE Append(s[i], LF) \in Seq(B)
        OBVIOUS
      <3>1. s[i] \in Seq(B)
        OBVIOUS
      <3> QED
        BY <3>1
    <2>11. DOMAIN s = 1 .. Len(s) /\ Len(s) \in Nat
      OBVIOUS
    <2>2. S(s) \in Seq(Seq(B)) /\ Len(S(s)) = Len(s)
      BY <2>1, <2>11
    <2> HIDE DEF S
    <2> QED
      BY <2>2
  <1>2. Append(l, LF) \in Seq(B)
    OBVIOUS
  <1>3. S(Append(s, l)) = Append(S(s), Append(l, LF))
    OBVIOUS
  <1> HIDE DEF S
  <1>4. FlattenSeq(S(Append(s, l))) = (IF s = <<>> THEN <<>> ELSE FlattenSeq(S(s))) \o Append(l, LF)
    BY <1>1, <1>2, <1>3, FlattenAppend
  <1>5. s = <<>> => Bytes(s) = <<>>
    BY BytesEmpty
  <1> QED
    BY <1>4, <1>5 DEF Bytes, S

LEMMA BytesType ==
    ASSUME NEW B, LF \in B, NEW s \in Seq(Seq(B))
    PROVE  Bytes(s) \in Seq(B)
  <1> DEFINE To(n) == SubSeq(s, 1, n)
             Bad == {n \in 0 .. Len(s) : Bytes(To(n)) \notin Seq(B)}
  <1>0. Len(s) \in Nat
    OBVIOUS
  <1>1. Bad = {}
    <2> SUFFICES ASSUME Bad # {} PROVE FALSE
      OBVIOUS
    <2>0. Bad \subseteq Nat
      BY <1>0
    <2>1. PICK n \in Bad : \A m \in Bad : n <= m
      BY <2>0, LeastOf, Zenon
    <2>2. n \in 0 .. Len(s) /\ Bytes(To(n)) \notin Seq(B)
      BY <2>1
    <2>3. n # 0
      <3>1. To(0) = <<>>
        OBVIOUS
      <3> QED
        BY <2>2, <3>1, BytesEmpty, EmptySeq
    <2>4. n - 1 \in 0 .. Len(s) /\ n - 1 \notin Bad
      BY <1>0, <2>1, <2>2, <2>3
    <2>5. To(n) = Append(To(n - 1), s[n]) /\ To(n - 1) \in Seq(Seq(B)) /\ s[n] \in Seq(B)
      BY <1>0, <2>2, <2>3
    <2>6. Bytes(To(n - 1)) \in Seq(B) /\ Append(s[n], LF) \in Seq(B)
      BY <2>4, <2>5
    <2> HIDE DEF To
    <2>7. Bytes(To(n)) = Bytes(To(n - 1)) \o Append(s[n], LF)
      BY <2>5, BytesAppend
    <2> QED
      BY <2>2, <2>6, <2>7
  <1>2. Bytes(To(Len(s))) \in Seq(B)
    BY <1>0, <1>1
  <1>3. To(Len(s)) = s
    OBVIOUS
  <1> QED
    BY <1>2, <1>3

LEMMA Associative ==
    ASSUME NEW B
    PROVE  \A x, y, z \in Seq(B) : (x \o y) \o z = x \o (y \o z)
  <1> SUFFICES ASSUME NEW x \in Seq(B), NEW y \in Seq(B), NEW z \in Seq(B)
               PROVE  (x \o y) \o z = x \o (y \o z)
    OBVIOUS
  <1> QED
    BY ConcatAssociative

\* The bytes of some lines are those of the first and those of the others.
LEMMA BytesCons ==
    ASSUME NEW B, LF \in B, NEW s \in Seq(Seq(B)), s # <<>>
    PROVE  Bytes(s) = Append(s[1], LF) \o Bytes(Tail(s))
  <1> DEFINE All == Seq(B)
  <1>9. \A x, y, z \in All : (x \o y) \o z = x \o (y \o z)
    BY Associative, SMTT(30)
  <1> HIDE DEF All
  <1> DEFINE To(n) == SubSeq(s, 1, n)
             From(n) == SubSeq(s, 2, n)
             F == Append(s[1], LF)
             Bad == {n \in 1 .. Len(s) : Bytes(To(n)) # F \o Bytes(From(n))}
  <1>0. Len(s) \in Nat \ {0} /\ s[1] \in Seq(B) /\ F \in Seq(B)
    OBVIOUS
  <1>1. Bad = {}
    <2> SUFFICES ASSUME Bad # {} PROVE FALSE
      OBVIOUS
    <2>0. Bad \subseteq Nat
      <3> HIDE DEF To, From, F
      <3> QED
        BY <1>0
    <2>1. PICK n \in Bad : \A m \in Bad : n <= m
      BY <2>0, LeastOf, Zenon
    <2>2. n \in 1 .. Len(s) /\ Bytes(To(n)) # F \o Bytes(From(n))
      BY <2>1
    <2>3. n # 1
      <3>1. To(1) = Append(<<>>, s[1]) /\ From(1) = <<>> /\ <<>> \in Seq(Seq(B))
        <4>1. To(1) = Append(<<>>, s[1])
          <5>1. To(1) = <<s[1]>>
            <6>1. SubSeq(s, 1, 1) = SubSeq(s, 1, 0) \o <<s[1]>>
              BY <1>0, SubSeqRecursiveSecond
            <6>2. SubSeq(s, 1, 0) = <<>>
              BY SubSeqEmpty
            <6>3. <<>> \o <<s[1]>> = <<s[1]>>
              OBVIOUS
            <6> QED
              BY <6>1, <6>2, <6>3, Zenon
          <5>2. Append(<<>>, s[1]) = <<s[1]>>
            BY <1>0
          <5> QED
            BY <5>1, <5>2
        <4>2. From(1) = <<>> /\ <<>> \in Seq(Seq(B))
          BY <1>0
        <4> QED
          BY <4>1, <4>2
      <3>2. Bytes(To(1)) = <<>> \o F
        BY <3>1, <1>0, BytesAppend, BytesEmpty
      <3>3. Bytes(From(1)) = <<>>
        BY <3>1, BytesEmpty
      <3> HIDE DEF To, From, F
      <3> QED
        BY <2>2, <3>2, <3>3, <1>0
    <2>4. n - 1 \in 1 .. Len(s) /\ n - 1 \notin Bad
      <3>1. n - 1 \in 1 .. Len(s) /\ ~ (n <= n - 1)
        <4> HIDE DEF To, From, F
        <4> QED
          BY <1>0, <2>2, <2>3
      <3> HIDE DEF Bad
      <3> QED
        BY <2>1, <3>1
    <2>5. To(n) = Append(To(n - 1), s[n]) /\ To(n - 1) \in Seq(Seq(B)) /\ s[n] \in Seq(B)
      BY <1>0, <2>2, <2>3
    <2>6. From(n) = Append(From(n - 1), s[n]) /\ From(n - 1) \in Seq(Seq(B))
      BY <1>0, <2>2, <2>3
    <2> DEFINE E == Append(s[n], LF)
    <2>7. E \in Seq(B)
      BY <2>5
    <2>8. Bytes(To(n - 1)) = F \o Bytes(From(n - 1))
      BY <2>4
    <2> HIDE DEF To, From, F
    <2>9. Bytes(To(n)) = Bytes(To(n - 1)) \o E /\ Bytes(From(n)) = Bytes(From(n - 1)) \o E
      BY <2>5, <2>6, BytesAppend
    <2>10. Bytes(From(n - 1)) \in Seq(B)
      BY <2>6, BytesType
    <2> HIDE DEF E
    <2> DEFINE M == Bytes(From(n - 1))
    <2>12. M \in Seq(B) /\ F \in Seq(B)
      BY <1>0, <2>10
    <2> HIDE DEF M
    <2>13. (F \o M) \o E = F \o (M \o E)
      <3>1. M \in All /\ F \in All /\ E \in All
        BY <2>7, <2>12 DEF All
      <3> QED
        BY <3>1, <1>9, Zenon
    <2>11. (F \o Bytes(From(n - 1))) \o E = F \o (Bytes(From(n - 1)) \o E)
      BY <2>13 DEF M
    <2> QED
      BY <2>2, <2>8, <2>9, <2>11
  <1>2. Bytes(To(Len(s))) = F \o Bytes(From(Len(s)))
    <2>1. Len(s) \in 1 .. Len(s)
      BY <1>0
    <2> HIDE DEF To, From, F
    <2> QED
      BY <1>1, <2>1
  <1>3. To(Len(s)) = s /\ From(Len(s)) = Tail(s)
    BY <1>0
  <1> QED
    BY <1>2, <1>3

-------------------------------------------------------------------------------
(* readline() on one buffer                                                *)

LEMMA Constants ==
    /\ Cap \in Nat /\ Cap > 2 /\ LineLens \subseteq Nat /\ MaxLines \in Nat
    /\ LF # NUL /\ {LF, NUL, Junk} \cap (Clients \X (1 .. MaxLines)) = {}
  BY LineReaderAssumption DEF LineReaderAssumption

USE Constants

Buffer == [Idx -> Byte]

\* memcpy() replaces n bytes and leaves the others.
LEMMA CopyBuffer ==
    ASSUME NEW dst \in Buffer, NEW src, NEW at \in Nat, NEW n \in Nat, at + n <= Cap,
           \A i \in 1 .. n : src[i] \in Byte
    PROVE  /\ Copy(dst, at, src, n) \in Buffer
           /\ \A i \in Idx :
                Copy(dst, at, src, n)[i] =
                    IF i > at /\ i <= at + n THEN src[i - at] ELSE dst[i]
  <1> DEFINE A == SubSeq(dst, 1, at)
             M == SubSeq(src, 1, n)
             Z == SubSeq(dst, at + n + 1, Cap)
  <1>0. Cap \in Nat
    OBVIOUS
  <1>1. \A i \in 1 .. Cap : dst[i] \in Byte
    BY DEF Buffer, Idx
  <1>2. A \in Seq(Byte) /\ Len(A) = at /\ \A i \in 1 .. at : A[i] = dst[i]
    <2>1. \A i \in 1 .. at : dst[i] \in Byte
      BY <1>0, <1>1
    <2> HIDE DEF Buffer
    <2> QED
      BY <2>1, SubSeqProperties
  <1>3. M \in Seq(Byte) /\ Len(M) = n /\ \A i \in 1 .. n : M[i] = src[i]
    BY SubSeqProperties
  <1>4. /\ Z \in Seq(Byte) /\ Len(Z) = Cap - at - n
        /\ \A i \in 1 .. Cap - at - n : Z[i] = dst[at + n + i]
    <2>1. \A i \in at + n + 1 .. Cap : dst[i] \in Byte
      BY <1>0, <1>1
    <2>2. at + n + 1 \in Int /\ Cap \in Int
      BY <1>0
    <2>3. /\ Z \in Seq(Byte)
          /\ Len(Z) = IF at + n + 1 <= Cap THEN Cap - (at + n + 1) + 1 ELSE 0
          /\ \A i \in 1 .. Cap - (at + n + 1) + 1 : Z[i] = dst[at + n + 1 + i - 1]
      BY <2>1, <2>2, SubSeqProperties
    <2> HIDE DEF Z
    <2> QED
      BY <2>3, <1>0
  <1> HIDE DEF A, M, Z
  <1> DEFINE AM == A \o M
             C == AM \o Z
  <1>5. /\ AM \in Seq(Byte) /\ Len(AM) = at + n
        /\ \A i \in 1 .. at + n : AM[i] = IF i <= at THEN A[i] ELSE M[i - at]
    <2>1. A \in Seq(Byte) /\ M \in Seq(Byte)
      BY <1>2, <1>3
    <2>2. /\ AM \in Seq(Byte) /\ Len(AM) = Len(A) + Len(M)
          /\ \A i \in 1 .. Len(A) + Len(M) :
                AM[i] = IF i <= Len(A) THEN A[i] ELSE M[i - Len(A)]
      BY <2>1, ConcatProperties
    <2> HIDE DEF AM
    <2> QED
      BY <1>2, <1>3, <2>2
  <1> HIDE DEF AM
  <1>6. /\ C \in Seq(Byte) /\ Len(C) = Cap
        /\ \A i \in 1 .. Cap : C[i] = IF i <= at + n THEN AM[i] ELSE Z[i - (at + n)]
    <2>1. AM \in Seq(Byte) /\ Z \in Seq(Byte)
      BY <1>4, <1>5
    <2>2. /\ C \in Seq(Byte) /\ Len(C) = Len(AM) + Len(Z)
          /\ \A i \in 1 .. Len(AM) + Len(Z) :
                C[i] = IF i <= Len(AM) THEN AM[i] ELSE Z[i - Len(AM)]
      BY <2>1, ConcatProperties
    <2>3. Len(AM) + Len(Z) = Cap
      BY <1>0, <1>4, <1>5
    <2> HIDE DEF C
    <2> QED
      BY <1>5, <2>2, <2>3
  <1>7. Copy(dst, at, src, n) = C
    BY DEF Copy, A, M, Z, AM
  <1> HIDE DEF C
  <1>8. C \in Buffer
    BY <1>6, LenProperties DEF Buffer, Idx
  <1>9. ASSUME NEW i \in Idx
        PROVE  C[i] = IF i > at /\ i <= at + n THEN src[i - at] ELSE dst[i]
    <2>0. i \in 1 .. Cap
      BY DEF Idx
    <2>1. CASE i <= at
      <3>1. i <= at + n /\ i \in 1 .. at /\ i \in 1 .. at + n
        BY <1>0, <2>0, <2>1
      <3>2. C[i] = A[i]
        BY <2>0, <2>1, <3>1, <1>5, <1>6
      <3> QED
        BY <1>2, <2>1, <3>1, <3>2
    <2>2. CASE i > at /\ i <= at + n
      <3>1. i \in 1 .. at + n /\ i - at \in 1 .. n
        BY <1>0, <2>0, <2>2
      <3>2. C[i] = AM[i] /\ AM[i] = M[i - at]
        BY <2>0, <2>2, <3>1, <1>5, <1>6
      <3> QED
        BY <1>3, <2>2, <3>1, <3>2
    <2>3. CASE i > at + n
      <3>1. i - (at + n) \in 1 .. Cap - at - n /\ at + n + (i - (at + n)) = i
        BY <1>0, <2>0, <2>3
      <3> QED
        BY <1>0, <1>4, <1>6, <2>0, <2>3, <3>1
    <2>4. i <= at \/ (i > at /\ i <= at + n) \/ i > at + n
      BY <2>0
    <2> QED
      BY <2>1, <2>2, <2>3, <2>4
  <1> QED
    BY <1>7, <1>8, <1>9

LEMMA CopyFront ==
    ASSUME NEW dst \in Buffer, NEW src, NEW n \in Nat, n <= Cap,
           \A i \in 1 .. n : src[i] \in Byte
    PROVE  /\ Copy(dst, 0, src, n) \in Buffer
           /\ \A i \in Idx : Copy(dst, 0, src, n)[i] = IF i <= n THEN src[i] ELSE dst[i]
  <1>1. SUFFICES ASSUME NEW at \in Nat, at = 0
                 PROVE  /\ Copy(dst, at, src, n) \in Buffer
                        /\ \A i \in Idx :
                             Copy(dst, at, src, n)[i] = IF i <= n THEN src[i] ELSE dst[i]
    OBVIOUS
  <1>2. at + n <= Cap
    BY <1>1
  <1>3. /\ Copy(dst, at, src, n) \in Buffer
        /\ \A i \in Idx :
             Copy(dst, at, src, n)[i] =
                 IF i > at /\ i <= at + n THEN src[i - at] ELSE dst[i]
    BY <1>2, CopyBuffer
  <1>4. ASSUME NEW i \in Idx PROVE i > at /\ (i <= at + n <=> i <= n) /\ i - at = i
    BY <1>1 DEF Idx
  <1> QED
    BY <1>3, <1>4

\* strchr() finds the LF no NUL stands before.
LEMMA FirstLF ==
    ASSUME NEW buf \in Buffer, NEW m \in Idx, buf[m] = LF,
           \A i \in 1 .. m - 1 : buf[i] \notin {LF, NUL}
    PROVE  StrChrLF(buf) = m
  <1> DEFINE ends == {p \in Idx : buf[p] \in {LF, NUL}}
  <1>1. ends \subseteq Nat /\ m \in ends
    BY DEF Idx
  <1>2. Min(ends) \in ends /\ Min(ends) <= m
    BY <1>1, MinOf
  <1>3. Min(ends) = m
    <2>1. Min(ends) \in Idx /\ Min(ends) \notin 1 .. m - 1
      BY <1>2
    <2> HIDE DEF ends
    <2> QED
      BY <2>1, <1>2 DEF Idx
  <1>4. ends # {} /\ buf[Min(ends)] # NUL
    BY <1>1, <1>3
  <1> QED
    BY <1>3, <1>4 DEF StrChrLF

\* strchr() finds nothing behind a NUL.
LEMMA NoLF ==
    ASSUME NEW buf \in Buffer, NEW k \in Idx, buf[k] = NUL,
           \A i \in 1 .. k - 1 : buf[i] # LF
    PROVE  StrChrLF(buf) = 0
  <1> DEFINE ends == {p \in Idx : buf[p] \in {LF, NUL}}
  <1>1. ends \subseteq Nat /\ k \in ends
    BY DEF Idx
  <1>2. Min(ends) \in ends /\ Min(ends) <= k
    BY <1>1, MinOf
  <1>3. buf[Min(ends)] = NUL
    <2>1. Min(ends) \in Idx /\ buf[Min(ends)] \in {LF, NUL}
      BY <1>2
    <2> HIDE DEF ends
    <2>2. Min(ends) = k \/ Min(ends) \in 1 .. k - 1
      BY <2>1, <1>2 DEF Idx
    <2> QED
      BY <2>1, <2>2
  <1> QED
    BY <1>3 DEF StrChrLF

\* A C string ends at its first NUL.
LEMMA CStringEnds ==
    ASSUME NEW buf \in Buffer, NEW m \in Idx, buf[m] = NUL,
           \A i \in 1 .. m - 1 : buf[i] # NUL
    PROVE  CString(buf) = SubSeq(buf, 1, m - 1)
  <1> DEFINE ends == {p \in Idx : buf[p] = NUL} \cup {Cap + 1}
  <1>1. ends \subseteq Nat /\ m \in ends
    BY DEF Idx
  <1>2. Min(ends) \in ends /\ Min(ends) <= m
    BY <1>1, MinOf
  <1>3. Min(ends) = m
    <2>1. Min(ends) = Cap + 1 \/ (Min(ends) \in Idx /\ Min(ends) \notin 1 .. m - 1)
      BY <1>2
    <2> HIDE DEF ends
    <2> QED
      BY <2>1, <1>2 DEF Idx
  <1> QED
    BY <1>3 DEF CString

\* A partial line leaves linebuf empty.
LEMMA CStringZeroed == Zeroed \in Buffer /\ CString(Zeroed) = <<>>
  <1>1. Zeroed \in Buffer /\ 1 \in Idx /\ Zeroed[1] = NUL
    BY DEF Zeroed, Filled, Buffer, Idx, Byte
  <1>2. CString(Zeroed) = SubSeq(Zeroed, 1, 1 - 1)
    BY <1>1, CStringEnds
  <1> QED
    BY <1>1, <1>2, SubSeqEmpty

\* The line branch hands over what stands before the LF and moves what follows it
\* to the front.
LEMMA LineTaken ==
    ASSUME linebuf \in Buffer, NEW buf \in Buffer, NEW total \in Nat, total + total <= Cap,
           NEW m \in 1 .. total, \A i \in 1 .. m - 1 : buf[i] # NUL
    PROVE  /\ TakeLine(buf, total, m).line \in Buffer
           /\ TakeLine(buf, total, m).rest \in Buffer
           /\ CString(TakeLine(buf, total, m).line) = SubSeq(buf, 1, m - 1)
           /\ \A i \in 1 .. total - m : TakeLine(buf, total, m).rest[i] = buf[m + i]
  <1> DEFINE full == Copy(linebuf, 0, buf, total)
             line == [full EXCEPT ![m] = NUL]
             after == SubSeq(full, m + 1, Cap)
             rest == Copy(buf, 0, after, total - 1)
  <1>0. Cap \in Nat /\ m \in Idx /\ total - 1 \in Nat /\ NUL \in Byte
    BY DEF Idx, Byte
  <1>1. full \in Buffer /\ \A i \in Idx : full[i] = IF i <= total THEN buf[i] ELSE linebuf[i]
    <2>1. \A i \in 1 .. total : buf[i] \in Byte
      BY <1>0 DEF Buffer, Idx
    <2> QED
      BY <1>0, <2>1, CopyFront
  <1> HIDE DEF full
  <1>2. line \in Buffer /\ line[m] = NUL /\ \A i \in 1 .. m - 1 : line[i] = buf[i]
    <2>1. line \in Buffer /\ line[m] = NUL /\ \A i \in Idx : i # m => line[i] = full[i]
      BY <1>0, <1>1 DEF Buffer
    <2>2. ASSUME NEW i \in 1 .. m - 1 PROVE i \in Idx /\ i # m /\ i <= total
      BY <1>0 DEF Idx
    <2> HIDE DEF line
    <2> QED
      BY <1>1, <2>1, <2>2
  <1>3. /\ \A i \in 1 .. total - 1 : after[i] \in Byte
        /\ \A i \in 1 .. total - m : after[i] = buf[m + i]
    <2>1. \A i \in m + 1 .. Cap : full[i] \in Byte
      BY <1>0, <1>1 DEF Buffer, Idx
    <2>2. \A i \in 1 .. Cap - m : after[i] = full[m + i]
      <3>1. m + 1 \in Int /\ Cap \in Int
        BY <1>0
      <3>2. \A i \in 1 .. Cap - (m + 1) + 1 : after[i] = full[(m + 1) + i - 1]
        BY <2>1, <3>1, SubSeqProperties
      <3> HIDE DEF after
      <3> QED
        BY <3>2, <1>0
    <2> HIDE DEF after
    <2>3. ASSUME NEW i \in 1 .. total - 1 PROVE after[i] \in Byte
      <3>1. i \in 1 .. Cap - m /\ m + i \in m + 1 .. Cap
        BY <1>0
      <3> QED
        BY <2>1, <2>2, <3>1
    <2>4. ASSUME NEW i \in 1 .. total - m PROVE after[i] = buf[m + i]
      <3>1. i \in 1 .. Cap - m /\ m + i \in Idx /\ m + i <= total
        BY <1>0 DEF Idx
      <3> QED
        BY <1>1, <2>2, <3>1
    <2> QED
      BY <2>3, <2>4
  <1> HIDE DEF after
  <1>4. rest \in Buffer /\ \A i \in 1 .. total - m : rest[i] = buf[m + i]
    <2>1. total - 1 <= Cap
      BY <1>0
    <2>2. /\ rest \in Buffer
          /\ \A i \in Idx : rest[i] = IF i <= total - 1 THEN after[i] ELSE buf[i]
      BY <1>0, <1>3, <2>1, CopyFront
    <2> HIDE DEF rest
    <2>3. ASSUME NEW i \in 1 .. total - m PROVE rest[i] = buf[m + i]
      <3>1. i \in Idx /\ i <= total - 1
        BY <1>0 DEF Idx
      <3> QED
        BY <2>2, <3>1, <1>3
    <2> QED
      BY <2>2, <2>3
  <1>5. CString(line) = SubSeq(buf, 1, m - 1)
    <2> HIDE DEF line
    <2>1. CString(line) = SubSeq(line, 1, m - 1)
      <3>1. \A i \in 1 .. m - 1 : line[i] # NUL
        BY <1>2
      <3> QED
        BY <1>0, <1>2, <3>1, CStringEnds
    <2>2. SubSeq(line, 1, m - 1) = SubSeq(buf, 1, m - 1)
      BY <1>0, <1>2
    <2> QED
      BY <2>1, <2>2
  <1>6. TakeLine(buf, total, m).line = line /\ TakeLine(buf, total, m).rest = rest
    BY DEF TakeLine, full, after
  <1> HIDE DEF line, rest
  <1> QED
    BY <1>2, <1>4, <1>5, <1>6

-------------------------------------------------------------------------------
(* The invariant of the line reader                                        *)

\* The bytes on their way from client c to dispatch(), in their order, and the
\* lines that dispatch() has not had.
Pending(c) == SubSeq(readbuf[c], 1, readp[c]) \o wire[c]
Missing(c) == SubSeq(sent[c], Len(got[c]) + 1, Len(sent[c]))

\* What is pending is what is missing, byte for byte.
Flows(c) ==
    /\ Pending(c) = Bytes(Missing(c))
    /\ Bytes(got[c]) \o Pending(c) = Bytes(sent[c])

\* The lines of this session are made of characters of this client and line.
OwnLines(c) ==
    \A n \in 1 .. Len(sent[c]) :
        /\ Len(sent[c][n]) \in LineLens
        /\ \A i \in 1 .. Len(sent[c][n]) : sent[c][n][i] = <<c, before[c] + n>>

\* Up to its first line a connection has a clean buffer behind readp: no LF that
\* is not its own can end a line that has arrived in part.
SlotFine(c) ==
    /\ Len(wire[c]) + readp[c] <= Window
    /\ got[c] = <<>> => \A i \in Idx : i > readp[c] => readbuf[c][i] = NUL
    /\ before[c] + Len(sent[c]) <= MaxLines
    /\ OwnLines(c)
    /\ peer[c] = "closed" => wire[c] = <<>> /\ readp[c] = 0 /\ readbuf[c] = Zeroed
    /\ peer[c] # "closed" =>
         Begins(got[c], sent[c]) /\ (Flows(c) \/ (peer[c] = "fin" /\ wire[c] = <<>>))

ReaderInv == ReaderTypeOK /\ \A c \in Clients : SlotFine(c)

\* What a client's slot is depends on that client's part of the state.
LEMMA SlotUntouched ==
    ASSUME NEW c \in Clients, SlotFine(c), peer'[c] = peer[c], wire'[c] = wire[c],
           readbuf'[c] = readbuf[c], readp'[c] = readp[c], sent'[c] = sent[c],
           got'[c] = got[c], before'[c] = before[c]
    PROVE  SlotFine(c)'
  BY DEF SlotFine, OwnLines, Flows, Pending, Missing

LEMMA SlotTypes ==
    ASSUME ReaderInv, NEW c \in Clients
    PROVE  /\ peer[c] \in {"closed", "open", "fin", "rst"}
           /\ wire[c] \in Seq(Byte) /\ readbuf[c] \in Buffer /\ readp[c] \in 0 .. Cap
           /\ sent[c] \in Seq(Seq(Byte)) /\ got[c] \in Seq(Seq(Byte))
           /\ before[c] \in 0 .. MaxLines /\ SlotFine(c)
  BY DEF ReaderInv, ReaderTypeOK, Buffer

LEMMA WindowBound == Window \in Nat /\ Window + Window <= Cap /\ Cap \in Nat
  <1>1. Cap \in Nat /\ Window \in Int /\ 1 <= Window /\ Window <= Cap \div 2
    BY LineReaderAssumption DEF LineReaderAssumption
  <1> QED
    BY <1>1, SMT

LEMMA ByteFacts ==
    /\ LF \in Byte /\ NUL \in Byte /\ Junk \in Byte
    /\ \A c \in Clients, n \in 1 .. MaxLines : <<c, n>> \in Byte /\ <<c, n>> \notin {LF, NUL}
  BY DEF Byte

LEMMA ZeroedBuffer == Zeroed \in Buffer /\ \A i \in Idx : Zeroed[i] = NUL
  BY DEF Zeroed, Filled, Buffer, Byte

\* What is pending begins with the next line.
Ahead(c, L, R) ==
    /\ Len(got[c]) + 1 \in 1 .. Len(sent[c]) /\ L = sent[c][Len(got[c]) + 1]
    /\ L \in Seq(Byte) /\ R \in Seq(Byte)
    /\ R = Bytes(SubSeq(sent[c], Len(got[c]) + 2, Len(sent[c])))
    /\ Pending(c) = Append(L, LF) \o R
    /\ Len(L) \in LineLens
    /\ \A i \in 1 .. Len(L) :
         L[i] = <<c, before[c] + Len(got[c]) + 1>> /\ L[i] \notin {LF, NUL}

LEMMA PendingType ==
    ASSUME ReaderInv, NEW c \in Clients
    PROVE  /\ Pending(c) \in Seq(Byte) /\ Len(Pending(c)) = readp[c] + Len(wire[c])
           /\ \A i \in 1 .. readp[c] : Pending(c)[i] = readbuf[c][i]
           /\ \A i \in 1 .. Len(wire[c]) : Pending(c)[readp[c] + i] = wire[c][i]
  <1> DEFINE A == SubSeq(readbuf[c], 1, readp[c])
             w == wire[c]
             p == readp[c]
  <1>0. w \in Seq(Byte) /\ readbuf[c] \in Buffer /\ p \in Nat /\ p <= Cap /\ Len(w) \in Nat
    BY SlotTypes
  <1>1. A \in Seq(Byte) /\ Len(A) = p /\ \A i \in 1 .. p : A[i] = readbuf[c][i]
    <2>1. \A i \in 1 .. p : readbuf[c][i] \in Byte
      BY <1>0 DEF Buffer, Idx
    <2> QED
      BY <1>0, <2>1, SubSeqProperties
  <1>2. Pending(c) = A \o w
    BY DEF Pending
  <1> HIDE DEF A, w, p
  <1>3. /\ A \o w \in Seq(Byte) /\ Len(A \o w) = Len(A) + Len(w)
        /\ \A i \in 1 .. Len(A) + Len(w) :
              (A \o w)[i] = IF i <= Len(A) THEN A[i] ELSE w[i - Len(A)]
    <2>1. A \in Seq(Byte) /\ w \in Seq(Byte)
      BY <1>0, <1>1
    <2> QED
      BY <2>1, ConcatProperties
  <1> DEFINE C == A \o w
  <1> HIDE DEF C
  <1>4. ASSUME NEW i \in 1 .. p PROVE C[i] = readbuf[c][i]
    BY <1>0, <1>1, <1>3 DEF C
  <1>5. ASSUME NEW i \in 1 .. Len(w) PROVE C[p + i] = w[i]
    <2>1. p + i \in 1 .. Len(A) + Len(w) /\ ~ (p + i <= Len(A)) /\ (p + i) - Len(A) = i
      BY <1>0, <1>1
    <2> QED
      BY <2>1, <1>3 DEF C
  <1> QED
    BY <1>1, <1>2, <1>3, <1>4, <1>5 DEF C, w, p

LEMMA NextLine ==
    ASSUME ReaderInv, NEW c \in Clients, peer[c] # "closed", wire[c] # <<>>
    PROVE  Flows(c) /\ \E L, R : Ahead(c, L, R)
  <1> DEFINE k == Len(got[c]) + 1
             ms == Missing(c)
             L == sent[c][k]
             R == Bytes(SubSeq(sent[c], k + 1, Len(sent[c])))
  <1>0. /\ sent[c] \in Seq(Seq(Byte)) /\ got[c] \in Seq(Seq(Byte)) /\ wire[c] \in Seq(Byte)
        /\ Len(got[c]) \in Nat /\ Len(sent[c]) \in Nat /\ before[c] \in Nat /\ SlotFine(c)
    BY SlotTypes
  <1>1. Flows(c) /\ Begins(got[c], sent[c]) /\ OwnLines(c)
        /\ before[c] + Len(sent[c]) <= MaxLines
    BY <1>0 DEF SlotFine
  <1>2. Pending(c) # <<>>
    BY <1>0, PendingType, SlotTypes
  <1>3. ms # <<>>
    <2>1. Bytes(ms) # <<>>
      BY <1>1, <1>2 DEF Flows
    <2> QED
      BY <2>1, BytesEmpty
  <1>4. k \in 1 .. Len(sent[c])
    <2>1. ~ (Len(sent[c]) < k)
      <3> SUFFICES ASSUME Len(sent[c]) < k PROVE FALSE
        OBVIOUS
      <3>1. k \in Int /\ Len(sent[c]) \in Int
        BY <1>0
      <3>2. SubSeq(sent[c], k, Len(sent[c])) = <<>>
        BY <3>1, SubSeqEmpty
      <3> QED
        BY <3>2, <1>3 DEF Missing
    <2> QED
      BY <1>0, <2>1
  <1>5. ms \in Seq(Seq(Byte)) /\ ms[1] = L /\ Tail(ms) = SubSeq(sent[c], k + 1, Len(sent[c]))
    <2>1. ms = SubSeq(sent[c], k, Len(sent[c]))
      BY DEF Missing
    <2>2. \A i \in k .. Len(sent[c]) : sent[c][i] \in Seq(Byte)
      BY <1>0, <1>4
    <2>3. ms \in Seq(Seq(Byte))
      <3>1. k \in Int /\ Len(sent[c]) \in Int
        BY <1>0
      <3> QED
        BY <2>1, <2>2, <3>1, SubSeqProperties
    <2>4. /\ Head(SubSeq(sent[c], k, Len(sent[c]))) = sent[c][k]
          /\ Tail(SubSeq(sent[c], k, Len(sent[c]))) = SubSeq(sent[c], k + 1, Len(sent[c]))
      <3>1. Len(sent[c]) \in k .. Len(sent[c])
        BY <1>0, <1>4
      <3> QED
        BY <1>0, <1>4, <3>1, HeadTailOfSubSeq
    <2> HIDE DEF ms
    <2>5. ms[1] = Head(ms)
      BY <2>3 DEF ms
    <2> QED
      BY <2>1, <2>3, <2>4, <2>5
  <1>6. Tail(ms) \in Seq(Seq(Byte)) /\ L \in Seq(Byte)
    BY <1>0, <1>3, <1>4, <1>5, HeadTailProperties
  <1>7. R \in Seq(Byte)
    BY <1>5, <1>6, BytesType, ByteFacts
  <1>8. Pending(c) = Append(L, LF) \o R
    <2>1. Bytes(ms) = Append(ms[1], LF) \o Bytes(Tail(ms))
      BY <1>3, <1>5, BytesCons, ByteFacts
    <2> QED
      BY <1>1, <1>5, <2>1 DEF Flows
  <1>9. Len(L) \in LineLens /\ \A i \in 1 .. Len(L) : L[i] = <<c, before[c] + k>>
    BY <1>1, <1>4 DEF OwnLines
  <1>10. before[c] + k \in 1 .. MaxLines
    <2>1. before[c] \in Nat /\ Len(sent[c]) \in Nat /\ before[c] + Len(sent[c]) <= MaxLines
      BY <1>0, <1>1, Zenon
    <2> HIDE DEF k
    <2> QED
      BY <1>4, <2>1
  <1>11. Ahead(c, L, R)
    <2>1. \A i \in 1 .. Len(L) : L[i] \notin {LF, NUL}
      BY <1>9, <1>10, ByteFacts
    <2>2. k + 1 = Len(got[c]) + 2 /\ before[c] + k = before[c] + Len(got[c]) + 1
      BY <1>0
    <2> HIDE DEF L
    <2> QED
      BY <1>4, <1>6, <1>7, <1>8, <1>9, <2>1, <2>2 DEF Ahead, L
  <1> QED
    BY <1>1, <1>11

-------------------------------------------------------------------------------
(* One read                                                                *)

Room(c, n) == n \in 1 .. Len(wire[c]) /\ readp[c] + n <= Window
AfterRead(c, n) == Copy(readbuf[c], readp[c], wire[c], n)

\* After read() the buffer begins with what was pending, and is what it was
\* behind that.
LEMMA ReadBuffer ==
    ASSUME ReaderInv, NEW c \in Clients, NEW n \in Nat, Room(c, n)
    PROVE  /\ AfterRead(c, n) \in Buffer
           /\ \A i \in 1 .. readp[c] + n : AfterRead(c, n)[i] = Pending(c)[i]
           /\ \A i \in Idx : i > readp[c] + n => AfterRead(c, n)[i] = readbuf[c][i]
  <1> DEFINE p == readp[c]
             w == wire[c]
             b == AfterRead(c, n)
  <1>0. /\ w \in Seq(Byte) /\ readbuf[c] \in Buffer /\ p \in Nat /\ Len(w) \in Nat
        /\ n >= 1 /\ n <= Len(w) /\ p + n <= Cap
    <2>1. w \in Seq(Byte) /\ readbuf[c] \in Buffer /\ p \in Nat
      BY SlotTypes
    <2>2. Len(w) \in Nat
      BY <2>1
    <2>3. n >= 1 /\ n <= Len(w) /\ p + n <= Window
      BY <2>2 DEF Room
    <2>4. p + n <= Cap
      BY <2>1, <2>3, WindowBound
    <2> QED
      BY <2>1, <2>2, <2>3, <2>4
  <1>1. \A i \in 1 .. n : w[i] \in Byte
    BY <1>0
  <1>2. /\ b \in Buffer
        /\ \A i \in Idx : b[i] = IF i > p /\ i <= p + n THEN w[i - p] ELSE readbuf[c][i]
    <2> HIDE DEF p, w
    <2>1. /\ Copy(readbuf[c], p, w, n) \in Buffer
          /\ \A i \in Idx :
               Copy(readbuf[c], p, w, n)[i] =
                   IF i > p /\ i <= p + n THEN w[i - p] ELSE readbuf[c][i]
      BY <1>0, <1>1, CopyBuffer
    <2>2. b = Copy(readbuf[c], p, w, n)
      BY DEF AfterRead, p, w
    <2> HIDE DEF b
    <2> QED
      BY <2>1, <2>2
  <1>3. /\ \A i \in 1 .. p : Pending(c)[i] = readbuf[c][i]
        /\ \A i \in 1 .. Len(w) : Pending(c)[p + i] = w[i]
    BY PendingType
  <1> HIDE DEF p, w, b
  <1>4. ASSUME NEW i \in 1 .. p + n PROVE b[i] = Pending(c)[i]
    <2>1. i \in Idx
      BY <1>0 DEF Idx
    <2>2. CASE i <= p
      BY <1>0, <1>2, <1>3, <2>1, <2>2
    <2>3. CASE i > p
      <3>1. i - p \in 1 .. Len(w) /\ p + (i - p) = i /\ i <= p + n
        BY <1>0, <2>3
      <3>2. Pending(c)[p + (i - p)] = w[i - p]
        BY <3>1, <1>3
      <3> QED
        BY <1>2, <2>1, <2>3, <3>1, <3>2
    <2> QED
      BY <1>0, <2>2, <2>3
  <1>5. ASSUME NEW i \in Idx, i > p + n PROVE b[i] = readbuf[c][i]
    <2>1. ~ (i <= p + n)
      BY <1>0, <1>5 DEF Idx
    <2> QED
      BY <1>2, <2>1
  <1> QED
    BY <1>2, <1>4, <1>5 DEF p, w, b

\* What readline() returns: the next line if its LF has been read, else nothing.
Result(c, n) == ReadLine(AfterRead(c, n), readp[c] + n, StrChrLF(AfterRead(c, n)))

WholeLine(c, n, L) ==
    /\ Result(c, n).line \in Buffer /\ Result(c, n).rest \in Buffer
    /\ CString(Result(c, n).line) = L
    /\ Result(c, n).ret = Len(L)
    /\ Result(c, n).left = (readp[c] + n) - (Len(L) + 1)
    /\ \A i \in 1 .. Result(c, n).left : Result(c, n).rest[i] = Pending(c)[Len(L) + 1 + i]

LEMMA ReadsWhole ==
    ASSUME ReaderInv, NEW c \in Clients, NEW n \in Nat, Room(c, n), NEW L, NEW R,
           Ahead(c, L, R), readp[c] + n > Len(L)
    PROVE  WholeLine(c, n, L)
  <1> DEFINE b == AfterRead(c, n)
             T == readp[c] + n
             m == Len(L) + 1
  <1>0. /\ L \in Seq(Byte) /\ R \in Seq(Byte) /\ Len(L) \in Nat /\ T \in Nat /\ T >= m
        /\ T <= Window /\ m \in 1 .. T /\ T + T <= Cap /\ T <= Cap /\ Cap \in Nat
        /\ m - 1 = Len(L)
    <2>1. L \in Seq(Byte) /\ R \in Seq(Byte)
      BY DEF Ahead
    <2>2. readp[c] \in Nat /\ wire[c] \in Seq(Byte)
      BY SlotTypes
    <2>3. Len(L) \in Nat /\ Len(wire[c]) \in Nat
      BY <2>1, <2>2
    <2>4. n \in 1 .. Len(wire[c]) /\ readp[c] + n <= Window
      BY Zenon DEF Room
    <2> QED
      BY <2>1, <2>2, <2>3, <2>4, WindowBound
  <1>1. b \in Buffer /\ \A i \in 1 .. T : b[i] = Pending(c)[i]
    BY ReadBuffer
  <1>2. Pending(c) = Append(L, LF) \o R /\ \A i \in 1 .. Len(L) : L[i] \notin {LF, NUL}
    BY DEF Ahead
  <1>3. (\A i \in 1 .. Len(L) : Pending(c)[i] = L[i]) /\ Pending(c)[m] = LF
    <2> DEFINE F == Append(L, LF)
    <2>1. F \in Seq(Byte) /\ Len(F) = m /\ F[m] = LF /\ \A i \in 1 .. Len(L) : F[i] = L[i]
      BY <1>0, ByteFacts, AppendProperties
    <2> HIDE DEF F
    <2>2. \A i \in 1 .. Len(F) + Len(R) :
              (F \o R)[i] = IF i <= Len(F) THEN F[i] ELSE R[i - Len(F)]
      BY <1>0, <2>1, ConcatProperties
    <2>3. ASSUME NEW i \in 1 .. m PROVE Pending(c)[i] = F[i]
      <3>1. Pending(c) = F \o R
        BY <1>2 DEF F
      <3>2. i \in 1 .. Len(F) + Len(R) /\ i <= Len(F)
        BY <1>0, <2>1
      <3> QED
        BY <2>2, <3>1, <3>2
    <2>4. m \in 1 .. m /\ \A i \in 1 .. Len(L) : i \in 1 .. m
      BY <1>0
    <2> QED
      BY <2>1, <2>3, <2>4
  <1> HIDE DEF b, T, m
  <1>4. b[m] = LF /\ \A i \in 1 .. m - 1 : b[i] = L[i] /\ b[i] \notin {LF, NUL}
    <2>1. ASSUME NEW i \in 1 .. m - 1 PROVE b[i] = L[i] /\ b[i] \notin {LF, NUL}
      <3>1. i \in 1 .. Len(L) /\ i \in 1 .. T
        BY <1>0
      <3> QED
        BY <1>1, <1>2, <1>3, <3>1
    <2> QED
      BY <1>0, <1>1, <1>3, <2>1
  <1>5. StrChrLF(b) = m
    <2>1. m \in Idx
      BY <1>0 DEF Idx
    <2> QED
      BY <1>1, <1>4, <2>1, FirstLF
  <1>6. Result(c, n) = TakeLine(b, T, m)
    <2>1. m # 0
      BY <1>0
    <2> QED
      BY <1>5, <2>1 DEF Result, ReadLine, b, T
  <1> DEFINE r == TakeLine(b, T, m)
  <1>7. /\ r.line \in Buffer /\ r.rest \in Buffer
        /\ CString(r.line) = SubSeq(b, 1, m - 1)
        /\ \A i \in 1 .. T - m : r.rest[i] = b[m + i]
    <2>1. linebuf \in Buffer
      BY DEF ReaderInv, ReaderTypeOK, Buffer
    <2>2. \A i \in 1 .. m - 1 : b[i] # NUL
      BY <1>4
    <2> QED
      BY <1>0, <1>1, <2>1, <2>2, LineTaken
  <1>8. r.left = T - m /\ r.ret = m - 1
    BY DEF TakeLine
  <1> HIDE DEF r
  <1>9. SubSeq(b, 1, m - 1) = L
    BY <1>0, <1>4
  <1>10. ASSUME NEW i \in 1 .. T - m PROVE r.rest[i] = Pending(c)[m + i]
    <2>1. m + i \in 1 .. T
      BY <1>0
    <2> QED
      BY <1>1, <1>7, <2>1
  <1>11. /\ Result(c, n) = r /\ r.left = (readp[c] + n) - (Len(L) + 1) /\ r.ret = Len(L)
         /\ \A i \in 1 .. r.left : r.rest[i] = Pending(c)[Len(L) + 1 + i]
    <2>1. m = Len(L) + 1 /\ T = readp[c] + n
      BY DEF m, T
    <2>2. Result(c, n) = r
      BY <1>6 DEF r
    <2>3. r.left = (readp[c] + n) - (Len(L) + 1) /\ r.ret = Len(L)
      <3>1. r.left = (readp[c] + n) - (Len(L) + 1)
        BY <1>8, <2>1, Zenon
      <3>2. r.ret = Len(L)
        BY <1>0, <1>8, Zenon
      <3> QED
        BY <3>1, <3>2
    <2>4. ASSUME NEW i \in 1 .. r.left PROVE r.rest[i] = Pending(c)[Len(L) + 1 + i]
      <3>1. i \in 1 .. T - m
        BY <1>8
      <3> QED
        BY <1>10, <2>1, <3>1
    <2> QED
      BY <2>2, <2>3, <2>4
  <1> QED
    BY <1>7, <1>9, <1>11 DEF WholeLine

PartLine(c, n) ==
    /\ Result(c, n) = KeepPartial(AfterRead(c, n), readp[c] + n)
    /\ got[c] = <<>>

\* A line arrives in part only if it is the first of its connection.
LEMMA ReadsPart ==
    ASSUME Splittable \subseteq {1}, ReaderInv, NEW c \in Clients, NEW n \in Nat,
           Room(c, n), NEW L, NEW R, Ahead(c, L, R), readp[c] + n <= Len(L),
           n = Len(wire[c]) \/ wire[c][n][2] - before[c] \in Splittable
    PROVE  PartLine(c, n)
  <1> DEFINE b == AfterRead(c, n)
             T == readp[c] + n
             k == Len(got[c]) + 1
  <1>0. /\ L \in Seq(Byte) /\ R \in Seq(Byte) /\ Len(L) \in Nat /\ T \in Nat \ {0}
        /\ T <= Len(L) /\ T + 1 <= Cap /\ Cap \in Nat /\ got[c] \in Seq(Seq(Byte))
        /\ readp[c] \in Nat /\ n \in 1 .. Len(wire[c]) /\ wire[c] \in Seq(Byte)
        /\ Len(wire[c]) \in Nat /\ before[c] \in Nat /\ k \in Nat /\ SlotFine(c)
    <2>1. L \in Seq(Byte) /\ R \in Seq(Byte)
      BY DEF Ahead
    <2>2. /\ readp[c] \in Nat /\ wire[c] \in Seq(Byte) /\ got[c] \in Seq(Seq(Byte))
          /\ before[c] \in Nat /\ SlotFine(c)
      BY SlotTypes
    <2>3. Len(L) \in Nat /\ Len(wire[c]) \in Nat /\ k \in Nat
      BY <2>1, <2>2
    <2>4. n \in 1 .. Len(wire[c]) /\ T <= Window /\ T \in Nat \ {0}
      BY <2>2, <2>3 DEF Room
    <2>5. T + 1 <= Cap
      BY <2>4, WindowBound
    <2> HIDE DEF T, k
    <2> QED
      BY <2>1, <2>2, <2>3, <2>4, <2>5, WindowBound DEF T
  <1>1. /\ b \in Buffer /\ \A i \in 1 .. T : b[i] = Pending(c)[i]
        /\ \A i \in Idx : i > T => b[i] = readbuf[c][i]
    BY ReadBuffer
  <1>2. /\ Pending(c) = Append(L, LF) \o R
        /\ \A i \in 1 .. Len(L) : L[i] = <<c, before[c] + k>> /\ L[i] \notin {LF, NUL}
    <2>1. before[c] + Len(got[c]) + 1 = before[c] + k
      <3>1. Len(got[c]) \in Nat /\ before[c] \in Nat
        BY <1>0
      <3> QED
        BY <3>1
    <2> QED
      BY <2>1 DEF Ahead
  <1> DEFINE F == Append(L, LF)
  <1>3. F \in Seq(Byte) /\ Len(F) = Len(L) + 1 /\ \A i \in 1 .. Len(L) : F[i] = L[i]
    BY <1>0, ByteFacts, AppendProperties
  <1> HIDE DEF F
  <1>4. /\ Len(F \o R) = Len(F) + Len(R)
        /\ \A i \in 1 .. Len(F) + Len(R) :
              (F \o R)[i] = IF i <= Len(F) THEN F[i] ELSE R[i - Len(F)]
    <2>1. F \in Seq(Byte) /\ R \in Seq(Byte)
      BY <1>0, <1>3
    <2> QED
      BY <2>1, ConcatProperties
  <1>5. /\ Len(Pending(c)) >= Len(L) + 1
        /\ \A i \in 1 .. Len(L) : Pending(c)[i] = L[i]
    <2>1. Pending(c) = F \o R
      BY <1>2 DEF F
    <2>2. ASSUME NEW i \in 1 .. Len(L) PROVE Pending(c)[i] = L[i]
      <3>1. i \in 1 .. Len(F) + Len(R) /\ i <= Len(F)
        BY <1>0, <1>3
      <3> QED
        BY <1>3, <1>4, <2>1, <3>1
    <2>3. Len(R) \in Nat
      BY <1>0
    <2>4. Len(Pending(c)) = Len(L) + 1 + Len(R)
      BY <1>3, <1>4, <2>1
    <2>5. Len(Pending(c)) >= Len(L) + 1
      BY <1>0, <2>3, <2>4
    <2> QED
      BY <2>2, <2>5
  <1>6. Len(Pending(c)) = readp[c] + Len(wire[c]) /\ Pending(c)[readp[c] + n] = wire[c][n]
    BY <1>0, PendingType
  <1> HIDE DEF b
  <1>7. wire[c][n] = <<c, before[c] + k>>
    <2>1. T \in 1 .. Len(L)
      BY <1>0
    <2> QED
      BY <1>2, <1>5, <1>6, <2>1
  <1>8. wire[c][n][2] - before[c] \in Splittable
    BY <1>0, <1>5, <1>6
  <1>9. k = 1
    <2>0. <<c, before[c] + k>>[2] = before[c] + k
      OBVIOUS
    <2>1. (before[c] + k) - before[c] \in Splittable
      <3>1. wire[c][n][2] = before[c] + k
        BY <1>7, <2>0
      <3> HIDE DEF k
      <3> QED
        BY <1>8, <3>1, Zenon
    <2>2. (before[c] + k) - before[c] = k
      BY <1>0
    <2> QED
      BY <2>1, <2>2
  <1>10. got[c] = <<>>
    BY <1>0, <1>9
  <1>11. b[T + 1] = NUL
    <2>1. T + 1 \in Idx /\ T + 1 > T /\ T + 1 > readp[c]
      <3>1. T \in Nat /\ T + 1 <= Cap
        BY <1>0
      <3>2. T + 1 > readp[c]
        BY <1>0
      <3> HIDE DEF T
      <3> QED
        BY <3>1, <3>2 DEF Idx
    <2> QED
      BY <1>0, <1>1, <1>10, <2>1 DEF SlotFine
  <1>12. StrChrLF(b) = 0
    <2>1. ASSUME NEW i \in 1 .. (T + 1) - 1 PROVE b[i] # LF
      <3>1. i \in 1 .. T /\ i \in 1 .. Len(L)
        BY <1>0
      <3> QED
        BY <1>1, <1>2, <1>5, <3>1
    <2>2. T + 1 \in Idx
      <3>1. T \in Nat /\ T + 1 <= Cap
        BY <1>0
      <3> HIDE DEF T
      <3> QED
        BY <3>1 DEF Idx
    <2> QED
      BY <1>1, <1>11, <2>1, <2>2, NoLF
  <1> QED
    BY <1>10, <1>12 DEF PartLine, Result, ReadLine, b, T

-------------------------------------------------------------------------------
(* Steps                                                                   *)

\* A step that leaves the other clients alone keeps the invariant if it keeps it
\* for its own client.
Becomes(c, pe, w, b, p, s, g, e) ==
    /\ peer' = [peer EXCEPT ![c] = pe] /\ wire' = [wire EXCEPT ![c] = w]
    /\ readbuf' = [readbuf EXCEPT ![c] = b] /\ readp' = [readp EXCEPT ![c] = p]
    /\ sent' = [sent EXCEPT ![c] = s] /\ got' = [got EXCEPT ![c] = g]
    /\ before' = [before EXCEPT ![c] = e]

LEMMA StepKeeps ==
    ASSUME ReaderInv, NEW c \in Clients, NEW pe \in {"closed", "open", "fin", "rst"},
           NEW w \in Seq(Byte), NEW b \in Buffer, NEW p \in 0 .. Cap,
           NEW s \in Seq(Seq(Byte)), NEW g \in Seq(Seq(Byte)), NEW e \in 0 .. MaxLines,
           Becomes(c, pe, w, b, p, s, g, e), linebuf' \in Buffer, SlotFine(c)'
    PROVE  ReaderInv'
  <1>1. ReaderTypeOK'
    BY DEF Becomes, ReaderInv, ReaderTypeOK, Buffer
  <1>2. ASSUME NEW d \in Clients PROVE SlotFine(d)'
    <2>1. CASE d = c
      BY <2>1
    <2>2. CASE d # c
      <3>1. /\ peer'[d] = peer[d] /\ wire'[d] = wire[d] /\ readbuf'[d] = readbuf[d]
            /\ readp'[d] = readp[d] /\ sent'[d] = sent[d] /\ got'[d] = got[d]
            /\ before'[d] = before[d]
        BY <2>2 DEF Becomes, ReaderInv, ReaderTypeOK
      <3>2. SlotFine(d)
        BY DEF ReaderInv
      <3> QED
        BY <3>1, <3>2, SlotUntouched
    <2> QED
      BY <2>1, <2>2
  <1> QED
    BY <1>1, <1>2 DEF ReaderInv

LEMMA StepGives ==
    ASSUME ReaderInv, NEW c \in Clients, NEW pe, NEW w, NEW b, NEW p, NEW s, NEW g, NEW e,
           Becomes(c, pe, w, b, p, s, g, e)
    PROVE  /\ peer'[c] = pe /\ wire'[c] = w /\ readbuf'[c] = b /\ readp'[c] = p
           /\ sent'[c] = s /\ got'[c] = g /\ before'[c] = e
  BY DEF Becomes, ReaderInv, ReaderTypeOK

\* What a step does not change it replaces by itself.
LEMMA Unchanged ==
    ASSUME ReaderInv, NEW c \in Clients
    PROVE  /\ peer = [peer EXCEPT ![c] = peer[c]] /\ wire = [wire EXCEPT ![c] = wire[c]]
           /\ readbuf = [readbuf EXCEPT ![c] = readbuf[c]]
           /\ readp = [readp EXCEPT ![c] = readp[c]]
           /\ sent = [sent EXCEPT ![c] = sent[c]] /\ got = [got EXCEPT ![c] = got[c]]
           /\ before = [before EXCEPT ![c] = before[c]]
  BY DEF ReaderInv, ReaderTypeOK

\* connarr_close() leaves a clean slot.
LEMMA CloseKeeps ==
    ASSUME ReaderInv, NEW c \in Clients, CloseSlot(c), UNCHANGED <<sent, got, before>>,
           linebuf' \in Buffer
    PROVE  ReaderInv'
  <1>0. /\ sent[c] \in Seq(Seq(Byte)) /\ got[c] \in Seq(Seq(Byte))
        /\ before[c] \in 0 .. MaxLines /\ SlotFine(c)
    BY SlotTypes
  <1>1. Becomes(c, "closed", <<>>, Zeroed, 0, sent[c], got[c], before[c])
    BY Unchanged DEF Becomes, CloseSlot
  <1>2. /\ peer'[c] = "closed" /\ wire'[c] = <<>> /\ readbuf'[c] = Zeroed /\ readp'[c] = 0
        /\ sent'[c] = sent[c] /\ got'[c] = got[c] /\ before'[c] = before[c]
    BY <1>1, StepGives
  <1>3. SlotFine(c)'
    <2>1. Len(wire'[c]) + readp'[c] <= Window
      BY <1>2, WindowBound
    <2>2. OwnLines(c)' /\ before'[c] + Len(sent'[c]) <= MaxLines
      BY <1>0, <1>2 DEF SlotFine, OwnLines
    <2> QED
      BY <1>2, <2>1, <2>2, ZeroedBuffer DEF SlotFine
  <1>4. <<>> \in Seq(Byte) /\ Zeroed \in Buffer /\ 0 \in 0 .. Cap
    BY ZeroedBuffer, WindowBound
  <1> QED
    BY <1>0, <1>1, <1>3, <1>4, StepKeeps

\* What read() may return.
LEMMA ReadDataReads ==
    ASSUME ReaderInv, NEW c \in Clients, ReadData(c)
    PROVE  /\ peer[c] # "closed" /\ wire[c] # <<>>
           /\ \E n \in Nat : /\ Room(c, n) /\ Serve(c, n)
                             /\ n = Len(wire[c]) \/ wire[c][n][2] - before[c] \in Splittable
  <1> DEFINE x == Len(wire[c])
             y == Cap - readp[c]
             most == Min({x, y})
  <1>0. /\ x \in Nat /\ y \in Nat /\ x <= y /\ readp[c] + x <= Window /\ readp[c] \in Nat
    <2>1. wire[c] \in Seq(Byte) /\ readp[c] \in 0 .. Cap /\ SlotFine(c)
      BY SlotTypes
    <2>2. x \in Nat /\ y \in Nat
      BY <2>1, WindowBound
    <2>3. x + readp[c] <= Window
      BY <2>1 DEF SlotFine
    <2> QED
      BY <2>1, <2>2, <2>3, WindowBound
  <1>1. most = x
    <2>1. {x, y} \subseteq Nat /\ {x, y} # {}
      BY <1>0
    <2>2. most \in {x, y} /\ most <= x
      BY <2>1, MinOf
    <2> HIDE DEF most, x, y
    <2> QED
      BY <1>0, <2>2
  <1>2. /\ peer[c] # "closed" /\ most > 0
        /\ \E n \in 1 .. most :
             /\ n = most \/ wire[c][n][2] - before[c] \in Splittable
             /\ Serve(c, n)
    BY DEF ReadData
  <1> HIDE DEF most
  <1>3. PICK n \in 1 .. most :
             /\ n = most \/ wire[c][n][2] - before[c] \in Splittable
             /\ Serve(c, n)
    BY <1>2
  <1>4. n \in Nat /\ Room(c, n)
    <2>1. n \in 1 .. x
      BY <1>1, <1>3
    <2>2. readp[c] + n <= Window
      BY <1>0, <2>1, WindowBound
    <2> QED
      BY <2>1, <2>2 DEF Room
  <1>5. wire[c] # <<>>
    BY <1>0, <1>1, <1>2
  <1> QED
    BY <1>1, <1>2, <1>3, <1>4, <1>5

LEMMA Shift ==
    ASSUME NEW p \in Int, NEW n \in Int, NEW m \in Int, NEW x \in Int
    PROVE  ((p + n) - m) + (x - n) = (p + x) - m
  BY SMT

LEMMA Sums ==
    ASSUME NEW x \in Int, NEW p \in Int, NEW l \in Int
    PROVE  x + p + l + 1 = (x + (l + 1)) + p
  BY SMT

LEMMA Behind ==
    ASSUME NEW p \in Int, NEW n \in Int, NEW m \in Int, NEW i \in Int
    PROVE  p + (n + (i - ((p + n) - m))) = m + i
  BY SMT

\* What is served when a line is whole: it is handed over, and what follows it is
\* pending.
LEMMA WholeKeeps ==
    ASSUME ReaderInv, NEW c \in Clients, NEW n \in Nat, Room(c, n), peer[c] # "closed",
           Flows(c), NEW L, NEW R, Ahead(c, L, R), WholeLine(c, n, L),
           readp[c] + n > Len(L), Serve(c, n)
    PROVE  ReaderInv'
  <1> DEFINE r == Result(c, n)
             T == readp[c] + n
             m == Len(L) + 1
             w == SubSeq(wire[c], n + 1, Len(wire[c]))
             g == Append(got[c], L)
  <1>0. /\ L \in Seq(Byte) /\ R \in Seq(Byte) /\ wire[c] \in Seq(Byte)
        /\ readp[c] \in Nat /\ got[c] \in Seq(Seq(Byte)) /\ sent[c] \in Seq(Seq(Byte))
        /\ before[c] \in 0 .. MaxLines /\ SlotFine(c) /\ readbuf[c] \in Buffer
        /\ peer[c] \in {"closed", "open", "fin", "rst"}
    <2>1. L \in Seq(Byte) /\ R \in Seq(Byte)
      BY Zenon DEF Ahead
    <2>2. readp[c] \in Nat
      <3>1. readp[c] \in 0 .. Cap
        BY SlotTypes, Zenon
      <3> QED
        BY <3>1
    <2> QED
      BY <2>1, <2>2, SlotTypes, Zenon
  <1>1. /\ linebuf' = r.line
        /\ IF r.ret = 0
           THEN CloseSlot(c) /\ UNCHANGED got
           ELSE /\ readbuf' = [readbuf EXCEPT ![c] = r.rest]
                /\ readp' = [readp EXCEPT ![c] = r.left]
                /\ wire' = [wire EXCEPT ![c] = w]
                /\ got' = IF CString(r.line) = <<>> THEN got
                          ELSE [got EXCEPT ![c] = Append(got[c], CString(r.line))]
                /\ UNCHANGED peer
        /\ UNCHANGED <<sent, before>>
    BY DEF Serve, Result, AfterRead
  <1>2. /\ r.line \in Buffer /\ r.rest \in Buffer /\ CString(r.line) = L /\ r.ret = Len(L)
        /\ r.left = T - m /\ \A i \in 1 .. r.left : r.rest[i] = Pending(c)[m + i]
    BY DEF WholeLine
  <1>3. CASE Len(L) = 0
    BY <1>1, <1>2, <1>3, CloseKeeps
  <1>4. CASE Len(L) # 0
    <2>1. L # <<>>
      BY <1>4
    <2>2. /\ readbuf' = [readbuf EXCEPT ![c] = r.rest] /\ readp' = [readp EXCEPT ![c] = r.left]
          /\ wire' = [wire EXCEPT ![c] = w] /\ got' = [got EXCEPT ![c] = g]
          /\ UNCHANGED <<peer, sent, before>>
      BY <1>1, <1>2, <1>4, <2>1
    <2> HIDE DEF r, w, g
    <2>3. Becomes(c, peer[c], w, r.rest, r.left, sent[c], g, before[c])
      BY <2>2, Unchanged DEF Becomes
    <2>4. /\ peer'[c] = peer[c] /\ wire'[c] = w /\ readbuf'[c] = r.rest /\ readp'[c] = r.left
          /\ sent'[c] = sent[c] /\ got'[c] = g /\ before'[c] = before[c]
      BY <2>3, StepGives
    <2>5. /\ Len(L) \in Nat /\ m \in Nat /\ T \in Nat /\ m <= T /\ T <= Window
          /\ Len(wire[c]) \in Nat /\ n >= 1 /\ n <= Len(wire[c])
      <3>1. Len(L) \in Nat /\ Len(wire[c]) \in Nat /\ readp[c] \in Nat
        BY <1>0
      <3>2. n \in 1 .. Len(wire[c]) /\ readp[c] + n <= Window
        BY Zenon DEF Room
      <3> QED
        BY <3>1, <3>2
    <2>6. r.left \in 0 .. Cap /\ r.left = T - m
      BY <1>2, <2>5, WindowBound
    <2>7. /\ w \in Seq(Byte) /\ Len(w) = Len(wire[c]) - n
          /\ \A i \in 1 .. Len(wire[c]) - n : w[i] = wire[c][n + i]
      <3>1. \A i \in n + 1 .. Len(wire[c]) : wire[c][i] \in Byte
        BY <1>0, <2>5
      <3>2. n + 1 \in Int /\ Len(wire[c]) \in Int
        BY <2>5
      <3>3. /\ w \in Seq(Byte)
            /\ Len(w) = IF n + 1 <= Len(wire[c]) THEN Len(wire[c]) - (n + 1) + 1 ELSE 0
            /\ \A i \in 1 .. Len(wire[c]) - (n + 1) + 1 : w[i] = wire[c][n + 1 + i - 1]
        BY <3>1, <3>2, SubSeqProperties DEF w
      <3>4. Len(w) = Len(wire[c]) - n
        BY <3>3, <2>5
      <3>5. ASSUME NEW i \in 1 .. Len(wire[c]) - n PROVE w[i] = wire[c][n + i]
        <4>1. i \in 1 .. Len(wire[c]) - (n + 1) + 1 /\ n + 1 + i - 1 = n + i
          BY <2>5
        <4> QED
          BY <3>3, <4>1
      <3> QED
        BY <3>3, <3>4, <3>5
    <2>8. g \in Seq(Seq(Byte)) /\ g # <<>> /\ Len(g) = Len(got[c]) + 1
          /\ g[Len(got[c]) + 1] = L /\ \A i \in 1 .. Len(got[c]) : g[i] = got[c][i]
      <3>1. got[c] \in Seq(Seq(Byte)) /\ L \in Seq(Byte)
        BY <1>0
      <3> QED
        BY <3>1, AppendProperties DEF g
    <2>9. Pending(c)' = R
      <3> DEFINE A == SubSeq(r.rest, 1, r.left)
                 F == Append(L, LF)
                 P == Pending(c)
      <3>1. F \in Seq(Byte) /\ Len(F) = m
        BY <1>0, <2>5, ByteFacts, AppendProperties
      <3>2. P = F \o R
        BY DEF Ahead
      <3>3. /\ P \in Seq(Byte) /\ Len(P) = readp[c] + Len(wire[c])
            /\ \A i \in 1 .. Len(wire[c]) : P[readp[c] + i] = wire[c][i]
        BY PendingType
      <3>4. A \in Seq(Byte) /\ Len(A) = r.left /\ \A i \in 1 .. r.left : A[i] = r.rest[i]
        <4>1. \A i \in 1 .. r.left : r.rest[i] \in Byte
          <5>1. \A i \in 1 .. Cap : r.rest[i] \in Byte
            BY <1>2 DEF Buffer, Idx
          <5>2. \A i \in 1 .. r.left : i \in 1 .. Cap
            <6> DEFINE left == r.left
            <6>1. left \in 0 .. Cap /\ Cap \in Nat
              BY <2>6
            <6> HIDE DEF left
            <6>2. \A i \in 1 .. left : i \in 1 .. Cap
              BY <6>1
            <6> QED
              BY <6>2 DEF left
          <5> QED
            BY <5>1, <5>2, Zenon
        <4>2. 1 \in Int /\ r.left \in Int /\ r.left \in Nat
          BY <2>6, WindowBound
        <4> DEFINE q == r.left
        <4> HIDE DEF q
        <4>3. /\ SubSeq(r.rest, 1, q) \in Seq(Byte)
              /\ Len(SubSeq(r.rest, 1, q)) = IF 1 <= q THEN q - 1 + 1 ELSE 0
              /\ \A i \in 1 .. q - 1 + 1 : SubSeq(r.rest, 1, q)[i] = r.rest[1 + i - 1]
          BY <4>1, <4>2, SubSeqProperties DEF q
        <4> QED
          BY <4>2, <4>3 DEF q
      <3>5. Pending(c)' = A \o w
        BY <2>4 DEF Pending
      <3> HIDE DEF A, F, P
      <3>6. /\ Len(F \o R) = Len(F) + Len(R)
            /\ \A i \in 1 .. Len(F) + Len(R) :
                 (F \o R)[i] = IF i <= Len(F) THEN F[i] ELSE R[i - Len(F)]
        <4>1. F \in Seq(Byte) /\ R \in Seq(Byte)
          BY <1>0, <3>1
        <4> QED
          BY <4>1, ConcatProperties
      <3>7. Len(R) = Len(P) - m /\ \A i \in 1 .. Len(R) : R[i] = P[m + i]
        <4>1. Len(R) \in Nat /\ Len(P) = m + Len(R)
          BY <1>0, <3>1, <3>2, <3>6
        <4>2. ASSUME NEW i \in 1 .. Len(R) PROVE R[i] = P[m + i]
          <5>1. m + i \in 1 .. Len(F) + Len(R) /\ ~ (m + i <= Len(F)) /\ (m + i) - Len(F) = i
            BY <2>5, <3>1, <4>1
          <5> QED
            BY <3>2, <3>6, <5>1
        <4> QED
          BY <2>5, <4>1, <4>2
      <3>8. /\ A \o w \in Seq(Byte) /\ Len(A \o w) = Len(A) + Len(w)
            /\ \A i \in 1 .. Len(A) + Len(w) :
                 (A \o w)[i] = IF i <= Len(A) THEN A[i] ELSE w[i - Len(A)]
        <4>1. A \in Seq(Byte) /\ w \in Seq(Byte)
          BY <2>7, <3>4
        <4> QED
          BY <4>1, ConcatProperties
      <3>9. Len(A \o w) = Len(R)
        <4>1. /\ Len(A \o w) = Len(A) + Len(w) /\ Len(A) = (readp[c] + n) - m
              /\ Len(w) = Len(wire[c]) - n /\ Len(R) = (readp[c] + Len(wire[c])) - m
          BY <2>6, <2>7, <3>3, <3>4, <3>7, <3>8
        <4>2. readp[c] \in Int /\ m \in Int /\ n \in Int /\ Len(wire[c]) \in Int
          BY <1>0, <2>5
        <4>3. ((readp[c] + n) - m) + (Len(wire[c]) - n) = (readp[c] + Len(wire[c])) - m
          BY <4>2, Shift
        <4> HIDE DEF m
        <4> QED
          BY <4>1, <4>3, Zenon
      <3>10. ASSUME NEW i \in 1 .. Len(R) PROVE (A \o w)[i] = R[i]
        <4>1. i \in 1 .. Len(A) + Len(w) /\ i \in Nat /\ Len(A) = T - m
          BY <2>6, <3>4, <3>8, <3>9
        <4>2. R[i] = P[m + i]
          BY <3>7
        <4>3. CASE i <= Len(A)
          <5>1. i \in 1 .. r.left /\ (A \o w)[i] = A[i]
            BY <2>5, <2>6, <3>4, <3>8, <4>1, <4>3
          <5>2. A[i] = r.rest[i] /\ r.rest[i] = P[m + i]
            BY <1>2, <3>4, <5>1 DEF P
          <5> QED
            BY <4>2, <5>1, <5>2
        <4>4. CASE ~ (i <= Len(A))
          <5> DEFINE j == i - Len(A)
          <5>1. j \in 1 .. Len(w) /\ (A \o w)[i] = w[j]
            <6>1. Len(A) \in Nat /\ Len(w) \in Nat
              BY <2>5, <2>7, <3>4, <3>8, <4>1
            <6>2. (A \o w)[i] = w[i - Len(A)]
              BY <3>8, <4>1, <4>4
            <6>3. i - Len(A) \in 1 .. Len(w)
              BY <4>1, <4>4, <6>1
            <6> QED
              BY <6>2, <6>3
          <5>2. n + j \in 1 .. Len(wire[c]) /\ j \in 1 .. Len(wire[c]) - n
            <6>1. n \in Nat /\ n >= 1 /\ Len(wire[c]) \in Nat /\ n <= Len(wire[c])
              BY <2>5
            <6>2. j \in 1 .. Len(wire[c]) - n
              BY <2>7, <5>1, Zenon
            <6> HIDE DEF j
            <6> QED
              BY <6>1, <6>2
          <5>3. readp[c] + (n + j) = m + i
            <6>1. j = i - ((readp[c] + n) - m)
              BY <4>1
            <6>2. readp[c] \in Int /\ m \in Int /\ n \in Int /\ i \in Int
              BY <1>0, <2>5, <4>1
            <6>3. readp[c] + (n + (i - ((readp[c] + n) - m))) = m + i
              BY <6>2, Behind
            <6> HIDE DEF j, m
            <6> QED
              BY <6>1, <6>3
          <5> HIDE DEF j
          <5>4. w[j] = wire[c][n + j] /\ wire[c][n + j] = P[readp[c] + (n + j)]
            BY <2>7, <3>3, <5>2
          <5> QED
            BY <4>2, <5>1, <5>3, <5>4
        <4> QED
          BY <4>3, <4>4
      <3>11. A \o w = R
        <4> DEFINE C == A \o w
        <4> HIDE DEF C
        <4>1. C \in Seq(Byte) /\ Len(C) = Len(R) /\ \A i \in 1 .. Len(R) : C[i] = R[i]
          BY <3>8, <3>9, <3>10 DEF C
        <4>2. C = R
          BY <1>0, <4>1, SeqEqual
        <4> QED
          BY <4>2 DEF C
      <3> QED
        BY <3>5, <3>11
    <2>10. SlotFine(c)'
      <3>1. Len(wire'[c]) + readp'[c] <= Window
        <4>1. Len(wire[c]) + readp[c] <= Window
          BY <1>0 DEF SlotFine
        <4>2. Len(w) = Len(wire[c]) - n /\ r.left = (readp[c] + n) - m
          BY <2>6, <2>7
        <4>3. readp[c] \in Nat /\ Window \in Nat
          BY <1>0, WindowBound
        <4>4. Len(w) + r.left <= Window
          <5>1. readp[c] \in Int /\ m \in Nat /\ n \in Int /\ Len(wire[c]) \in Int
            BY <1>0, <2>5
          <5>2. ((readp[c] + n) - m) + (Len(wire[c]) - n) = (readp[c] + Len(wire[c])) - m
            BY <5>1, Shift
          <5>3. (readp[c] + Len(wire[c])) - m <= Window
            BY <4>1, <4>3, <5>1
          <5>4. Len(w) + r.left = r.left + Len(w)
            BY <2>6, <2>7, <5>1
          <5> HIDE DEF m
          <5> QED
            BY <4>2, <5>2, <5>3, <5>4, Zenon
        <4> QED
          BY <2>4, <4>4
      <3>2. OwnLines(c)' /\ before'[c] + Len(sent'[c]) <= MaxLines
        BY <1>0, <2>4 DEF SlotFine, OwnLines
      <3>3. Begins(got'[c], sent'[c])
        <4>1. Begins(got[c], sent[c]) /\ Len(got[c]) + 1 \in 1 .. Len(sent[c])
              /\ L = sent[c][Len(got[c]) + 1] /\ Len(got[c]) \in Nat
          <5>1. Begins(got[c], sent[c])
            BY <1>0, Zenon DEF SlotFine
          <5>2. Len(got[c]) + 1 \in 1 .. Len(sent[c]) /\ L = sent[c][Len(got[c]) + 1]
            BY Zenon DEF Ahead
          <5>3. Len(got[c]) \in Nat
            BY <1>0
          <5> QED
            BY <5>1, <5>2, <5>3, Zenon
        <4>2. Len(g) <= Len(sent[c])
          BY <2>8, <4>1
        <4>3. ASSUME NEW i \in 1 .. Len(g) PROVE g[i] = sent[c][i]
          <5>1. i = Len(got[c]) + 1 \/ i \in 1 .. Len(got[c])
            BY <2>8, <4>1
          <5> QED
            BY <2>8, <4>1, <5>1 DEF Begins
        <4> QED
          BY <2>4, <4>2, <4>3 DEF Begins
      <3>4. Flows(c)'
        <4>1. Missing(c)' = SubSeq(sent[c], Len(got[c]) + 2, Len(sent[c]))
          <5>1. Len(g) + 1 = Len(got[c]) + 2
            BY <1>0, <2>8
          <5> QED
            BY <2>4, <5>1 DEF Missing
        <4>2. Pending(c)' = Bytes(Missing(c)')
          BY <2>9, <4>1 DEF Ahead
        <4>3. Bytes(g) = Bytes(got[c]) \o Append(L, LF)
          BY <1>0, BytesAppend, ByteFacts DEF g
        <4>4. (Bytes(got[c]) \o Append(L, LF)) \o R = Bytes(got[c]) \o (Append(L, LF) \o R)
          <5>1. Bytes(got[c]) \in Seq(Byte) /\ Append(L, LF) \in Seq(Byte)
            BY <1>0, BytesType, ByteFacts, AppendProperties
          <5> DEFINE X == Bytes(got[c])
                     Y == Append(L, LF)
          <5>2. X \in Seq(Byte) /\ Y \in Seq(Byte) /\ R \in Seq(Byte)
            BY <1>0, <5>1
          <5> HIDE DEF X, Y
          <5>3. \A x, y, z \in Seq(Byte) : (x \o y) \o z = x \o (y \o z)
            BY Associative
          <5>4. (X \o Y) \o R = X \o (Y \o R)
            BY <5>2, <5>3, Zenon
          <5> QED
            BY <5>4 DEF X, Y
        <4>5. Bytes(g) \o R = Bytes(sent[c])
          <5>1. Bytes(got[c]) \o Pending(c) = Bytes(sent[c]) /\ Pending(c) = Append(L, LF) \o R
            BY DEF Flows, Ahead
          <5> QED
            BY <4>3, <4>4, <5>1, Zenon
        <4>6. Bytes(got[c])' = Bytes(g) /\ Bytes(sent[c])' = Bytes(sent[c])
          BY <2>4
        <4>7. Bytes(Missing(c))' = Bytes(Missing(c)')
          OBVIOUS
        <4> QED
          BY <2>9, <4>2, <4>5, <4>6, <4>7 DEF Flows
      <3> QED
        BY <2>4, <2>8, <3>1, <3>2, <3>3, <3>4, <1>0 DEF SlotFine
    <2>11. linebuf' \in Buffer
      BY <1>1, <1>2 DEF r
    <2>12. r.rest \in Buffer
      BY <1>2
    <2> QED
      BY <1>0, <2>3, <2>6, <2>7, <2>8, <2>10, <2>11, <2>12, StepKeeps
  <1> QED
    BY <1>3, <1>4

\* What is served when a line is whole in part only: the part moves to the buffer.
LEMMA PartKeeps ==
    ASSUME ReaderInv, NEW c \in Clients, NEW n \in Nat, Room(c, n), peer[c] # "closed",
           Flows(c), PartLine(c, n), Serve(c, n)
    PROVE  ReaderInv' /\ peer'[c] = peer[c]
  <1> DEFINE b == AfterRead(c, n)
             T == readp[c] + n
             w == SubSeq(wire[c], n + 1, Len(wire[c]))
  <1>0. /\ wire[c] \in Seq(Byte) /\ readp[c] \in Nat /\ got[c] \in Seq(Seq(Byte))
        /\ sent[c] \in Seq(Seq(Byte)) /\ before[c] \in 0 .. MaxLines /\ SlotFine(c)
        /\ peer[c] \in {"closed", "open", "fin", "rst"} /\ Len(wire[c]) \in Nat
    BY SlotTypes
  <1>1. /\ b \in Buffer /\ \A i \in 1 .. T : b[i] = Pending(c)[i]
        /\ \A i \in Idx : i > T => b[i] = readbuf[c][i]
    BY ReadBuffer
  <1>2. /\ T \in Nat \ {0} /\ T \in 0 .. Cap /\ n >= 1 /\ n <= Len(wire[c]) /\ T <= Window
    BY <1>0, WindowBound DEF Room
  <1>3. /\ linebuf' = Zeroed
        /\ readbuf' = [readbuf EXCEPT ![c] = b] /\ readp' = [readp EXCEPT ![c] = T]
        /\ wire' = [wire EXCEPT ![c] = w] /\ UNCHANGED <<peer, sent, got, before>>
    <2>1. Result(c, n) = [line |-> Zeroed, rest |-> b, left |-> T, ret |-> T]
      BY DEF PartLine, KeepPartial
    <2>2. /\ linebuf' = Result(c, n).line
          /\ IF Result(c, n).ret = 0
             THEN CloseSlot(c) /\ UNCHANGED got
             ELSE /\ readbuf' = [readbuf EXCEPT ![c] = Result(c, n).rest]
                  /\ readp' = [readp EXCEPT ![c] = Result(c, n).left]
                  /\ wire' = [wire EXCEPT ![c] = w]
                  /\ got' = IF CString(Result(c, n).line) = <<>> THEN got
                            ELSE [got EXCEPT ![c] = Append(got[c], CString(Result(c, n).line))]
                  /\ UNCHANGED peer
          /\ UNCHANGED <<sent, before>>
      BY DEF Serve, Result, AfterRead
    <2> HIDE DEF b, w, T
    <2>3. /\ Result(c, n).line = Zeroed /\ Result(c, n).rest = b /\ Result(c, n).left = T
          /\ Result(c, n).ret = T
      BY <2>1
    <2> QED
      BY <1>2, <2>2, <2>3, CStringZeroed
  <1> HIDE DEF b, w
  <1>4. Becomes(c, peer[c], w, b, T, sent[c], got[c], before[c])
    BY <1>3, Unchanged DEF Becomes
  <1>5. /\ peer'[c] = peer[c] /\ wire'[c] = w /\ readbuf'[c] = b /\ readp'[c] = T
        /\ sent'[c] = sent[c] /\ got'[c] = got[c] /\ before'[c] = before[c]
    BY <1>4, StepGives
  <1>6. /\ w \in Seq(Byte) /\ Len(w) = Len(wire[c]) - n
        /\ \A i \in 1 .. Len(wire[c]) - n : w[i] = wire[c][n + i]
    <2>1. \A i \in n + 1 .. Len(wire[c]) : wire[c][i] \in Byte
      BY <1>0, <1>2
    <2>2. n + 1 \in Int /\ Len(wire[c]) \in Int
      BY <1>0
    <2>3. /\ w \in Seq(Byte)
          /\ Len(w) = IF n + 1 <= Len(wire[c]) THEN Len(wire[c]) - (n + 1) + 1 ELSE 0
          /\ \A i \in 1 .. Len(wire[c]) - (n + 1) + 1 : w[i] = wire[c][n + 1 + i - 1]
      BY <2>1, <2>2, SubSeqProperties DEF w
    <2>4. Len(w) = Len(wire[c]) - n
      BY <2>3, <1>0, <1>2
    <2>5. ASSUME NEW i \in 1 .. Len(wire[c]) - n PROVE w[i] = wire[c][n + i]
      <3>1. i \in 1 .. Len(wire[c]) - (n + 1) + 1 /\ n + 1 + i - 1 = n + i
        BY <1>0
      <3> QED
        BY <2>3, <3>1
    <2> QED
      BY <2>3, <2>4, <2>5
  <1>7. Pending(c)' = Pending(c)
    <2> DEFINE A == SubSeq(b, 1, T)
               P == Pending(c)
    <2>1. /\ P \in Seq(Byte) /\ Len(P) = readp[c] + Len(wire[c])
          /\ \A i \in 1 .. Len(wire[c]) : P[readp[c] + i] = wire[c][i]
      BY PendingType
    <2>2. A \in Seq(Byte) /\ Len(A) = T /\ \A i \in 1 .. T : A[i] = b[i]
      <3>1. \A i \in 1 .. T : b[i] \in Byte
        BY <1>1, <1>2, WindowBound DEF Buffer, Idx
      <3> DEFINE q == T
      <3>2. 1 \in Int /\ q \in Int /\ q \in Nat
        BY <1>2
      <3> HIDE DEF q
      <3>3. /\ SubSeq(b, 1, q) \in Seq(Byte)
            /\ Len(SubSeq(b, 1, q)) = IF 1 <= q THEN q - 1 + 1 ELSE 0
            /\ \A i \in 1 .. q - 1 + 1 : SubSeq(b, 1, q)[i] = b[1 + i - 1]
        BY <3>1, <3>2, SubSeqProperties DEF q
      <3>4. /\ SubSeq(b, 1, q) \in Seq(Byte) /\ Len(SubSeq(b, 1, q)) = q
            /\ \A i \in 1 .. q : SubSeq(b, 1, q)[i] = b[i]
        BY <3>2, <3>3
      <3> QED
        BY <3>4 DEF q
    <2>3. Pending(c)' = A \o w
      BY <1>5 DEF Pending
    <2> HIDE DEF A, P
    <2>4. /\ A \o w \in Seq(Byte) /\ Len(A \o w) = Len(A) + Len(w)
          /\ \A i \in 1 .. Len(A) + Len(w) :
               (A \o w)[i] = IF i <= Len(A) THEN A[i] ELSE w[i - Len(A)]
      <3>1. A \in Seq(Byte) /\ w \in Seq(Byte)
        BY <1>6, <2>2
      <3> QED
        BY <3>1, ConcatProperties
    <2>5. Len(A \o w) = Len(P)
      <3>1. Len(A \o w) = (readp[c] + n) + (Len(wire[c]) - n)
        BY <1>6, <2>2, <2>4
      <3> QED
        BY <1>0, <2>1, <3>1
    <2>6. ASSUME NEW i \in 1 .. Len(P) PROVE (A \o w)[i] = P[i]
      <3>1. i \in 1 .. Len(A) + Len(w) /\ i \in Nat
        BY <2>4, <2>5
      <3>2. CASE i <= Len(A)
        <4>1. i \in 1 .. T
          BY <2>2, <3>1, <3>2
        <4> QED
          BY <1>1, <2>2, <2>4, <3>1, <3>2, <4>1 DEF P
      <3>3. CASE ~ (i <= Len(A))
        <4> DEFINE j == i - T
        <4>1. (A \o w)[i] = w[j]
          BY <2>2, <2>4, <3>1, <3>3
        <4>2. j \in 1 .. Len(wire[c]) - n /\ n + j \in 1 .. Len(wire[c])
          <5>1. i \in Nat /\ T \in Nat /\ i > T /\ i <= T + (Len(wire[c]) - n)
            BY <1>0, <1>2, <1>6, <2>2, <3>1, <3>3
          <5> HIDE DEF T
          <5> QED
            BY <1>0, <1>2, <5>1
        <4>3. readp[c] + (n + j) = i
          BY <1>0, <3>1
        <4> HIDE DEF j
        <4>4. w[j] = wire[c][n + j] /\ wire[c][n + j] = P[readp[c] + (n + j)]
          BY <1>6, <2>1, <4>2
        <4> QED
          BY <4>1, <4>3, <4>4
      <3> QED
        BY <3>2, <3>3
    <2> DEFINE C == A \o w
    <2> HIDE DEF C
    <2>7. C \in Seq(Byte) /\ Len(C) = Len(P) /\ \A i \in 1 .. Len(C) : C[i] = P[i]
      BY <2>4, <2>5, <2>6 DEF C
    <2>8. C = P
      BY <2>1, <2>7, SeqEqual
    <2> QED
      BY <2>3, <2>8 DEF C, P
  <1>8. SlotFine(c)'
    <2>1. Len(wire'[c]) + readp'[c] <= Window
      <3>1. Len(wire[c]) + readp[c] <= Window
        BY <1>0 DEF SlotFine
      <3>2. Len(wire'[c]) = Len(wire[c]) - n /\ readp'[c] = readp[c] + n
        BY <1>5, <1>6
      <3> QED
        BY <1>0, <3>1, <3>2, WindowBound
    <2>2. OwnLines(c)' /\ before'[c] + Len(sent'[c]) <= MaxLines
      BY <1>0, <1>5 DEF SlotFine, OwnLines
    <2>3. Begins(got'[c], sent'[c])
      BY <1>0, <1>5 DEF SlotFine
    <2>4. Flows(c)'
      <3>1. Missing(c)' = Missing(c)
        BY <1>5 DEF Missing
      <3>2. Bytes(Missing(c))' = Bytes(Missing(c)) /\ Bytes(got[c])' = Bytes(got[c])
            /\ Bytes(sent[c])' = Bytes(sent[c])
        BY <1>5, <3>1
      <3> QED
        BY <1>7, <3>2 DEF Flows
    <2>5. \A i \in Idx : i > readp'[c] => readbuf'[c][i] = NUL
      <3>1. got[c] = <<>>
        BY DEF PartLine
      <3>2. ASSUME NEW i \in Idx, i > T PROVE b[i] = NUL
        <4>1. i > readp[c]
          BY <1>0, <1>2, <3>2 DEF Idx
        <4> QED
          BY <1>0, <1>1, <3>1, <3>2, <4>1 DEF SlotFine
      <3> QED
        BY <1>5, <3>2
    <2> QED
      BY <1>5, <2>1, <2>2, <2>3, <2>4, <2>5 DEF SlotFine
  <1>9. linebuf' \in Buffer
    BY <1>3, ZeroedBuffer
  <1> HIDE DEF T
  <1>10. ReaderInv'
    BY <1>0, <1>1, <1>2, <1>4, <1>6, <1>8, <1>9, StepKeeps
  <1> QED
    BY <1>5, <1>10

\* A connection whose peer is there is closed for an empty line only.
LEMMA ReadDataKeeps ==
    ASSUME Splittable \subseteq {1}, ReaderInv, NEW c \in Clients, ReadData(c)
    PROVE  ReaderInv' /\ (0 \notin LineLens => peer'[c] = peer[c])
  <1>1. PICK n \in Nat : /\ Room(c, n) /\ Serve(c, n)
                         /\ n = Len(wire[c]) \/ wire[c][n][2] - before[c] \in Splittable
    BY ReadDataReads
  <1>2. peer[c] # "closed" /\ wire[c] # <<>>
    BY ReadDataReads
  <1>3. Flows(c) /\ \E L, R : Ahead(c, L, R)
    BY <1>2, NextLine
  <1>4. PICK L, R : Ahead(c, L, R)
    BY <1>3
  <1>5. readp[c] + n \in Nat /\ Len(L) \in Nat /\ Len(L) \in LineLens
    <2>1. L \in Seq(Byte) /\ Len(L) \in LineLens
      BY <1>4 DEF Ahead
    <2>2. readp[c] \in Nat
      BY SlotTypes
    <2> QED
      BY <2>1, <2>2
  <1>6. CASE readp[c] + n > Len(L)
    <2>1. WholeLine(c, n, L)
      BY <1>1, <1>4, <1>6, ReadsWhole
    <2>2. ReaderInv'
      BY <1>1, <1>2, <1>3, <1>4, <1>6, <2>1, WholeKeeps
    <2>3. ASSUME 0 \notin LineLens PROVE UNCHANGED peer
      <3>1. Result(c, n).ret # 0
        BY <1>5, <2>1, <2>3 DEF WholeLine
      <3> QED
        BY <1>1, <3>1 DEF Serve, Result, AfterRead
    <2> QED
      BY <2>2, <2>3
  <1>7. CASE ~ (readp[c] + n > Len(L))
    <2>1. readp[c] + n <= Len(L)
      BY <1>5, <1>7
    <2>2. PartLine(c, n)
      BY <1>1, <1>4, <2>1, ReadsPart
    <2> QED
      BY <1>1, <1>2, <1>3, <2>2, PartKeeps
  <1> QED
    BY <1>6, <1>7

LEMMA ReadNothingKeeps ==
    ASSUME ReaderInv, NEW c \in Clients, ReadNothing(c)
    PROVE  ReaderInv' /\ peer[c] # "open"
  BY CloseKeeps, ZeroedBuffer DEF ReadNothing

\* A connection that was reset loses what was pending, and nothing follows.
LEMMA ReadErrorKeeps ==
    ASSUME ReaderInv, NEW c \in Clients, ReadError(c)
    PROVE  ReaderInv' /\ peer[c] # "open"
  <1>0. /\ sent[c] \in Seq(Seq(Byte)) /\ got[c] \in Seq(Seq(Byte)) /\ wire[c] = <<>>
        /\ wire[c] \in Seq(Byte) /\ before[c] \in 0 .. MaxLines /\ SlotFine(c)
        /\ peer[c] = "rst"
    BY SlotTypes DEF ReadError
  <1>1. Becomes(c, "fin", wire[c], Zeroed, 0, sent[c], got[c], before[c])
    BY Unchanged DEF Becomes, ReadError
  <1>2. /\ peer'[c] = "fin" /\ wire'[c] = <<>> /\ readbuf'[c] = Zeroed /\ readp'[c] = 0
        /\ sent'[c] = sent[c] /\ got'[c] = got[c] /\ before'[c] = before[c]
    BY <1>0, <1>1, StepGives
  <1>3. SlotFine(c)'
    <2>1. Len(wire'[c]) + readp'[c] <= Window
      BY <1>2, WindowBound
    <2>2. OwnLines(c)' /\ before'[c] + Len(sent'[c]) <= MaxLines
      BY <1>0, <1>2 DEF SlotFine, OwnLines
    <2>3. Begins(got'[c], sent'[c])
      BY <1>0, <1>2 DEF SlotFine
    <2> QED
      BY <1>2, <2>1, <2>2, <2>3, ZeroedBuffer DEF SlotFine
  <1>4. linebuf' \in Buffer
    <2>1. linebuf \in Buffer /\ linebuf' = Copy(linebuf, 0, <<Junk, LF, NUL>>, 3)
      BY DEF ReadError, ReaderInv, ReaderTypeOK, Buffer
    <2>2. 3 <= Cap
      OBVIOUS
    <2> QED
      BY <2>1, <2>2, CopyFront, ByteFacts
  <1>5. Zeroed \in Buffer /\ 0 \in 0 .. Cap
    BY ZeroedBuffer, WindowBound
  <1> QED
    BY <1>0, <1>1, <1>3, <1>4, <1>5, StepKeeps

\* A new connection has sent nothing and finds a clean buffer.
LEMMA ConnectKeeps ==
    ASSUME ReaderInv, NEW c \in Clients, Connect(c)
    PROVE  ReaderInv' /\ peer[c] # "open"
  <1>0. /\ sent[c] \in Seq(Seq(Byte)) /\ before[c] \in 0 .. MaxLines /\ SlotFine(c)
        /\ wire[c] \in Seq(Byte) /\ readbuf[c] \in Buffer /\ readp[c] \in 0 .. Cap
        /\ peer[c] = "closed" /\ Len(sent[c]) \in Nat
    BY SlotTypes DEF Connect
  <1>1. Becomes(c, "open", wire[c], readbuf[c], readp[c], <<>>, <<>>, before[c] + Len(sent[c]))
    BY Unchanged DEF Becomes, Connect, buffers
  <1>2. wire[c] = <<>> /\ readp[c] = 0 /\ readbuf[c] = Zeroed
        /\ before[c] + Len(sent[c]) <= MaxLines
    BY <1>0 DEF SlotFine
  <1>3. /\ peer'[c] = "open" /\ wire'[c] = <<>> /\ readbuf'[c] = Zeroed /\ readp'[c] = 0
        /\ sent'[c] = <<>> /\ got'[c] = <<>> /\ before'[c] = before[c] + Len(sent[c])
    BY <1>1, <1>2, StepGives
  <1>4. SlotFine(c)'
    <2>1. Len(wire'[c]) + readp'[c] <= Window
      BY <1>3, WindowBound
    <2>2. OwnLines(c)' /\ before'[c] + Len(sent'[c]) <= MaxLines
      BY <1>0, <1>2, <1>3 DEF OwnLines
    <2>3. Begins(got'[c], sent'[c])
      BY <1>3 DEF Begins
    <2>4. Pending(c)' = <<>>
      <3>1. SubSeq(Zeroed, 1, 0) = <<>>
        BY SubSeqEmpty
      <3>2. Pending(c)' = SubSeq(Zeroed, 1, 0) \o <<>>
        BY <1>3 DEF Pending
      <3> QED
        BY <3>1, <3>2
    <2>5. Missing(c)' = <<>>
      <3>1. SubSeq(<<>>, Len(<<>>) + 1, Len(<<>>)) = <<>>
        OBVIOUS
      <3> QED
        BY <1>3, <3>1 DEF Missing
    <2>6. Flows(c)'
      <3>1. Bytes(Missing(c))' = <<>> /\ Bytes(got[c])' = <<>> /\ Bytes(sent[c])' = <<>>
        BY <1>3, <2>5, BytesEmpty
      <3>2. <<>> \o <<>> = <<>>
        OBVIOUS
      <3> QED
        BY <2>4, <3>1, <3>2 DEF Flows
    <2> QED
      BY <1>3, <2>1, <2>2, <2>3, <2>6, ZeroedBuffer DEF SlotFine
  <1>5. linebuf' \in Buffer
    BY DEF Connect, buffers, ReaderInv, ReaderTypeOK, Buffer
  <1>6. <<>> \in Seq(Seq(Byte)) /\ before[c] + Len(sent[c]) \in 0 .. MaxLines
    BY <1>0, <1>2
  <1> QED
    BY <1>0, <1>1, <1>4, <1>5, <1>6, StepKeeps

LEMMA DisconnectKeeps ==
    ASSUME ReaderInv, NEW c \in Clients, Disconnect(c)
    PROVE  ReaderInv' /\ peer'[c] # "closed"
  <1>0. /\ sent[c] \in Seq(Seq(Byte)) /\ got[c] \in Seq(Seq(Byte))
        /\ wire[c] \in Seq(Byte) /\ readbuf[c] \in Buffer /\ readp[c] \in 0 .. Cap
        /\ before[c] \in 0 .. MaxLines /\ SlotFine(c) /\ peer[c] = "open"
    BY SlotTypes DEF Disconnect
  <1>1. PICK how \in {"fin", "rst"} : peer' = [peer EXCEPT ![c] = how]
    BY DEF Disconnect
  <1>2. Becomes(c, how, wire[c], readbuf[c], readp[c], sent[c], got[c], before[c])
    BY <1>1, Unchanged DEF Becomes, Disconnect, buffers
  <1>3. /\ peer'[c] = how /\ wire'[c] = wire[c] /\ readbuf'[c] = readbuf[c]
        /\ readp'[c] = readp[c] /\ sent'[c] = sent[c] /\ got'[c] = got[c]
        /\ before'[c] = before[c]
    BY <1>2, StepGives
  <1>4. SlotFine(c)'
    <2>1. OwnLines(c)' /\ before'[c] + Len(sent'[c]) <= MaxLines
      BY <1>0, <1>3 DEF SlotFine, OwnLines
    <2>2. Begins(got'[c], sent'[c]) /\ Flows(c)
      BY <1>0, <1>3 DEF SlotFine
    <2>3. Flows(c)'
      BY <1>3, <2>2 DEF Flows, Pending, Missing
    <2> QED
      BY <1>0, <1>3, <2>1, <2>2, <2>3 DEF SlotFine
  <1>5. linebuf' \in Buffer
    BY DEF Disconnect, buffers, ReaderInv, ReaderTypeOK, Buffer
  <1>6. how \in {"closed", "open", "fin", "rst"} /\ how # "closed"
    OBVIOUS
  <1> QED
    BY <1>0, <1>2, <1>3, <1>4, <1>5, <1>6, StepKeeps

\* A line that is sent goes behind all that is pending.
LEMMA SendKeeps ==
    ASSUME ReaderInv, NEW c \in Clients, Send(c)
    PROVE  ReaderInv' /\ peer'[c] = peer[c]
  <1>0. /\ sent[c] \in Seq(Seq(Byte)) /\ got[c] \in Seq(Seq(Byte))
        /\ wire[c] \in Seq(Byte) /\ readbuf[c] \in Buffer /\ readp[c] \in 0 .. Cap
        /\ before[c] \in 0 .. MaxLines /\ SlotFine(c) /\ peer[c] = "open"
        /\ Len(sent[c]) \in Nat /\ Len(got[c]) \in Nat
    BY SlotTypes DEF Send
  <1> DEFINE n == before[c] + Len(sent[c]) + 1
  <1>1. n \in 1 .. MaxLines /\ n = before[c] + (Len(sent[c]) + 1)
    <2>1. n <= MaxLines
      BY DEF Send
    <2> QED
      BY <1>0, <2>1
  <1>2. PICK l \in LineLens :
             /\ Len(wire[c]) + readp[c] + l + 1 <= Window
             /\ sent' = [sent EXCEPT ![c] = Append(sent[c], Line(c, n, l))]
             /\ wire' = [wire EXCEPT ![c] = wire[c] \o Append(Line(c, n, l), LF)]
    BY DEF Send
  <1> DEFINE x == Line(c, n, l)
             F == Append(x, LF)
             s == Append(sent[c], x)
             w == wire[c] \o F
  <1>3. l \in Nat
    OBVIOUS
  <1>4. x \in Seq(Byte) /\ Len(x) = l /\ \A i \in 1 .. Len(x) : x[i] = <<c, n>>
    <2>1. <<c, n>> \in Byte
      BY <1>1, ByteFacts
    <2> HIDE DEF n
    <2> QED
      BY <1>3, <2>1 DEF Line
  <1> HIDE DEF n, x
  <1>5. F \in Seq(Byte) /\ Len(F) = l + 1
    BY <1>4, ByteFacts, AppendProperties
  <1>6. /\ s \in Seq(Seq(Byte)) /\ Len(s) = Len(sent[c]) + 1 /\ s[Len(sent[c]) + 1] = x
        /\ \A i \in 1 .. Len(sent[c]) : s[i] = sent[c][i]
    <2>1. sent[c] \in Seq(Seq(Byte)) /\ x \in Seq(Byte)
      BY <1>0, <1>4
    <2> QED
      BY <2>1, AppendProperties
  <1>7. w \in Seq(Byte) /\ Len(w) = Len(wire[c]) + (l + 1)
    <2>1. wire[c] \in Seq(Byte) /\ F \in Seq(Byte)
      BY <1>0, <1>5
    <2> HIDE DEF F
    <2>2. w \in Seq(Byte) /\ Len(w) = Len(wire[c]) + Len(F)
      BY <2>1, ConcatProperties
    <2> QED
      BY <1>5, <2>2
  <1>8. Becomes(c, peer[c], w, readbuf[c], readp[c], s, got[c], before[c])
    BY <1>2, Unchanged DEF Becomes, Send, buffers, x
  <1> HIDE DEF F, s, w
  <1>9. /\ peer'[c] = peer[c] /\ wire'[c] = w /\ readbuf'[c] = readbuf[c]
        /\ readp'[c] = readp[c] /\ sent'[c] = s /\ got'[c] = got[c] /\ before'[c] = before[c]
    BY <1>8, StepGives
  <1>10. SlotFine(c)'
    <2>1. Len(wire'[c]) + readp'[c] <= Window
      <3>1. Len(wire[c]) \in Nat
        BY <1>0
      <3>2. Len(wire'[c]) = Len(wire[c]) + (l + 1) /\ readp'[c] = readp[c]
        BY <1>7, <1>9
      <3>3. Len(wire[c]) + readp[c] + l + 1 <= Window /\ readp[c] \in Nat
        BY <1>0, <1>2
      <3> QED
        <4>1. (Len(wire[c]) + (l + 1)) + readp[c] <= Window
          <5>1. Len(wire[c]) \in Int /\ readp[c] \in Int /\ l \in Int /\ Window \in Int
            BY <1>3, <3>1, <3>3, WindowBound
          <5>2. Len(wire[c]) + readp[c] + l + 1 = (Len(wire[c]) + (l + 1)) + readp[c]
            <6> DEFINE x1 == Len(wire[c])
                       p1 == readp[c]
            <6>1. x1 \in Int /\ p1 \in Int /\ l \in Int
              BY <5>1
            <6> HIDE DEF x1, p1
            <6>2. x1 + p1 + l + 1 = (x1 + (l + 1)) + p1
              BY <6>1, Sums
            <6> QED
              BY <6>2 DEF x1, p1
          <5> QED
            BY <3>3, <5>2
        <4> QED
          BY <3>2, <4>1
    <2>2. before'[c] + Len(sent'[c]) <= MaxLines
      BY <1>0, <1>1, <1>6, <1>9
    <2>3. OwnLines(c)'
      <3>1. ASSUME NEW i \in 1 .. Len(s)
            PROVE  /\ Len(s[i]) \in LineLens
                   /\ \A j \in 1 .. Len(s[i]) : s[i][j] = <<c, before[c] + i>>
        <4>1. CASE i = Len(sent[c]) + 1
          BY <1>1, <1>4, <1>6, <4>1
        <4>2. CASE i # Len(sent[c]) + 1
          <5>1. i \in 1 .. Len(sent[c])
            <6>1. Len(sent[c]) \in Nat /\ i \in 1 .. Len(sent[c]) + 1
              BY <1>0, <1>6
            <6> QED
              BY <4>2, <6>1
          <5> QED
            BY <1>0, <1>6, <5>1 DEF SlotFine, OwnLines
        <4> QED
          BY <4>1, <4>2
      <3> QED
        BY <1>9, <3>1 DEF OwnLines
    <2>4. Begins(got[c], sent[c]) /\ Flows(c)
      BY <1>0 DEF SlotFine
    <2>5. Begins(got'[c], sent'[c])
      <3>1. Len(got[c]) <= Len(s)
        BY <1>0, <1>6, <2>4 DEF Begins
      <3>2. ASSUME NEW i \in 1 .. Len(got[c]) PROVE got[c][i] = s[i]
        <4>1. i \in 1 .. Len(sent[c])
          BY <1>0, <2>4 DEF Begins
        <4> QED
          BY <1>6, <2>4, <4>1 DEF Begins
      <3> QED
        BY <1>9, <3>1, <3>2 DEF Begins
    <2>6. Pending(c)' = Pending(c) \o F
      <3> DEFINE A == SubSeq(readbuf[c], 1, readp[c])
      <3>1. A \in Seq(Byte)
        <4>1. \A i \in 1 .. readp[c] : readbuf[c][i] \in Byte
          BY <1>0 DEF Buffer, Idx
        <4> QED
          BY <1>0, <4>1, SubSeqProperties
      <3>2. Pending(c)' = A \o (wire[c] \o F)
        BY <1>9 DEF Pending, w
      <3>3. Pending(c) = A \o wire[c]
        BY DEF Pending
      <3> DEFINE v == wire[c]
      <3>4. v \in Seq(Byte)
        BY <1>0
      <3> HIDE DEF A, v
      <3>5. (A \o v) \o F = A \o (v \o F)
        BY <1>5, <3>1, <3>4, ConcatAssociative
      <3> QED
        BY <3>2, <3>3, <3>5 DEF v
    <2>7. Missing(c)' = Append(Missing(c), x) /\ Missing(c) \in Seq(Seq(Byte))
      <3> DEFINE k == Len(got[c]) + 1
                 q == Len(sent[c])
      <3>1. k \in 1 .. q + 1 /\ q \in Nat
        BY <1>0, <2>4 DEF Begins
      <3>2. Missing(c)' = SubSeq(s, k, q + 1)
        BY <1>6, <1>9 DEF Missing
      <3>3. Missing(c) = SubSeq(sent[c], k, q)
        BY DEF Missing
      <3>4. SubSeq(sent[c], k, q) \in Seq(Seq(Byte))
        <4>1. \A i \in k .. q : sent[c][i] \in Seq(Byte)
          BY <1>0, <3>1
        <4> HIDE DEF k, q
        <4> QED
          BY <3>1, <4>1, SubSeqProperties
      <3> HIDE DEF k, q
      <3>5. SubSeq(s, k, q + 1) = SubSeq(s, k, (q + 1) - 1) \o <<s[q + 1]>>
        <4>1. k \in 1 .. Len(s) /\ q + 1 \in k .. Len(s)
          BY <1>6, <3>1 DEF q
        <4> QED
          BY <1>6, <4>1, SubSeqRecursiveSecond
      <3>6. SubSeq(s, k, (q + 1) - 1) = SubSeq(sent[c], k, q)
        <4>1. (q + 1) - 1 = q
          BY <3>1
        <4>2. \A i \in 1 .. q : s[i] = sent[c][i]
          BY <1>6 DEF q
        <4>3. SubSeq(s, k, q) = SubSeq(sent[c], k, q)
          BY <3>1, <4>2
        <4> QED
          BY <4>1, <4>3
      <3>7. s[q + 1] = x
        BY <1>6 DEF q
      <3>8. Append(Missing(c), x) = Missing(c) \o <<x>>
        BY <1>4, <3>3, <3>4, AppendIsConcat
      <3> QED
        BY <3>2, <3>3, <3>4, <3>5, <3>6, <3>7, <3>8
    <2>8. Flows(c)'
      <3>1. Bytes(Append(Missing(c), x)) = Bytes(Missing(c)) \o F
        BY <1>4, <2>7, BytesAppend, ByteFacts DEF F
      <3>2. Bytes(s) = Bytes(sent[c]) \o F
        BY <1>0, <1>4, BytesAppend, ByteFacts DEF F, s
      <3>3. Pending(c)' = Bytes(Missing(c)')
        BY <2>4, <2>6, <2>7, <3>1 DEF Flows
      <3> DEFINE G == Bytes(got[c])
                 P == Pending(c)
      <3>4. G \in Seq(Byte) /\ P \in Seq(Byte)
        BY <1>0, BytesType, ByteFacts, PendingType
      <3>5. Bytes(sent[c]) = G \o P
        BY <2>4 DEF Flows
      <3> HIDE DEF G, P
      <3>6. (G \o P) \o F = G \o (P \o F)
        BY <1>5, <3>4, ConcatAssociative
      <3>7. G \o (P \o F) = Bytes(s)
        BY <3>2, <3>5, <3>6
      <3>8. Bytes(got[c])' = G /\ Bytes(sent[c])' = Bytes(s) /\ Pending(c)' = P \o F
        BY <1>9, <2>6 DEF G, P
      <3>9. Bytes(Missing(c))' = Bytes(Missing(c)')
        OBVIOUS
      <3> QED
        BY <3>3, <3>7, <3>8, <3>9 DEF Flows
    <2> QED
      BY <1>0, <1>9, <2>1, <2>2, <2>3, <2>5, <2>8 DEF SlotFine
  <1>11. linebuf' \in Buffer
    BY DEF Send, buffers, ReaderInv, ReaderTypeOK, Buffer
  <1>12. ReaderInv'
    <2>1. s \in Seq(Seq(Byte)) /\ w \in Seq(Byte) /\ peer[c] \in {"closed", "open", "fin", "rst"}
      BY <1>0, <1>6, <1>7
    <2> QED
      BY <1>0, <1>8, <1>10, <1>11, <2>1, StepKeeps
  <1> QED
    BY <1>9, <1>12

-------------------------------------------------------------------------------
(* The theorems                                                            *)

LEMMA InitReads == ReaderInit => ReaderInv
  <1> SUFFICES ASSUME ReaderInit PROVE ReaderInv
    OBVIOUS
  <1>1. ReaderTypeOK
    <2>1. \A x \in {LF, NUL, Junk} : Filled(x) \in [Idx -> Byte]
      BY ByteFacts DEF Filled
    <2>2. linebuf \in [Idx -> Byte] /\ Zeroed \in [Idx -> Byte]
      BY <2>1 DEF ReaderInit, Zeroed
    <2> QED
      BY <2>2 DEF ReaderInit, ReaderTypeOK
  <1>2. ASSUME NEW c \in Clients PROVE SlotFine(c)
    <2>1. /\ peer[c] = "closed" /\ wire[c] = <<>> /\ readbuf[c] = Zeroed /\ readp[c] = 0
          /\ sent[c] = <<>> /\ before[c] = 0
      BY DEF ReaderInit
    <2> QED
      BY <2>1, ZeroedBuffer, WindowBound DEF SlotFine, OwnLines
  <1> QED
    BY <1>1, <1>2 DEF ReaderInv

LEMMA ClientKeeps ==
    ASSUME Splittable \subseteq {1}, ReaderInv, NEW c \in Clients,
           ServerStep(c) \/ Connect(c) \/ Send(c) \/ Disconnect(c)
    PROVE  ReaderInv'
  BY ReadDataKeeps, ReadNothingKeeps, ReadErrorKeeps, ConnectKeeps, SendKeeps, DisconnectKeeps
  DEF ServerStep

LEMMA StutterKeeps ==
    ASSUME ReaderInv, UNCHANGED readerVars
    PROVE  ReaderInv'
  <1>1. ReaderTypeOK'
    BY DEF ReaderInv, ReaderTypeOK, readerVars
  <1>2. ASSUME NEW c \in Clients PROVE SlotFine(c)'
    BY SlotUntouched DEF ReaderInv, readerVars
  <1> QED
    BY <1>1, <1>2 DEF ReaderInv

LEMMA NextReads ==
    ASSUME Splittable \subseteq {1}
    PROVE  ReaderInv /\ [ReaderNext]_readerVars => ReaderInv'
  BY ClientKeeps, StutterKeeps DEF ReaderNext

\* The invariant holds for any number of clients, sessions and lines, of any
\* lengths, as long as reads cut the stream only inside the first line of a
\* connection.  (Of later lines in pieces PartialNeverExecuted has the
\* counterexample.)
THEOREM ReaderInvariant ==
    ASSUME Splittable \subseteq {1}
    PROVE  ReaderSpec => []ReaderInv
  BY InitReads, NextReads, PTL DEF ReaderSpec

\* What dispatch() is handed for a connection is what that connection sent, line
\* for line, whatever the shared linebuf and the re-used slots hold.
THEOREM LinesStayInOrder ==
    ASSUME Splittable \subseteq {1}
    PROVE  ReaderSpec => []LinesInOrder
  <1>1. ReaderInv => LinesInOrder
    <2> SUFFICES ASSUME ReaderInv, NEW c \in Clients, peer[c] # "closed"
                 PROVE  IsPrefix(got[c], sent[c])
      BY DEF LinesInOrder
    <2>1. got[c] \in Seq(Seq(Byte)) /\ sent[c] \in Seq(Seq(Byte)) /\ SlotFine(c)
      BY SlotTypes
    <2>2. Begins(got[c], sent[c])
      BY <2>1 DEF SlotFine
    <2>3. SubSeq(got[c], 1, Len(got[c])) = SubSeq(sent[c], 1, Len(got[c]))
      BY <2>1, <2>2 DEF Begins
    <2> QED
      BY <2>2, <2>3 DEF IsPrefix, Begins
  <1> QED
    BY <1>1, ReaderInvariant, PTL

\* No byte of an open connection is lost, doubled or moved: executed, in readbuf
\* and on the wire, in that order, are all the bytes that were sent.
THEOREM BytesStayConserved ==
    ASSUME Splittable \subseteq {1}
    PROVE  ReaderSpec => []BytesConserved
  <1>1. ReaderInv => BytesConserved
    <2> SUFFICES ASSUME ReaderInv PROVE BytesConserved
      OBVIOUS
    <2>1. ReaderTypeOK
      BY DEF ReaderInv
    <2>2. ASSUME NEW c \in Clients, peer[c] \in {"open", "rst"}
          PROVE  Bytes(got[c]) \o SubSeq(readbuf[c], 1, readp[c]) \o wire[c] = Bytes(sent[c])
      <3>1. Flows(c)
        BY <2>2, SlotTypes DEF SlotFine
      <3> DEFINE G == Bytes(got[c])
                 A == SubSeq(readbuf[c], 1, readp[c])
                 w == wire[c]
      <3>2. G \in Seq(Byte) /\ w \in Seq(Byte)
        BY SlotTypes, BytesType, ByteFacts
      <3>3. A \in Seq(Byte)
        <4>1. readp[c] \in 0 .. Cap /\ readbuf[c] \in Buffer
          BY SlotTypes
        <4>2. \A i \in 1 .. readp[c] : readbuf[c][i] \in Byte
          BY <4>1 DEF Buffer, Idx
        <4> QED
          BY <4>1, <4>2, SubSeqProperties
      <3>4. G \o (A \o w) = Bytes(sent[c])
        BY <3>1 DEF Flows, Pending
      <3> HIDE DEF G, A, w
      <3>5. (G \o A) \o w = G \o (A \o w)
        BY <3>2, <3>3, ConcatAssociative
      <3>6. (G \o A) \o w = Bytes(sent[c])
        BY <3>4, <3>5
      <3> QED
        BY <3>6 DEF G, A, w
    <2> QED
      BY <2>1, <2>2 DEF BytesConserved
  <1> QED
    BY <1>1, ReaderInvariant, PTL

\* Where no client sends an empty line, the server closes no connection whose peer
\* is still there.
THEOREM ClosedAfterPeer ==
    ASSUME Splittable \subseteq {1}, 0 \notin LineLens
    PROVE  ReaderSpec => ClosesOnlyAfterPeer
  <1>1. ReaderInv /\ [ReaderNext]_readerVars
            => [\A c \in Clients : peer[c] = "open" => peer'[c] # "closed"]_readerVars
    <2> SUFFICES ASSUME ReaderInv, ReaderNext, NEW c \in Clients, peer[c] = "open"
                 PROVE  peer'[c] # "closed"
      OBVIOUS
    <2>1. PICK d \in Clients : ServerStep(d) \/ Connect(d) \/ Send(d) \/ Disconnect(d)
      BY DEF ReaderNext
    <2>2. CASE d # c
      <3>1. peer'[c] = peer[c]
        BY <2>1, <2>2 DEF ServerStep, ReadData, ReadNothing, ReadError, Serve, CloseSlot,
                          Connect, Send, Disconnect, ReaderInv, ReaderTypeOK
      <3> QED
        BY <3>1
    <2>3. CASE d = c
      BY <2>1, <2>3, ReadDataKeeps, ReadNothingKeeps, ReadErrorKeeps, ConnectKeeps,
         SendKeeps, DisconnectKeeps DEF ServerStep
    <2> QED
      BY <2>2, <2>3
  <1>2. QED
    BY <1>1, ReaderInvariant, PTL DEF ReaderSpec, ClosesOnlyAfterPeer
=============================================================================
