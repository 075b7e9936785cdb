----------------------------- MODULE MCReceiver -----------------------------
(* The instance of Receiver that TLC checks. *)
EXTENDS Receiver

Bias(v) == [cmd |-> "setbias", value |-> v]

SomeCommands ==
    {[cmd |-> "cal", state |-> 1],
     [cmd |-> "setLband",
      plan |-> [band |-> 1, n |-> 8, m |-> 9, freq |-> 1200000]],
     [cmd |-> "setfreq", freq |-> 150000],
     Bias(0), Bias(5), [cmd |-> "setLNAgate", value |-> 3], [cmd |-> "sweep"]}
=============================================================================
