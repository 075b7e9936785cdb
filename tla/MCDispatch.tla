----------------------------- MODULE MCDispatch -----------------------------
(* The instances of Dispatch that TLC checks: commands of Commands.h in      *)
(* small, runSweep-like (sweep), doCal-like (cal) and quit.                  *)
EXTENDS Dispatch, TLC

Plain(tl, d, l) ==
    [tail |-> tl, dashed |-> d, short |-> FALSE, num |-> None, long |-> l]
Num(sh, n, l) ==
    [tail |-> "", dashed |-> FALSE, short |-> sh, num |-> n, long |-> l]

AllVerbs == {"sweep", "cal", "quit"}
AllWords == {"--dac", "--power", "dac", "2", "1e1", "nan"}

Seen ==
    [w \in AllVerbs |-> Plain("", FALSE, 0)] @@
    [w \in {"--dac"} |-> Plain("dac", TRUE, 0)] @@
    [w \in {"--power"} |-> Plain("power", TRUE, 0)] @@
    [w \in {"dac"} |-> Plain("c", FALSE, 0)] @@
    [w \in {"2"} |-> Num(TRUE, 2, 2)] @@
    [w \in {"1e1"} |-> Num(FALSE, 10, 1)] @@
    [w \in {"nan"} |-> Num(FALSE, NaN, 0)]
AllSeen == [w \in AllVerbs \cup AllWords |-> Seen[w]]

Arg(n, r, lo, hi) == [name |-> n, req |-> r, numeric |-> TRUE, lo |-> lo, hi |-> hi]

Table ==
    [sweep |-> [args |-> <<Arg("dac", TRUE, 0, 24), Arg("power", FALSE, 0, 2)>>,
                reads |-> {2, 4}, conv |-> "strtol"],
     cal   |-> [args |-> <<Arg("dac", TRUE, 2, 2)>>, reads |-> {2}, conv |-> "strtod"],
     quit  |-> [args |-> <<>>, reads |-> {}, conv |-> "strtol"]]
=============================================================================
