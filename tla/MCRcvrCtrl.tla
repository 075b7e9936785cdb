----------------------------- MODULE MCRcvrCtrl -----------------------------
(* The instance of RcvrCtrl that TLC checks. *)
EXTENDS RcvrCtrl

Move5(m) == [cmd |-> "move", motor |-> m, goal |-> 5]
Move3(m) == [cmd |-> "move", motor |-> m, goal |-> 3]
BumpTo(m, d) == [cmd |-> "bump", motor |-> m, dir |-> d]
Dac(c, v) == [cmd |-> "dac", ch |-> c, value |-> v]

SomeFrames ==
    {Dac(0, 3), Dac(4, 1), [cmd |-> "ttl", mask |-> {0}],
     [cmd |-> "monitor", key |-> FALSE, mask |-> 0],
     [cmd |-> "monitor", key |-> TRUE, mask |-> 0],
     Move5(A), Move3(A), BumpTo(A, 0), BumpTo(B, 1), BumpTo(C, 2)}

SomeLines ==
    {[cmd |-> "dcdc", line |-> 1, chip |-> c, on |-> TRUE] : c \in {1, 2}}
      \cup {[cmd |-> "dcdc", line |-> 0, chip |-> 1, on |-> FALSE],
            Dac(2, 1), Move3(A), Move5(B), Move5(C), BumpTo(A, 1)}
=============================================================================
