----------------------------- MODULE Observation -----------------------------
(***************************************************************************)
(* What the spectrometer promises the catcher, by the messages it sends:   *)
(* "done <command>" and spectra.  A spectrum carries the tag of the last   *)
(* command done, holds data taken with the load that command put in, and   *)
(* the same number of packets of each kind; none comes after "done stop"   *)
(* until a command that starts the data again is done.                     *)
(*                                                                         *)
(* The promise has three exceptions, which a spectrum of the model carries *)
(* though the message does not: somebody else moved the load (moved), a    *)
(* packet was lost while it was summed (lost), or it is fake.              *)
(***************************************************************************)
EXTENDS Integers

CONSTANTS
    Labels,       \* the kinds of packets of one integration, 0 .. Labels - 1
    Integration,  \* the integrations summed into one spectrum
    Sky, Hot,     \* the tags, also the load's two positions
    Nothing       \* no message yet

VARIABLES
    heard,   \* the last message
    tag,     \* the tag promised
    load,    \* the load promised
    zero,    \* 0 between "done zero_in" and "done zero_out": no signal
    silent   \* "done stop" was the last word

vars == <<heard, tag, load, zero, silent>>

Init ==
    /\ heard = Nothing /\ tag = Sky /\ zero = 1 /\ silent = TRUE
    /\ load \in {Sky, Hot}

TagAfter(c) ==
    CASE c \in {"sky", "zero_out"} -> Sky
      [] c \in {"hot", "zero_in"} -> Hot
      [] OTHER -> tag

LoadAfter(c) == CASE c = "sky" -> Sky [] c = "hot" -> Hot [] OTHER -> load

Done(c) ==
    /\ heard' = [done |-> c]
    /\ tag' = TagAfter(c)
    /\ load' = LoadAfter(c)
    /\ zero' = CASE c = "zero_in" -> 0 [] c = "zero_out" -> 1 [] OTHER -> zero
    /\ silent' = (c = "stop" \/ (c = "shutdown" /\ silent))

Spectrum ==
    /\ ~ silent
    /\ heard' \in
          [tag : {tag}, sums : [0 .. Labels - 1 -> 0 .. Labels * Integration],
           loads : SUBSET {Sky, Hot}, fake : 0 .. 3, zero : {zero},
           moved : BOOLEAN, lost : BOOLEAN]
    /\ (heard'.fake = 0 /\ ~ heard'.lost) =>
           heard'.sums = [l \in 0 .. Labels - 1 |-> Integration]
    /\ (heard'.fake = 0 /\ ~ heard'.moved) => heard'.loads \subseteq {load}
    /\ UNCHANGED <<tag, load, zero, silent>>

\* The commands that are answered.
Answered == {"sky", "hot", "zero_in", "zero_out", "cold", "config", "start",
             "stop", "shutdown"}

Next == Spectrum \/ \E c \in Answered : Done(c)

Spec == Init /\ [][Next]_vars
=============================================================================
