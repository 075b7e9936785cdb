---------------------------- MODULE MCConnServer ----------------------------
(* The instance of ConnServer that TLC checks. *)
EXTENDS ConnServer

CONSTANTS c1, c2, c3

ThreeConns == {c1, c2, c3}
=============================================================================
