----------------------------- MODULE MCIfControl -----------------------------
(* The instance of IfControl that TLC checks. *)
EXTENDS IfControl
=============================================================================
