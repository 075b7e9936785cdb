------------------------------ MODULE MCProcMan ------------------------------
(* The instance of ProcMan that TLC checks. *)
EXTENDS ProcMan

CONSTANTS vaned, ibob

TwoPrograms == <<vaned, ibob>>
=============================================================================
