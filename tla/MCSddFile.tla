------------------------------ MODULE MCSddFile ------------------------------
(* The instances of SddFile that TLC checks. *)
EXTENDS SddFile
=============================================================================
