---------------------------- MODULE MCLineReader ----------------------------
(* The instance of LineReader that TLC checks. *)
EXTENDS LineReader

CONSTANTS a, b

OneLockStep == {a}
WholeLens == {1, 2}
BlankLens == {0, 1}
FirstLine == {1}
AnyLine == 1 .. MaxLines
=============================================================================
