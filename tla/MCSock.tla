------------------------------- MODULE MCSock -------------------------------
(* The instance of Sock that TLC checks. *)
EXTENDS Sock, TLC

CONSTANTS a, b, x, y

TwoNamed == {a, b}
TwoNameless == {x, y}

\* Two mailboxes talk to each other; a nameless program to a mailbox, which
\* replies; two nameless programs to a mailbox.
ThreeCasts == {a :> 2 @@ b :> 1, b :> 1 @@ x :> 1, b :> 0 @@ x :> 1 @@ y :> 1}
=============================================================================
