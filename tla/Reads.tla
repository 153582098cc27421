------------------------------- MODULE Reads -------------------------------
(***************************************************************************)
(* What a read of another service returns.                                 *)
(***************************************************************************)
CONSTANTS
  None,    \* what was asked for does not exist
  Failed,  \* the read failed
  Unread   \* the read was not made

Answered(x) == x \notin {Failed, Unread}
Found(x) == Answered(x) /\ x # None
=============================================================================
