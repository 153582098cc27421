--------------------------- MODULE MCBuildTracking ---------------------------
(***************************************************************************)
(* BuildTracking for TLC.  After a failed save a goroutine's record has no *)
(* id: its next save takes a spare id and keeps it, unless that save drops *)
(* its result, and then the notification's save takes another.  2 spare    *)
(* ids per store fault therefore suffice.                                  *)
(***************************************************************************)
EXTENDS BuildTracking, TLC

\* Jobs, and spare ids, are interchangeable (not for liveness).
Symmetry == Permutations(Job) \cup Permutations(SpareId)
=============================================================================
