--------------------------- MODULE MCReleaseRecords ---------------------------
(***************************************************************************)
(* ReleaseRecords for TLC.  Requests are interchangeable, and all          *)
(* properties are safety properties: the symmetry is sound.                *)
(***************************************************************************)
EXTENDS ReleaseRecords, TLC

RequestSymmetry == Permutations(Request)
=============================================================================
