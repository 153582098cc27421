-------------------------- MODULE MCReleaseRequests --------------------------
(***************************************************************************)
(* ReleaseRequests for TLC.                                                *)
(***************************************************************************)
EXTENDS ReleaseRequests, TLC

\* Calls, and ids, are interchangeable.
Symmetry == Permutations(Call) \cup Permutations(Id)
=============================================================================
