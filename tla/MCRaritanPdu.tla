---------------------------- MODULE MCRaritanPdu ----------------------------
(***************************************************************************)
(* RaritanPdu with two outlets and two names, so that a name may be that   *)
(* of both outlets or of none.                                             *)
(***************************************************************************)
EXTENDS RaritanPdu, TLC

CONSTANTS t1, t2, n1, n2

MCTasks == {t1, t2}
MCNames == {n1, n2}
Symmetry == Permutations(MCTasks) \cup Permutations(MCNames)
=============================================================================
