---------------------------- MODULE MCSolSession ----------------------------
(***************************************************************************)
(* SolSession with two senders, model values given in the .cfg, and a      *)
(* queue that three chunks overflow.                                       *)
(***************************************************************************)
EXTENDS SolSession

CONSTANTS s1, s2

MCSenders == {s1, s2}
=============================================================================
