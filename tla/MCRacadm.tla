------------------------------ MODULE MCRacadm ------------------------------
(***************************************************************************)
(* Racadm on small instances: the tasks are model values given in the .cfg.*)
(***************************************************************************)
EXTENDS Racadm

CONSTANTS t1, t2

MCTwo == {t1, t2}
=============================================================================
