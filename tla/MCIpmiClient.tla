---------------------------- MODULE MCIpmiClient ----------------------------
(***************************************************************************)
(* IpmiClient on small instances: the tasks are model values given in the  *)
(* .cfg.                                                                   *)
(***************************************************************************)
EXTENDS IpmiClient

CONSTANTS t1, t2

MCTwo == {t1, t2}
=============================================================================
