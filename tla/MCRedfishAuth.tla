---------------------------- MODULE MCRedfishAuth ----------------------------
(***************************************************************************)
(* RedfishAuth on small instances: the tasks are model values given in the *)
(* .cfg; the first of them is the one that may close the client.           *)
(***************************************************************************)
EXTENDS RedfishAuth

CONSTANTS t1, t2

MCOne == {t1}
MCTwo == {t1, t2}
MCBothModes == {TRUE, FALSE}
=============================================================================
