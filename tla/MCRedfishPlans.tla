--------------------------- MODULE MCRedfishPlans ---------------------------
(***************************************************************************)
(* RedfishPlans with one task, which may close the client between two      *)
(* operations, on a BMC that lists everything and on one without chassis   *)
(* or interface.                                                           *)
(***************************************************************************)
EXTENDS RedfishPlans

CONSTANT t1

MCTasks == {t1}
MCSessions == {TRUE}
MCLacks == {{}, {"chassis", "interface"}}
=============================================================================
