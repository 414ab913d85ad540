---------------------------- MODULE MCRedfishOps ----------------------------
(***************************************************************************)
(* RedfishOps with the drives of two controllers below a cached path, two  *)
(* at the most, and the firmware, all of it and without a path; four logs  *)
(* of which the first is empty, and two slots for virtual media, on a BMC  *)
(* whose logs carry their entries and can be cleared, and on one whose     *)
(* logs refer to their entries and cannot.                                 *)
(***************************************************************************)
EXTENDS RedfishOps, TLC

CONSTANTS t1, t2, iso

MCTwo == {t1, t2}
MCImages == {iso}

MCShape ==
  <<"Storage">> :> 2 @@ <<"Storage", 1>> :> 2 @@ <<"Storage", 2>> :> 1
  @@ <<"UpdateService">> :> 1 @@ <<"UpdateService", 1>> :> 2
  @@ <<"Sel">> :> 0 @@ <<"Log">> :> 2 @@ <<"Lclog">> :> 1 @@ <<"IML">> :> 0 @@ <<"VirtualMedia">> :> 2

MCLists == {drive_inventory(2), firmware_inventory}
MCLimits == {1}

MCBmcKinds ==
  {[clearable |-> {<<"Log">>, <<"Lclog">>}, inline |-> TRUE, cd |-> {2}],
   [clearable |-> {}, inline |-> FALSE, cd |-> {}]}

Symmetry == Permutations(Tasks)
=============================================================================
