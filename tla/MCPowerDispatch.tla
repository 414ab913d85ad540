--------------------------- MODULE MCPowerDispatch ---------------------------
(***************************************************************************)
(* PowerDispatch with two outlets, two names (so that both outlets may     *)
(* have the same, and a name may move during a walk), and one verb of each *)
(* kind: "soft" stands for "reset" and "nmi" too, of which Redfish knows   *)
(* none either, and "other" is in neither table.  The names are            *)
(* interchangeable.                                                        *)
(***************************************************************************)
EXTENDS PowerDispatch, TLC

CONSTANTS n1, n2

MCNames == {n1, n2}
MCVerbs == RedfishVerbs \cup {"soft", "other"}
MCSymmetry == Permutations(MCNames)
=============================================================================
