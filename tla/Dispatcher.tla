----------------------------- MODULE Dispatcher -----------------------------
(***************************************************************************)
(* What BMC.power_action promises (bmc.py): it hands the action to one     *)
(* adapter after another, each at most once and in a fixed order, until    *)
(* one has done it; it returns the name of that one, or raises when none   *)
(* is left.  The abstract specification that PowerDispatch implements.     *)
(***************************************************************************)
EXTENDS Naturals, Sequences

CONSTANT Order   \* the adapters, in the order they are tried

VARIABLES
  present,   \* the adapters there are
  at,        \* the one that has the action, "idle" or "replied"
  acted,     \* those that have done it
  reply      \* what was returned, "none" before and "raised" if nothing

dispatch == <<present, at, acted, reply>>

Adapters == {Order[i] : i \in 1..Len(Order)}

\* The first of the adapters there are, and the one after a.
IsFirst(P, b) == \E j \in 1..Len(Order) :
  Order[j] = b /\ b \in P /\ \A k \in 1..(j - 1) : Order[k] \notin P
IsNext(P, a, b) == \E i, j \in 1..Len(Order) :
  i < j /\ Order[i] = a /\ Order[j] = b /\ b \in P /\ \A k \in (i + 1)..(j - 1) : Order[k] \notin P

Init == present = {} /\ at = "idle" /\ acted = {} /\ reply = "none"

Ask ==
  /\ at = "idle"
  /\ present' \in SUBSET Adapters
  /\ \/ IsFirst(present', at') /\ UNCHANGED reply
     \/ present' = {} /\ at' = "replied" /\ reply' = "raised"
  /\ UNCHANGED acted

\* An adapter does it; that it has is no guarantee that it says so.
Act ==
  /\ at \in Adapters
  /\ acted' = acted \cup {at}
  /\ UNCHANGED <<present, at, reply>>

\* It fails, and the next one there is gets its turn.
PassOn ==
  /\ at \in Adapters /\ IsNext(present, at, at')
  /\ UNCHANGED <<present, acted, reply>>

Fail ==
  /\ at \in Adapters /\ ~ \E b \in Adapters : IsNext(present, at, b)
  /\ at' = "replied" /\ reply' = "raised"
  /\ UNCHANGED <<present, acted>>

Reply ==
  /\ at \in acted
  /\ at' = "replied" /\ reply' = at
  /\ UNCHANGED <<present, acted>>

Done ==
  /\ at = "replied"
  /\ at' = "idle" /\ present' = {} /\ acted' = {} /\ reply' = "none"

Next == Ask \/ Act \/ PassOn \/ Fail \/ Reply \/ Done
Spec == Init /\ [][Next]_dispatch
=============================================================================
