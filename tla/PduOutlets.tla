----------------------------- MODULE PduOutlets -----------------------------
(***************************************************************************)
(* The outlets of a PDU behind SNMP (pdu/_snmp.py, pdu/base.py and the     *)
(* drivers apc, eaton, cyberpower, tripplite): one call of outlet_on, off, *)
(* cycle, outlet_state or list_outlets after another, while outlets are    *)
(* renamed, requests and answers are lost, and the PDU answers with errors.*)
(* The client keeps no state between calls, so calls that overlap do what  *)
(* they do alone.                                                          *)
(*                                                                         *)
(* The four drivers differ in the OIDs and codes of the same steps.        *)
(***************************************************************************)
EXTENDS Integers, Sequences, FiniteSets

CONSTANTS
  Outlets,     \* number of outlets; their indices are 1..Outlets
  Names,       \* the names outlets have and callers ask for
  NoName,      \* no name: the caller gives an index
  Resends,     \* how often pysnmp sends a request again
  MaxLosses,   \* bound: requests and answers lost, and errors answered
  MaxRenames   \* bound: renames by set_outlet_name or on the PDU

ASSUME PduAssumption ==
  /\ Outlets \in Nat \ {0} /\ Names # {} /\ NoName \notin Names
  /\ Resends \in Nat /\ MaxLosses \in Nat /\ MaxRenames \in Nat

VARIABLES
  name,      \* of each outlet
  pc,        \* where the call waits
  call,      \* the call
  found,     \* the names the walk has read so far
  column,    \* entries read of the other columns
  tries,     \* sends left of the request under way
  result,    \* how the call ended
  losses, renames,
  kept,      \* outlets that have had the name asked for ever since the call
  had,       \* outlets that have had it at some time since
  sets,      \* the outlets the PDU executed the call's command on, in order
  lost,      \* requests and answers of the call that were lost
  errors     \* of its requests that the PDU answered with an error

walks  == <<found, column>>
ghosts == <<kept, had, sets, lost, errors>>
pvars  == <<name, pc, call, walks, tries, result, losses, renames, ghosts>>

Indices == 1..Outlets
Cmds    == {"on", "off", "cycle", "state"}
Results == {"none", "ok", "listed", "RuntimeError", "KeyError"}
Pcs     == {"idle", "names", "columns", "request", "answer", "returned"}

ByIndex == [cmd : Cmds, name : {NoName}, index : Indices]
ByName  == [cmd : Cmds, name : Names, index : {1}]
NoCall  == [cmd |-> "list", name |-> NoName, index |-> 1]
Calls   == ByIndex \cup ByName \cup {NoCall}

-----------------------------------------------------------------------------
PInit ==
  /\ name \in [Indices -> Names]
  /\ pc = "idle" /\ call = NoCall
  /\ found = <<>> /\ column = 0 /\ tries = 0 /\ result = "none"
  /\ losses = 0 /\ renames = 0
  /\ kept = {} /\ had = {} /\ sets = <<>> /\ lost = 0 /\ errors = 0

Return(r) == pc' = "returned" /\ result' = r /\ UNCHANGED <<call, tries>>
Sent      == tries' = Resends
Named(n)  == {i \in Indices : name[i] = n}

\* _resolve_idx: an index is taken as it is, a name is looked up in the
\* outlets listed now.
CallPdu(c) ==
  /\ pc = "idle"
  /\ call' = c /\ Sent
  /\ pc' = IF c \in ByIndex THEN "request" ELSE "names"
  /\ kept' = Named(c.name) /\ had' = Named(c.name)
  /\ UNCHANGED <<name, walks, result, losses, renames, sets, lost, errors>>

\* The caller goes on with the result; the locals of the call are gone.
Take ==
  /\ pc = "returned"
  /\ pc' = "idle" /\ call' = NoCall
  /\ found' = <<>> /\ column' = 0 /\ tries' = 0 /\ result' = "none"
  /\ kept' = {} /\ had' = {} /\ sets' = <<>> /\ lost' = 0 /\ errors' = 0
  /\ UNCHANGED <<name, losses, renames>>

-----------------------------------------------------------------------------
\* _walk: one next_cmd per entry.

WalkName ==
  /\ pc = "names" /\ Len(found) < Outlets
  /\ found' = Append(found, name[Len(found) + 1]) /\ Sent
  /\ UNCHANGED <<name, pc, call, column, result, losses, renames, ghosts>>

WalkColumn ==
  /\ pc = "columns" /\ column < Outlets
  /\ column' = column + 1 /\ Sent
  /\ UNCHANGED <<name, pc, call, found, result, losses, renames, ghosts>>

\* The walk of the names is over, at its end or at an error.
NamesOver == pc = "names" /\ pc' = "columns" /\ Sent /\ UNCHANGED <<call, result>>

\* list_outlets returns, and _resolve_idx takes the first outlet of that name.
MatchesNext == {i \in 2..Len(found) : found[i - 1] = call.name}
Matches == {i \in 1..Len(found) : found[i] = call.name}

ColumnsOver ==
  /\ pc = "columns"
  /\ \/ call.cmd = "list" /\ Return("listed")
     \/ call.cmd # "list" /\ Matches = {} /\ Return("KeyError")
     \/ /\ call.cmd # "list"
        /\ \E i \in Matches : (\A j \in Matches : i <= j) /\ call' = [call EXCEPT !.index = i]
        /\ pc' = "request" /\ Sent /\ UNCHANGED result

WalkEnds ==
  /\ \/ Len(found) = Outlets /\ NamesOver
     \/ column = Outlets /\ ColumnsOver
  /\ UNCHANGED <<name, walks, losses, renames, ghosts>>

-----------------------------------------------------------------------------
\* _set and _get

\* The PDU executes the request.
Executes ==
  /\ pc = "request"
  /\ sets' = IF call.cmd = "state" THEN sets ELSE Append(sets, call.index)
  /\ pc' = "answer"
  /\ UNCHANGED <<name, call, walks, tries, result, losses, renames, kept, had, lost, errors>>

Answered ==
  /\ pc = "answer" /\ Return("ok")
  /\ UNCHANGED <<name, walks, losses, renames, ghosts>>

-----------------------------------------------------------------------------
\* UDP, and the errors of the PDU

Trouble ==
  /\ pc \notin {"idle", "returned"} /\ losses < MaxLosses
  /\ losses' = losses + 1
  /\ UNCHANGED <<name, walks, renames, kept, had, sets>>

Loses == Trouble /\ lost' = lost + 1 /\ UNCHANGED errors

\* A request or its answer is lost, and pysnmp sends the request again.
Resend ==
  /\ Loses /\ tries > 0
  /\ tries' = tries - 1
  /\ pc' = IF pc = "answer" THEN "request" ELSE pc
  /\ UNCHANGED <<call, result>>

\* err_ind or err_status: _set and _get raise, and _walk ends.
FailsSilently ==
  \/ NamesOver \/ ColumnsOver
  \/ pc \in {"request", "answer"} /\ Return("ok")
Fails ==
  \/ NamesOver \/ ColumnsOver
  \/ pc \in {"request", "answer"} /\ Return("RuntimeError")

\* Pysnmp has sent the request often enough.
GiveUp == Loses /\ tries = 0 /\ Fails

\* The PDU answers the request with an error and does not execute it.
ErrorAnswer ==
  /\ Trouble /\ pc # "answer"
  /\ errors' = errors + 1 /\ UNCHANGED lost
  /\ Fails

\* An outlet gets another name.
Rename(i, n) ==
  /\ renames < MaxRenames /\ name[i] # n
  /\ renames' = renames + 1
  /\ name' = [name EXCEPT ![i] = n]
  /\ kept' = kept \ {i}
  /\ had' = IF call.name = n THEN had \cup {i} ELSE had
  /\ UNCHANGED <<pc, call, walks, tries, result, losses, sets, lost, errors>>

-----------------------------------------------------------------------------
PduStep == \/ WalkName \/ WalkColumn \/ WalkEnds
           \/ Executes \/ Answered \/ Resend \/ GiveUp \/ ErrorAnswer
Renames == \E i \in Indices, n \in Names : Rename(i, n)

PNext == Renames \/ (\E c \in Calls : CallPdu(c)) \/ PduStep \/ Take
PSpec == PInit /\ [][PNext]_pvars

-----------------------------------------------------------------------------
\* Properties

\* Every variable has its type.
PTypeOK ==
  /\ name \in [Indices -> Names] /\ pc \in Pcs
  /\ call \in [cmd : Cmds \cup {"list"}, name : Names \cup {NoName}, index : Indices]
  /\ found \in Seq(Names) /\ Len(found) <= Outlets /\ column \in 0..Outlets
  /\ tries \in 0..Resends /\ result \in Results
  /\ losses \in 0..MaxLosses /\ renames \in 0..MaxRenames
  /\ kept \subseteq had /\ had \subseteq Indices
  /\ sets \in Seq(Indices) /\ lost \in 0..losses /\ errors \in 0..losses

\* A command for a name (_resolve_idx, then _set) only ever switches an outlet
\* that has had the name since the call began, whatever is renamed meanwhile
\* and however short the walk is cut; and always the same one.
RightOutlet ==
  \A k \in 1..Len(sets) :
    /\ sets[k] = sets[1]
    /\ call.name # NoName => sets[k] \in had

\* However the call ends, what it says of the PDU is explained.  "no outlet
\* named" (_resolve_idx) though an outlet had that name all along takes more
\* lost packets than pysnmp sends again, or an error answered; so does a listing
\* that misses an outlet, for _walk takes an error for the end of the table, and
\* so does a RuntimeError.  A command that returned was executed (_set), and no
\* call executes its command more often than pysnmp sends it.
Struck == lost > Resends \/ errors > 0
CallExplained ==
  /\ result = "KeyError" => kept = {} \/ Struck
  /\ result = "listed" => Len(found) = Outlets \/ Struck
  /\ result = "RuntimeError" => Struck
  /\ result = "ok" /\ call.cmd # "state" => sets # <<>>
  /\ Len(sets) <= 1 + Resends
=============================================================================
