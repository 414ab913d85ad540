---------------------------- MODULE PowerDispatch ----------------------------
(***************************************************************************)
(* BMC.power_action (bmc.py) over the verb tables of RedfishClient and     *)
(* IPMIClient and over the outlets of a PDU (PduOutlets), whose client     *)
(* callers use directly too.  A transport may execute an action and still  *)
(* raise: its answer got lost, or came too late.                           *)
(***************************************************************************)
EXTENDS PduOutlets

CONSTANTS
  Verbs,        \* the actions callers ask for
  MaxFailures   \* bound: exceptions of Redfish and IPMI in one call, other
                \* than for a verb they do not know

ASSUME DispatchAssumption == Verbs # {} /\ MaxFailures \in Nat

VARIABLES
  stage,     \* where the call is; "direct" is a call of the PDU client itself
  bmc,       \* the BMC object: its adapters, and its pdu_outlet
  verb,      \* the action asked for
  acted,     \* what transports executed for it, in order
  failed,    \* the transports that raised though they know the verb
  reply      \* what power_action returned, or "none", or "raised"

dvars == <<stage, bmc, verb, acted, failed, reply>>
vars  == <<pvars, dvars>>

Protocols == {"redfish", "ipmi"}
Adapters  == <<"redfish", "ipmi", "pdu">>
Rank      == [redfish |-> 1, ipmi |-> 2, pdu |-> 3]
DoneBy    == [redfish |-> "redfishDone", ipmi |-> "ipmiDone"]
Stages    == {"idle", "direct", "redfish", "redfishDone", "ipmi", "ipmiDone",
              "pdu", "pduWait", "replied"}

\* ACTION_TO_REDFISH and ACTION_TO_PYGHMI.
RedfishVerbs == {"on", "off", "off_hard", "cycle", "reboot"}
IpmiVerbs    == {"on", "off", "soft", "cycle", "reset", "nmi"}

Knows(p, v) == v \in IF p = "redfish" THEN RedfishVerbs ELSE IpmiVerbs

\* The PDU as the last resort: what is neither off nor on is a cycle.
OutletCmd(v) ==
  IF v \in {"off", "off_hard"} THEN "off" ELSE IF v = "on" THEN "on" ELSE "cycle"

\* pdu_outlet is an index or a name.
BmcConfigs ==
  [adapters : SUBSET {"redfish", "ipmi", "pdu"},
   outlet : [name : {NoName}, index : Indices] \cup [name : Names, index : {1}]]
NoBmc == [adapters |-> {}, outlet |-> [name |-> NoName, index |-> 1]]

-----------------------------------------------------------------------------
DInit ==
  /\ PInit
  /\ stage = "idle" /\ bmc = NoBmc /\ verb = "none"
  /\ acted = <<>> /\ failed = {} /\ reply = "none"

\* The first adapter of those left has the action; without one, power_action
\* raises.
MoveOn(left) ==
  \/ left = {} /\ stage' = "replied" /\ reply' = "raised"
  \/ stage' \in left /\ (\A a \in left : Rank[stage'] <= Rank[a]) /\ UNCHANGED reply

After(p) == {a \in bmc.adapters : Rank[a] > Rank[p]}

PowerAction(b, v) ==
  /\ stage = "idle"
  /\ bmc' = b /\ verb' = v
  /\ MoveOn(b.adapters)
  /\ UNCHANGED <<pvars, acted, failed>>

\* The transport executes the action, and answers.
Acts(p) ==
  /\ stage = p /\ Knows(p, verb)
  /\ acted' = Append(acted, p)
  /\ stage' = DoneBy[p]
  /\ UNCHANGED <<pvars, bmc, verb, failed, reply>>

Answers(p) ==
  /\ stage = DoneBy[p]
  /\ stage' = "replied" /\ reply' = p
  /\ UNCHANGED <<pvars, bmc, verb, acted, failed>>

\* Redfish raises for a verb it does not know, IPMI is passed over.
Unknown(p) ==
  /\ stage = p /\ ~ Knows(p, verb)
  /\ MoveOn(After(p))
  /\ UNCHANGED <<pvars, bmc, verb, acted, failed>>

\* Any exception, before or after the action was executed, leads to the next
\* adapter.
RaisesSkipsIpmi(p) ==
  /\ stage \in {p, DoneBy[p]} /\ Knows(p, verb) /\ Cardinality(failed) < MaxFailures
  /\ failed' = failed \cup {p}
  /\ MoveOn(After(p) \ {"ipmi"})
  /\ UNCHANGED <<pvars, bmc, verb, acted>>
Raises(p) ==
  /\ stage \in {p, DoneBy[p]} /\ Knows(p, verb) /\ Cardinality(failed) < MaxFailures
  /\ failed' = failed \cup {p}
  /\ MoveOn(After(p))
  /\ UNCHANGED <<pvars, bmc, verb, acted>>

CallsPdu ==
  /\ stage = "pdu"
  /\ CallPdu([cmd |-> OutletCmd(verb), name |-> bmc.outlet.name, index |-> bmc.outlet.index])
  /\ stage' = "pduWait"
  /\ UNCHANGED <<bmc, verb, acted, failed, reply>>

\* The PDU's exceptions leave power_action.
PduEndsUnawaited ==
  /\ stage = "pduWait"
  /\ stage' = "replied" /\ reply' = "pdu"
  /\ UNCHANGED <<pvars, bmc, verb, acted, failed>>
PduEnds ==
  /\ stage = "pduWait" /\ pc = "returned"
  /\ stage' = "replied" /\ reply' = IF result = "ok" THEN "pdu" ELSE "raised"
  /\ UNCHANGED <<pvars, bmc, verb, acted, failed>>

\* A caller uses the PDU client itself.
Direct(c) ==
  /\ stage = "idle"
  /\ CallPdu(c) /\ stage' = "direct"
  /\ UNCHANGED <<bmc, verb, acted, failed, reply>>

\* The caller goes on with what the call returned.
Ends ==
  /\ \/ stage \in {"direct", "replied"} /\ Take
     \/ stage = "replied" /\ pc = "idle" /\ UNCHANGED pvars
  /\ stage' = "idle" /\ bmc' = NoBmc /\ verb' = "none"
  /\ acted' = <<>> /\ failed' = {} /\ reply' = "none"

DNext ==
  \/ \E b \in BmcConfigs, v \in Verbs : PowerAction(b, v)
  \/ \E p \in Protocols : Acts(p) \/ Answers(p) \/ Unknown(p) \/ Raises(p)
  \/ CallsPdu \/ PduEnds
  \/ \E c \in Calls : Direct(c)
  \/ Ends
  \/ (PduStep \/ Renames) /\ UNCHANGED dvars

DSpec == DInit /\ [][DNext]_vars

-----------------------------------------------------------------------------
\* Properties

\* Every variable has its type, and the PDU's code runs only for a call.
DTypeOK ==
  /\ PTypeOK /\ bmc \in BmcConfigs /\ stage \in Stages /\ verb \in Verbs \cup {"none"}
  /\ acted \in Seq(Protocols) /\ failed \subseteq Protocols
  /\ reply \in Protocols \cup {"none", "raised", "pdu"}
  /\ pc \notin {"idle", "returned"} => stage \in {"direct", "pduWait"}

\* The adapter that has the action, and those that executed it.
Turn == IF stage = "direct" THEN "idle" ELSE IF stage = "pduWait" THEN "pdu"
        ELSE IF stage = "redfishDone" THEN "redfish" ELSE IF stage = "ipmiDone" THEN "ipmi" ELSE stage
Executed == {acted[k] : k \in 1..Len(acted)}
              \cup IF stage # "direct" /\ sets # <<>> THEN {"pdu"} ELSE {}

Promise == INSTANCE Dispatcher
             WITH Order <- Adapters, present <- bmc.adapters, at <- Turn, acted <- Executed

\* "returns the name of the transport that handled the action" (README):
\* power_action implements the dispatcher.  Each adapter has its turn at most
\* once, in the order of the code; the one that is named executed the action;
\* and it raises only when the last of them has failed.
Dispatches == Promise!Spec

\* "PDU is the last resort" (power_action): the outlet is switched only after
\* every other adapter that knows the verb has raised.
LastResort ==
  stage \in {"pdu", "pduWait"} \/ reply = "pdu" =>
    failed = {p \in Protocols \cap bmc.adapters : Knows(p, verb)}
=============================================================================
