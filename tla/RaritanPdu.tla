----------------------------- MODULE RaritanPdu -----------------------------
(***************************************************************************)
(* RaritanPDUClient (pdu/raritan.py): JSON-RPC over one httpx client with  *)
(* a session token that is fetched on first use.  Any number of tasks      *)
(* share the client, and any of them may close it.  A step is what a       *)
(* coroutine does between two awaits, what the PDU does with a request, or *)
(* a fault.                                                                *)
(*                                                                         *)
(* Callers number outlets from 1 as they are labelled, the wire from 0.    *)
(***************************************************************************)
EXTENDS Integers, FiniteSets

CONSTANTS
  Tasks,
  Outlets,     \* number of outlets
  Names,       \* the names outlets have and callers ask for
  NoName,      \* no name: the caller gives an index
  MaxFaults,   \* bound: lost requests, error answers, cancellations, sessions
               \* that the PDU forgets
  MaxRenames   \* bound: outlets renamed on the PDU

ASSUME RaritanAssumption ==
  /\ Tasks # {} /\ IsFiniteSet(Tasks)
  /\ Outlets \in Nat \ {0} /\ NoName \notin Names
  /\ MaxFaults \in Nat /\ MaxRenames \in Nat

VARIABLES
  name,            \* PDU: the name of each outlet
  live, issued,    \* PDU: sessions alive, sessions ever handed out
  token,           \* self._token and the header, 0 is None
  closed,          \* self._http is closed
  call,            \* of each task: the call under way
  faults, renames

vars == <<name, live, issued, token, closed, call, faults, renames>>

Labels  == 1..Outlets
Pcs     == {"idle", "login", "list", "command", "logout", "returned"}
Replies == {"none", "ok", "refused", "lost"}
Results == {"none", "ok", "raised", "KeyError", "cancelled", "closed"}

\* name, index: the outlet asked for, index 0 while it is not known; cred: the
\* session of the request under way; listed: the names the PDU listed.  Kept
\* for the properties: outlets reached, those that have had the name all the
\* time and at some time since the call, and whether a fault met the call.
Call == [pc: Pcs, name: Names \cup {NoName}, index: 0..Outlets, cred: Nat, reply: Replies,
         listed: {<<>>} \cup [Labels -> Names], reached: SUBSET Labels, kept: SUBSET Labels,
         had: SUBSET Labels, disturbed: BOOLEAN, result: Results]
Idle == [pc |-> "idle", name |-> NoName, index |-> 0, cred |-> 0, reply |-> "none", listed |-> <<>>,
         reached |-> {}, kept |-> {}, had |-> {}, disturbed |-> FALSE, result |-> "none"]

-----------------------------------------------------------------------------
Init ==
  /\ name \in [Labels -> Names]
  /\ live = {} /\ issued = 0
  /\ token = 0 /\ closed = FALSE
  /\ call = [t \in Tasks |-> Idle]
  /\ faults = 0 /\ renames = 0

pdu == <<name, live, issued>>

Become(t, c) == call' = [call EXCEPT ![t] = c]

Fault  == faults < MaxFaults /\ faults' = faults + 1
Met(c) == [c EXCEPT !.disturbed = TRUE]

Ended(c, r) == [c EXCEPT !.pc = "returned", !.result = r, !.reply = "none", !.listed = <<>>]

\* _rpc with the token tk: what list_outlets, and then the command, sends; a
\* closed httpx client refuses.
RpcAlways(c, tk) ==
  IF closed THEN Ended(c, "raised")
  ELSE [c EXCEPT !.pc = IF c.index = 0 THEN "list" ELSE "command", !.cred = tk, !.reply = "none"]
Rpc(c, tk) ==
  IF closed THEN Ended(c, "raised")
  ELSE [c EXCEPT !.pc = IF tk = 0 THEN "login" ELSE IF c.index = 0 THEN "list" ELSE "command",
                 !.cred = tk, !.reply = "none"]

-----------------------------------------------------------------------------
\* The calls

Begin(t, c) ==
  /\ call[t].pc = "idle"
  /\ Become(t, Rpc(c, token))
  /\ UNCHANGED <<pdu, token, closed, faults, renames>>

\* outlet_on, off, cycle and outlet_state, of an index or a name
CallIndex(t, i) == Begin(t, [Idle EXCEPT !.index = i])
CallName(t, n) ==
  LET now == {i \in Labels : name[i] = n}
  IN  Begin(t, [Idle EXCEPT !.name = n, !.kept = now, !.had = now])

\* list_outlets, power_metrics
CallRead(t) == Begin(t, Idle)

\* The caller goes on with the result.
Take(t) ==
  /\ call[t].pc = "returned"
  /\ Become(t, Idle)
  /\ UNCHANGED <<pdu, token, closed, faults, renames>>

-----------------------------------------------------------------------------
\* The coroutines, answered

Got(t, where, reply) == call[t].pc = where /\ call[t].reply = reply

\* _login: the newest token replaces another task's.
LoggedInNoHeader(t) ==
  /\ Got(t, "login", "ok")
  /\ token' = call[t].cred
  /\ Become(t, [Rpc(call[t], call[t].cred) EXCEPT !.cred = 0])
  /\ UNCHANGED <<pdu, closed, faults, renames>>
LoggedIn(t) ==
  /\ Got(t, "login", "ok")
  /\ token' = call[t].cred
  /\ Become(t, Rpc(call[t], call[t].cred))
  /\ UNCHANGED <<pdu, closed, faults, renames>>

\* list_outlets, and _resolve_idx: the first outlet of that name.
Matches(c) == {i \in Labels : c.listed[i] = c.name}

Listed(t) ==
  /\ Got(t, "list", "ok")
  /\ LET c == call[t] IN
     \/ c.name = NoName /\ Become(t, Ended(c, "ok"))
     \/ c.name # NoName /\ Matches(c) = {} /\ Become(t, Ended(c, "KeyError"))
     \/ c.name # NoName /\ \E i \in Matches(c) :
          (\A j \in Matches(c) : i <= j) /\ Become(t, Rpc([c EXCEPT !.index = i], token))
  /\ UNCHANGED <<pdu, token, closed, faults, renames>>

CommandDone(t) ==
  /\ Got(t, "command", "ok")
  /\ Become(t, Ended(call[t], "ok"))
  /\ UNCHANGED <<pdu, token, closed, faults, renames>>

\* raise_for_status, an error in the answer, or no answer: the call raises,
\* and the token stays what it is.
Fails(t) ==
  /\ call[t].pc \in {"login", "list", "command"} /\ call[t].reply \in {"refused", "lost"}
  /\ Become(t, Ended(call[t], "raised"))
  /\ UNCHANGED <<pdu, token, closed, faults, renames>>

-----------------------------------------------------------------------------
\* aclose()

CloseForgets(t) ==
  /\ call[t].pc = "idle" /\ ~ closed
  /\ closed' = TRUE
  /\ Become(t, Ended(Idle, "closed"))
  /\ UNCHANGED <<pdu, token, faults, renames>>
Close(t) ==
  /\ call[t].pc = "idle" /\ ~ closed
  /\ closed' = (token = 0)
  /\ Become(t, IF token = 0 THEN Ended(Idle, "closed")
               ELSE [Idle EXCEPT !.pc = "logout", !.cred = token])
  /\ UNCHANGED <<pdu, token, faults, renames>>

\* Whatever became of the logout, the httpx client is closed.
LoggedOut(t) ==
  /\ call[t].pc = "logout" /\ call[t].reply # "none"
  /\ closed' = TRUE
  /\ Become(t, Ended(call[t], "closed"))
  /\ UNCHANGED <<pdu, token, faults, renames>>

\* A cancelled aclose() does not come to it.
Cancel(t) ==
  /\ call[t].pc \notin {"idle", "returned"} /\ Fault
  /\ Become(t, Ended(call[t], "cancelled"))
  /\ UNCHANGED <<pdu, token, closed, renames>>

-----------------------------------------------------------------------------
\* The PDU and the network

Answer(t, r) == [call[t] EXCEPT !.reply = r]

ServeLogin(t) ==
  /\ Got(t, "login", "none")
  /\ issued' = issued + 1 /\ live' = live \cup {issued'}
  /\ Become(t, [Answer(t, "ok") EXCEPT !.cred = issued'])
  /\ UNCHANGED <<name, token, closed, faults, renames>>

ServeList(t) ==
  /\ Got(t, "list", "none") /\ call[t].cred \in live
  /\ Become(t, [Answer(t, "ok") EXCEPT !.listed = name])
  /\ UNCHANGED <<pdu, token, closed, faults, renames>>

\* The path names the outlet by its number on the wire; the PDU switches, or
\* reads, the one that is labelled one more.
WireAsLabelled(i) == i
WireIndex(i) == i - 1

Reaching(c) == [c EXCEPT !.reached = @ \cup {WireIndex(c.index) + 1}]

ServeCommand(t) ==
  /\ Got(t, "command", "none") /\ call[t].cred \in live
  /\ \/ Become(t, Reaching(Answer(t, "ok"))) /\ UNCHANGED faults
     \/ Become(t, Met(Reaching(Answer(t, "refused")))) /\ Fault
  /\ UNCHANGED <<pdu, token, closed, renames>>

ServeLogout(t) ==
  /\ Got(t, "logout", "none")
  /\ live' = live \ {call[t].cred}
  /\ Become(t, Answer(t, "ok"))
  /\ UNCHANGED <<name, issued, token, closed, faults, renames>>

\* A session that is gone, a wrong password, or an error.
Refuse(t) ==
  /\ call[t].pc \in {"login", "list", "command", "logout"} /\ call[t].reply = "none"
  /\ IF call[t].pc # "login" /\ call[t].cred \notin live
     THEN Become(t, Answer(t, "refused")) /\ UNCHANGED faults
     ELSE Become(t, Met(Answer(t, "refused"))) /\ Fault
  /\ UNCHANGED <<pdu, token, closed, renames>>

\* The request or its answer is lost, or too late; closing the httpx client
\* does that to what is under way.
Lose(t) ==
  /\ call[t].pc \in {"login", "list", "command", "logout"} /\ call[t].reply # "lost"
  /\ IF closed
     THEN Become(t, Answer(t, "lost")) /\ UNCHANGED faults
     ELSE Become(t, Met(Answer(t, "lost"))) /\ Fault
  /\ UNCHANGED <<pdu, token, closed, renames>>

\* The PDU forgets a session.
Expire(s) ==
  /\ s \in live /\ Fault
  /\ live' = live \ {s}
  /\ UNCHANGED <<name, issued, token, closed, call, renames>>

Rename(i, n) ==
  /\ renames < MaxRenames /\ name[i] # n
  /\ renames' = renames + 1
  /\ name' = [name EXCEPT ![i] = n]
  /\ call' = [t \in Tasks |->
       [call[t] EXCEPT !.kept = @ \ {i}, !.had = IF call[t].name = n THEN @ \cup {i} ELSE @]]
  /\ UNCHANGED <<live, issued, token, closed, faults>>

-----------------------------------------------------------------------------
Calls(t)  == (\E i \in Labels : CallIndex(t, i)) \/ (\E n \in Names : CallName(t, n)) \/ CallRead(t) \/ Close(t)
Resume(t) == LoggedIn(t) \/ Listed(t) \/ CommandDone(t) \/ Fails(t) \/ LoggedOut(t)
Serve(t)  == ServeLogin(t) \/ ServeList(t) \/ ServeCommand(t) \/ ServeLogout(t) \/ Refuse(t)

Next ==
  \/ \E t \in Tasks : Calls(t) \/ Resume(t) \/ Serve(t) \/ Lose(t) \/ Cancel(t) \/ Take(t)
  \/ \E s \in live : Expire(s)
  \/ \E i \in Labels, n \in Names : Rename(i, n)

Spec == Init /\ [][Next]_vars

-----------------------------------------------------------------------------
\* Properties

\* Every variable has its type, and no RPC leaves without a session.
TypeOK ==
  /\ name \in [Labels -> Names] /\ live \subseteq 1..issued /\ token \in 0..issued
  /\ closed \in BOOLEAN /\ faults \in 0..MaxFaults /\ renames \in 0..MaxRenames
  /\ call \in [Tasks -> Call]
  /\ \A t \in Tasks :
       LET c == call[t] IN
       /\ c.cred <= issued /\ c.kept \subseteq c.had
       /\ c.pc = "returned" <=> c.result # "none"
       /\ c.pc \in {"list", "command", "logout"} => c.cred # 0

Quiet == \A t \in Tasks : call[t].pc \in {"idle", "returned"}

\* aclose() logs out: once the client is closed and every call is over, the
\* PDU has no session left but those of logins that overlapped (_rpc looks at
\* the token before it awaits _login, and aclose() logs the last one out), one
\* for each other task, and one for every fault.
SessionsReleased ==
  closed /\ Quiet => Cardinality(live) <= Cardinality(Tasks) - 1 + faults

\* "callers use 1-indexed numbers like they see on the device" (the module's
\* docstring): a command reaches the outlet with that label or, of a name
\* (_resolve_idx), one that has had it since the call began; and a name that
\* an outlet had all along is found.
NamedOutlet ==
  \A t \in Tasks :
    LET c == call[t] IN
    /\ \A i \in c.reached : i = c.index /\ (c.name # NoName => i \in c.had)
    /\ c.result = "KeyError" => c.kept = {}
    /\ c.result = "ok" /\ c.index # 0 => c.reached # {}

\* A call raises only when a fault met it, when the client was closed, or when
\* the PDU has forgotten the session: _rpc never logs in again.
FailureExplained ==
  \A t \in Tasks : call[t].result = "raised" =>
    LET c == call[t] IN c.disturbed \/ closed \/ (c.cred # 0 /\ c.cred \notin live)
=============================================================================
