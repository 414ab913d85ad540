------------------------------- MODULE Racadm -------------------------------
(***************************************************************************)
(* RACADMClient (racadm/client.py) on top of AsyncSSHCLIClient: what its   *)
(* methods do with the outcome of run(), and racreset, which kills the     *)
(* connection it uses and the ones of its siblings.                        *)
(***************************************************************************)
EXTENDS SshTransport

VARIABLES
  op,       \* the method under way: "none", "command", "racreset",
            \* "reset2" (its aclose()) or "aclose"
  verdict   \* how the last method ended: "none", "ok", "RACADMError", "raised"
            \* or, for racreset, "reset"

rvars == <<vars, op, verdict>>

Ops      == {"none", "command", "racreset", "reset2", "aclose"}
Verdicts == {"none", "ok", "RACADMError", "raised", "reset"}

RInit == Init /\ op = [t \in Tasks |-> "none"] /\ verdict = [t \in Tasks |-> "none"]

Begin(t, o) == /\ op[t] = "none"
               /\ op' = [op EXCEPT ![t] = o]
               /\ verdict' = [verdict EXCEPT ![t] = "none"]

End(t, v) == /\ op' = [op EXCEPT ![t] = "none"]
             /\ verdict' = [verdict EXCEPT ![t] = v]

\* power_action, power_status, get_system_info, get, set...: one _racadm.
Command(t) == Begin(t, "command") /\ CallRun(t) /\ UNCHANGED faults

\* A racreset ends the connections of everybody, so it counts as a fault.
Racreset(t) == Begin(t, "racreset") /\ CallRun(t) /\ Fault

Aclose(t) == Begin(t, "aclose") /\ CallClose(t) /\ Fault

\* What detect_error makes of the output: of a complete one the device
\* decides; one cut short may have lost its error line.
Detected(t) == outcome[t] \in {"ok", "short"}

\* _racadm returns, or raises RACADMError or whatever run() raised.
CommandReturns(t) ==
  /\ op[t] = "command" /\ pc[t] = "idle"
  /\ IF Detected(t)
     THEN \E v \in {"ok", "RACADMError"} : End(t, v)
     ELSE End(t, "raised")
  /\ UNCHANGED vars

\* racreset: an output, a RACADMError and a timeout are all as good as a
\* reset, and lead to aclose(); any other exception leaves the method.
SwallowedByReset(t) == Detected(t) \/ outcome[t] = "timeout"

ResetReturnsAtOnce(t) ==
  /\ op[t] = "racreset" /\ pc[t] = "idle" /\ SwallowedByReset(t)
  /\ End(t, "reset")
  /\ UNCHANGED vars
ResetReturns(t) ==
  /\ op[t] = "racreset" /\ pc[t] = "idle" /\ SwallowedByReset(t)
  /\ op' = [op EXCEPT ![t] = "reset2"]
  /\ CallClose(t)
  /\ UNCHANGED <<faults, verdict>>

ResetRaises(t) ==
  /\ op[t] = "racreset" /\ pc[t] = "idle" /\ ~ SwallowedByReset(t)
  /\ End(t, "raised")
  /\ UNCHANGED vars

\* The last aclose() of racreset, or an aclose() of the caller, returns.
CloseReturns(t) ==
  /\ op[t] \in {"reset2", "aclose"} /\ pc[t] = "idle"
  /\ LET done == IF op[t] = "reset2" THEN "reset" ELSE "ok" IN
     End(t, IF outcome[t] = "cancelled" THEN "raised" ELSE done)
  /\ UNCHANGED vars

\* The device executes a command; a racreset ends every connection to it.
DeviceExecutes(t) ==
  /\ IF op[t] = "racreset"
     THEN /\ pc[t] = "command" /\ ~ IsClosed(mine[t]) /\ ~ ran[t]
          /\ ran' = [ran EXCEPT ![t] = TRUE]
          /\ cstate' = [c \in DOMAIN cstate |->
                          IF cstate[c] = "open" THEN "closing" ELSE cstate[c]]
          /\ UNCHANGED <<conn, lock, permits, pc, inRun, mine, outcome, faults>>
     ELSE Execute(t)
  /\ UNCHANGED <<op, verdict>>

Continue(t) == \/ CommandReturns(t) \/ ResetReturns(t) \/ ResetRaises(t) \/ CloseReturns(t)

\* A step of the transport alone.
Below(A) == A /\ UNCHANGED <<op, verdict>>

RNext ==
  \/ \E t \in Tasks : \/ Command(t) \/ Racreset(t) \/ Aclose(t)
                      \/ Continue(t) \/ DeviceExecutes(t)
                      \/ Below(RunStep(t) \/ CloseStep(t) \/ Cancel(t))
  \/ Below(Network)

RSpec == RInit /\ [][RNext]_rvars

\* The semaphore and the lock are FIFO: a task that waits for one is not
\* passed over forever.  connect_timeout and command_timeout end what the
\* device leaves unanswered, and closing a connection is local.
RFairness ==
  /\ \A t \in Tasks :
       /\ SF_rvars(Below(EnterSem(t) \/ Ensure(t) \/ CloseConn(t)))
       /\ WF_rvars(\/ Below(Connected(t) \/ CommandDone(t) \/ CommandCut(t) \/ CloseDone(t))
                   \/ DeviceExecutes(t) \/ Continue(t))
  /\ WF_rvars(Below(\E c \in 1..Len(cstate) : Finish(c)))

RFairSpec == RSpec /\ RFairness

-----------------------------------------------------------------------------
\* Properties

\* Every variable of the transport and of the client has its type.
RTypeOK == /\ TypeOK
           /\ op \in [Tasks -> Ops] /\ verdict \in [Tasks -> Verdicts]

\* "Drops the SSH session" (racreset): when racreset has returned, the
\* connection it used is closed, though siblings may have closed or replaced
\* the client's connection while it waited.
ResetDropsSession ==
  \A t \in Tasks : verdict[t] = "reset" => IsClosed(mine[t])

\* Every call ends: no lock or permit is left behind by a timeout, a lost
\* connection or a cancellation, and run() that waits for the lock with a
\* permit in hand waits for nobody who needs the permit.
CallsReturn == \A t \in Tasks : op[t] # "none" ~> op[t] = "none"

\* "racreset kills the session; receiving an error or timeout is expected and
\* not a real failure" (racreset): what is swallowed is the session's end, so
\* a racreset that returned had a session.  It fails: the timeout of connect()
\* is swallowed too.
ResetHadSession == \A t \in Tasks : verdict[t] = "reset" => mine[t] # 0
=============================================================================
