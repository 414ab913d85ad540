---------------------------- MODULE SshTransport ----------------------------
(***************************************************************************)
(* AsyncSSHCLIClient (transport/ssh.py): one reusable SSH connection, a    *)
(* semaphore that bounds the commands in flight and a lock around the      *)
(* opening and the closing of the connection.                              *)
(*                                                                         *)
(* Any number of tasks call run() and aclose().  The connection belongs to *)
(* all of them: who times out closes it for the others too.  A step is     *)
(* what a coroutine does between two awaits, or something the network or   *)
(* the device does.                                                        *)
(***************************************************************************)
EXTENDS Integers, Sequences, FiniteSets

CONSTANTS
  Tasks,          \* the asyncio tasks that use the client
  NoTask,         \* the lock's holder when it has none
  MaxConcurrent,  \* max_concurrent, the semaphore's initial value
  MaxFaults       \* bound: timeouts, lost connections, cancellations, and
                  \* calls that close the connection

ASSUME SshAssumption ==
  /\ Tasks # {} /\ IsFiniteSet(Tasks) /\ NoTask \notin Tasks
  /\ MaxConcurrent \in Nat \ {0}
  /\ MaxFaults \in Nat

VARIABLES
  conn,      \* self._conn: the id of a connection, 0 is None
  cstate,    \* the connections so far, the id is the index: "open", "closing"
             \* or "closed" (is_closed() is TRUE)
  lock,      \* holder of self._lock while it awaits, or NoTask
  permits,   \* value of self._sem
  pc,        \* where each task waits
  inRun,     \* the aclose() under way is the one in run()
  mine,      \* the connection run() got from _ensure()
  ran,       \* the device executed the command of this run()
  outcome,   \* how the last run() ended
  faults     \* faults so far

shared == <<conn, cstate, lock, permits>>
local  == <<inRun, mine, ran, outcome>>
vars   == <<shared, pc, local, faults>>

Outcomes == {"none", "ok", "short", "lost", "unreachable", "timeout", "cancelled"}
Pcs      == {"idle", "sem", "lock", "connect", "command", "closeLock", "closeWait"}

\* The tasks that hold a permit of the semaphore.
Holders == {t \in Tasks : \/ pc[t] \in {"lock", "connect", "command"}
                          \/ pc[t] \in {"closeLock", "closeWait"} /\ inRun[t]}

IsOpen(c)   == c # 0 /\ cstate[c] = "open"
IsClosed(c) == c = 0 \/ cstate[c] = "closed"

-----------------------------------------------------------------------------
Init ==
  /\ conn = 0 /\ cstate = <<>>
  /\ lock = NoTask /\ permits = MaxConcurrent
  /\ pc = [t \in Tasks |-> "idle"]
  /\ inRun = [t \in Tasks |-> FALSE]
  /\ mine = [t \in Tasks |-> 0]
  /\ ran = [t \in Tasks |-> FALSE]
  /\ outcome = [t \in Tasks |-> "none"]
  /\ faults = 0

Fault == faults < MaxFaults /\ faults' = faults + 1

Goto(t, where) == pc' = [pc EXCEPT ![t] = where]

\* run() returns or raises: out of "async with self._sem".
EndRun(t, result) ==
  /\ Goto(t, "idle")
  /\ permits' = permits + 1
  /\ outcome' = [outcome EXCEPT ![t] = result]

-----------------------------------------------------------------------------
\* run() and _ensure().  Whoever calls run() or aclose() says what becomes of
\* the bound on faults.

CallRun(t) ==
  /\ pc[t] = "idle"
  /\ Goto(t, "sem")
  /\ mine' = [mine EXCEPT ![t] = 0]
  /\ ran' = [ran EXCEPT ![t] = FALSE]
  /\ outcome' = [outcome EXCEPT ![t] = "none"]
  /\ inRun' = [inRun EXCEPT ![t] = TRUE]
  /\ UNCHANGED shared

EnterSem(t) ==
  /\ pc[t] = "sem" /\ permits > 0
  /\ permits' = permits - 1
  /\ Goto(t, "lock")
  /\ UNCHANGED <<conn, cstate, lock, local, faults>>

\* _ensure() has the lock: it returns a connection that is not closed, and
\* the command goes out; or it awaits connect() with the lock held.
ConnUsable == conn # 0 /\ ~ IsClosed(conn)

LockIgnored == TRUE
LockFree == lock = NoTask

Ensure(t) ==
  /\ pc[t] = "lock" /\ LockFree
  /\ IF ConnUsable
     THEN /\ mine' = [mine EXCEPT ![t] = conn]
          /\ Goto(t, "command")
          /\ UNCHANGED lock
     ELSE /\ lock' = t
          /\ Goto(t, "connect")
          /\ UNCHANGED mine
  /\ UNCHANGED <<conn, cstate, permits, inRun, ran, outcome, faults>>

NewConn == Len(cstate) + 1

Connected(t) ==
  /\ pc[t] = "connect"
  /\ conn' = NewConn
  /\ cstate' = Append(cstate, "open")
  /\ mine' = [mine EXCEPT ![t] = NewConn]
  /\ lock' = NoTask
  /\ Goto(t, "command")
  /\ UNCHANGED <<permits, inRun, ran, outcome, faults>>

\* connect() raises, or does not answer within connect_timeout.  It is not in
\* the try of run(), so nothing is closed.
ConnectFailsLocked(t) ==
  /\ pc[t] = "connect" /\ Fault
  /\ \E r \in {"unreachable", "timeout"} : EndRun(t, r)
  /\ UNCHANGED <<conn, cstate, lock, inRun, mine, ran>>
ConnectFails(t) ==
  /\ pc[t] = "connect" /\ Fault
  /\ lock' = NoTask
  /\ \E r \in {"unreachable", "timeout"} : EndRun(t, r)
  /\ UNCHANGED <<conn, cstate, inRun, mine, ran>>

\* The device executes the command; that the connection is being closed does
\* not stop what is on its way.
Execute(t) ==
  /\ pc[t] = "command" /\ ~ IsClosed(mine[t]) /\ ~ ran[t]
  /\ ran' = [ran EXCEPT ![t] = TRUE]
  /\ UNCHANGED <<shared, pc, inRun, mine, outcome, faults>>

\* The command is over and its output complete.
CommandDone(t) ==
  /\ pc[t] = "command" /\ ran[t]
  /\ EndRun(t, "ok")
  /\ UNCHANGED <<conn, cstate, lock, inRun, mine, ran, faults>>

\* The connection ended under the command: a channel that is not open yet
\* raises; one that is open ends, and with check=False run() returns the
\* output so far like any other.
CommandCut(t) ==
  /\ pc[t] = "command" /\ ~ IsOpen(mine[t])
  /\ \E r \in {"short", "lost"} : EndRun(t, r)
  /\ UNCHANGED <<conn, cstate, lock, inRun, mine, ran, faults>>

\* command_timeout: the command is abandoned and run() calls aclose().
CommandTimeoutKeeps(t) ==
  /\ pc[t] = "command" /\ Fault
  /\ EndRun(t, "timeout")
  /\ UNCHANGED <<conn, cstate, lock, inRun, mine, ran>>
CommandTimeout(t) ==
  /\ pc[t] = "command" /\ Fault
  /\ Goto(t, "closeLock")
  /\ UNCHANGED <<shared, local>>

-----------------------------------------------------------------------------
\* aclose()

\* Out of aclose(): run() raises the timeout, with its permit given back.
ClosedNoRelease(t) ==
  /\ Goto(t, "idle")
  /\ outcome' = [outcome EXCEPT ![t] = IF inRun[t] THEN "timeout" ELSE "none"]
  /\ UNCHANGED permits
Closed(t) ==
  IF inRun[t]
  THEN EndRun(t, "timeout")
  ELSE Goto(t, "idle") /\ UNCHANGED <<permits, outcome>>

CallClose(t) ==
  /\ pc[t] = "idle"
  /\ Goto(t, "closeLock")
  /\ inRun' = [inRun EXCEPT ![t] = FALSE]
  /\ UNCHANGED <<shared, mine, ran, outcome>>

\* aclose() has the lock: it closes whichever connection the client has by
\* now, and awaits its end with the lock held.
CloseConn(t) ==
  /\ pc[t] = "closeLock" /\ LockFree
  /\ IF conn = 0
     THEN Closed(t) /\ UNCHANGED <<cstate, lock>>
     ELSE /\ cstate' = IF IsOpen(conn) THEN [cstate EXCEPT ![conn] = "closing"] ELSE cstate
          /\ lock' = t
          /\ Goto(t, "closeWait")
          /\ UNCHANGED <<permits, outcome>>
  /\ UNCHANGED <<conn, inRun, mine, ran, faults>>

CloseDone(t) ==
  /\ pc[t] = "closeWait" /\ IsClosed(conn)
  /\ conn' = 0
  /\ lock' = NoTask
  /\ Closed(t)
  /\ UNCHANGED <<cstate, inRun, mine, ran, faults>>

\* The task is cancelled where it waits; the "async with" blocks give back
\* what it holds, and a connection being closed stays the client's.
Cancel(t) ==
  /\ pc[t] # "idle" /\ Fault
  /\ lock' = IF lock = t THEN NoTask ELSE lock
  /\ IF t \in Holders
     THEN EndRun(t, "cancelled")
     ELSE /\ Goto(t, "idle")
          /\ outcome' = [outcome EXCEPT ![t] = "cancelled"]
          /\ UNCHANGED permits
  /\ UNCHANGED <<conn, cstate, inRun, mine, ran>>

-----------------------------------------------------------------------------
\* The network

\* A connection that is closing is closed after a while.
Finish(c) ==
  /\ cstate[c] = "closing"
  /\ cstate' = [cstate EXCEPT ![c] = "closed"]
  /\ UNCHANGED <<conn, lock, permits, pc, local, faults>>

\* The device or the network ends the connection.
Drop(c) ==
  /\ cstate[c] = "open" /\ Fault
  /\ cstate' = [cstate EXCEPT ![c] = "closing"]
  /\ UNCHANGED <<conn, lock, permits, pc, local>>

-----------------------------------------------------------------------------
RunStep(t) == \/ EnterSem(t) \/ Ensure(t) \/ Connected(t) \/ ConnectFails(t)
              \/ CommandDone(t) \/ CommandCut(t) \/ CommandTimeout(t)
CloseStep(t) == CloseConn(t) \/ CloseDone(t)
Network == \E c \in 1..Len(cstate) : Finish(c) \/ Drop(c)

Next == \/ \E t \in Tasks : \/ CallRun(t) /\ UNCHANGED faults
                            \/ RunStep(t) \/ Execute(t)
                            \/ CallClose(t) /\ Fault
                            \/ CloseStep(t) \/ Cancel(t)
        \/ Network

Spec == Init /\ [][Next]_vars

-----------------------------------------------------------------------------
\* Properties

\* The lock is held by exactly the task that opens or closes the connection.
LockHeld == \A t \in Tasks : lock = t <=> pc[t] \in {"connect", "closeWait"}

\* Every variable has its type, and the lock the holder it should have.
TypeOK ==
  /\ cstate \in Seq({"open", "closing", "closed"}) /\ conn \in 0..Len(cstate)
  /\ lock \in Tasks \cup {NoTask} /\ permits \in 0..MaxConcurrent
  /\ pc \in [Tasks -> Pcs] /\ inRun \in [Tasks -> BOOLEAN]
  /\ mine \in [Tasks -> 0..Len(cstate)]
  /\ ran \in [Tasks -> BOOLEAN] /\ outcome \in [Tasks -> Outcomes]
  /\ faults \in 0..MaxFaults
  /\ LockHeld

\* No permit of the semaphore is lost or made up, on whatever path a run()
\* ends (timeouts of the connection and of the command, cancellation while it
\* waits for the lock): bounded concurrency, and no run() starved of permits.
PermitsConserved == permits + Cardinality(Holders) = MaxConcurrent

\* "One reusable SSH connection per host": a connection that is not closed is
\* the client's own, so a reconnect and a close that race never leak one.
OneConnection == \A c \in 1..Len(cstate) : cstate[c] # "closed" => c = conn

\* "closes the connection so the next call re-establishes" (run): when run()
\* has raised the timeout, the connection it used is closed, though another
\* task may have replaced or be closing the client's connection meanwhile.
TimedOutClosed == \A t \in Tasks : outcome[t] = "timeout" => IsClosed(mine[t])

Pool == INSTANCE SshPool
          WITH running <- Holders, open <- {c \in 1..Len(cstate) : cstate[c] # "closed"}

\* "One reusable SSH connection per host, bounded concurrency" (the module's
\* docstring): what the tasks do to the client is what they may do to a pool
\* with one connection and max_concurrent places.
PoolKept == Pool!Spec
=============================================================================
