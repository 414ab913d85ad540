----------------------------- MODULE IpmiClient -----------------------------
(***************************************************************************)
(* IPMIClient (ipmi/client.py): one pyghmi session, used from worker       *)
(* threads.                                                                *)
(*                                                                         *)
(* A method submits a function to a thread (asyncio.to_thread) and awaits  *)
(* it, most of them with self._lock held.  Cancelling the task does not    *)
(* stop a thread that runs: the lock is free and the thread goes on, an    *)
(* orphan.  What a thread reads of self._cmd it reads when it starts.      *)
(***************************************************************************)
EXTENDS Integers, Sequences, FiniteSets

CONSTANTS
  Tasks,       \* the asyncio tasks that use the client
  NoTask,      \* the lock's holder when it has none
  Owner,       \* the task that runs "async with client"
  MaxCancels,  \* bound on cancellations
  MaxFaults,   \* bound on BMC failures and refused credentials
  MaxOpens     \* bound on __aenter__ calls

ASSUME IpmiAssumption ==
  /\ IsFiniteSet(Tasks) /\ Owner \in Tasks /\ NoTask \notin Tasks
  /\ MaxCancels \in Nat /\ MaxFaults \in Nat /\ MaxOpens \in Nat

VARIABLES
  cmd,      \* self._cmd: a session, 0 is None
  sess,     \* the sessions with the BMC so far: "up" or "out"
  lock,     \* holder of self._lock, or NoTask
  pc,       \* where each task waits
  job,      \* the thread each task waits for
  orphans,  \* threads whose task was cancelled
  usable,   \* __aenter__ has returned: tasks have the client
  opens, cancels, faults

vars == <<cmd, sess, lock, pc, job, orphans, usable, opens, cancels, faults>>

Pcs   == {"idle", "build", "ident", "lock", "op", "closeLock", "logout"}
Kinds == {"none", "build", "ident", "op", "logout"}
Steps == {"queued", "running", "done", "failed"}

\* A thread: what it does, the session it talks on and how far it is.
Thread(kind, on) == [kind |-> kind, on |-> on, st |-> "queued"]
NoThread == [kind |-> "none", on |-> 0, st |-> "done"]

-----------------------------------------------------------------------------
Init ==
  /\ cmd = 0 /\ sess = <<>> /\ lock = NoTask
  /\ pc = [t \in Tasks |-> "idle"]
  /\ job = [t \in Tasks |-> NoThread]
  /\ orphans = {} /\ usable = FALSE
  /\ opens = 0 /\ cancels = 0 /\ faults = 0

Goto(t, where, thread) == /\ pc' = [pc EXCEPT ![t] = where]
                          /\ job' = [job EXCEPT ![t] = thread]
Back(t) == Goto(t, "idle", NoThread)

Ended(t) == job[t].st \in {"done", "failed"}

-----------------------------------------------------------------------------
\* __aenter__: build the session, then identify the BMC, both unlocked.

Open(t) ==
  /\ t = Owner /\ pc[t] = "idle" /\ opens < MaxOpens
  /\ opens' = opens + 1
  /\ Goto(t, "build", Thread("build", 0))
  /\ UNCHANGED <<cmd, sess, lock, orphans, usable, cancels, faults>>

Built(t) ==
  /\ pc[t] = "build" /\ Ended(t)
  /\ IF job[t].st = "done"
     THEN cmd' = job[t].on /\ Goto(t, "ident", Thread("ident", job[t].on))
     ELSE Back(t) /\ UNCHANGED cmd
  /\ UNCHANGED <<sess, lock, orphans, usable, opens, cancels, faults>>

\* A failed identification counts as an unknown vendor.  Documented default
\* credentials are refused with a PermissionError out of __aenter__, which
\* runs no __aexit__: the session stays.
Identified(t) ==
  /\ pc[t] = "ident" /\ Ended(t)
  /\ \/ usable' = TRUE /\ UNCHANGED faults
     \/ /\ job[t].st = "done" /\ faults < MaxFaults
        /\ faults' = faults + 1
        /\ UNCHANGED usable
  /\ Back(t)
  /\ UNCHANGED <<cmd, sess, lock, orphans, opens, cancels>>

-----------------------------------------------------------------------------
\* power_action, chassis_status, sensors, fru, sel_entries, sel_clear: they
\* check self._cmd, take the lock, and let a thread use self._cmd.

LockIgnored == TRUE
LockFree == lock = NoTask

CallOp(t) ==
  /\ pc[t] = "idle" /\ usable /\ cmd # 0
  /\ Goto(t, "lock", NoThread)
  /\ UNCHANGED <<cmd, sess, lock, orphans, usable, opens, cancels, faults>>

LockOp(t) ==
  /\ pc[t] = "lock" /\ LockFree
  /\ lock' = t
  /\ Goto(t, "op", Thread("op", 0))
  /\ UNCHANGED <<cmd, sess, orphans, usable, opens, cancels, faults>>

\* It returns, or raises the thread's exception; the three that read lists
\* turn it into an empty one.
OpReturnsLocked(t) ==
  /\ pc[t] = "op" /\ Ended(t)
  /\ Back(t)
  /\ UNCHANGED <<cmd, sess, lock, orphans, usable, opens, cancels, faults>>
OpReturns(t) ==
  /\ pc[t] = "op" /\ Ended(t)
  /\ lock' = NoTask
  /\ Back(t)
  /\ UNCHANGED <<cmd, sess, orphans, usable, opens, cancels, faults>>

-----------------------------------------------------------------------------
\* aclose()

CallClose(t) ==
  /\ pc[t] = "idle" /\ usable
  /\ Goto(t, "closeLock", NoThread)
  /\ UNCHANGED <<cmd, sess, lock, orphans, usable, opens, cancels, faults>>

\* The session is the client's no more before it is logged out.
TakesSessionLate == UNCHANGED cmd
TakesSession == cmd' = 0

LockCloseForgets(t) ==
  /\ pc[t] = "closeLock" /\ LockFree
  /\ TakesSession /\ Back(t)
  /\ UNCHANGED <<sess, lock, orphans, usable, opens, cancels, faults>>
LockClose(t) ==
  /\ pc[t] = "closeLock" /\ LockFree
  /\ IF cmd = 0
     THEN Back(t) /\ UNCHANGED <<cmd, lock>>
     ELSE /\ lock' = t /\ TakesSession
          /\ Goto(t, "logout", Thread("logout", cmd))
  /\ UNCHANGED <<sess, orphans, usable, opens, cancels, faults>>

Closed(t) ==
  /\ pc[t] = "logout" /\ Ended(t)
  /\ lock' = NoTask
  /\ Back(t)
  /\ UNCHANGED <<cmd, sess, orphans, usable, opens, cancels, faults>>

-----------------------------------------------------------------------------
\* Threads and cancellation

\* A thread starts: it reads self._cmd if that is its business, and fails at
\* once when the client was closed since the method checked it.
Started(th) ==
  IF th.kind # "op" THEN [th EXCEPT !.st = "running"]
  ELSE [th EXCEPT !.on = cmd, !.st = IF cmd = 0 THEN "failed" ELSE "running"]

Start(t) ==
  /\ job[t].st = "queued"
  /\ job' = [job EXCEPT ![t] = Started(job[t])]
  /\ UNCHANGED <<cmd, sess, lock, pc, orphans, usable, opens, cancels, faults>>

\* What a thread that succeeds does to the sessions, and what it then holds.
NewSession == Len(sess) + 1

Effect(th) ==
  CASE th.kind = "build"  -> sess' = Append(sess, "up")
    [] th.kind = "logout" -> sess' = [sess EXCEPT ![th.on] = "out"]
    [] OTHER -> UNCHANGED sess

Result(th, st) ==
  [th EXCEPT !.st = st,
             !.on = IF th.kind = "build" /\ st = "done" THEN NewSession ELSE @]

\* pyghmi cannot talk on a session that is out.
Dead(th) == th.kind = "op" /\ sess[th.on] = "out"

Succeeds(th) == th.st = "running" /\ ~ Dead(th) /\ Effect(th) /\ UNCHANGED faults

\* pyghmi raises: no answer in time, a refused login, a session that is out.
Fails(th) ==
  /\ th.st = "running"
  /\ IF Dead(th) THEN UNCHANGED faults
                 ELSE faults < MaxFaults /\ faults' = faults + 1
  /\ UNCHANGED sess

Finish(t) ==
  /\ \/ Succeeds(job[t]) /\ job' = [job EXCEPT ![t] = Result(@, "done")]
     \/ Fails(job[t]) /\ job' = [job EXCEPT ![t] = Result(@, "failed")]
  /\ UNCHANGED <<cmd, lock, pc, orphans, usable, opens, cancels>>

\* An orphan ends, and nobody sees its result.
OrphanEnds(o) ==
  /\ Succeeds(o.thread) \/ Fails(o.thread)
  /\ orphans' = orphans \ {o}
  /\ UNCHANGED <<cmd, lock, pc, job, usable, opens, cancels>>

\* The task is cancelled: a thread still queued never runs, one that runs
\* goes on, the result of one that is done is lost, and the lock is free.
Cancel(t) ==
  /\ pc[t] # "idle" /\ cancels < MaxCancels
  /\ cancels' = cancels + 1
  /\ orphans' = IF job[t].st = "running"
                THEN orphans \cup {[id |-> cancels, thread |-> job[t]]} ELSE orphans
  /\ lock' = IF lock = t THEN NoTask ELSE lock
  /\ Back(t)
  /\ UNCHANGED <<cmd, sess, usable, opens, faults>>

-----------------------------------------------------------------------------
Next == \/ \E t \in Tasks : \/ Open(t) \/ Built(t) \/ Identified(t)
                            \/ CallOp(t) \/ LockOp(t) \/ OpReturns(t)
                            \/ CallClose(t) \/ LockClose(t) \/ Closed(t)
                            \/ Start(t) \/ Finish(t) \/ Cancel(t)
        \/ \E o \in orphans : OrphanEnds(o)

Spec == Init /\ [][Next]_vars

\* The lock is FIFO; a thread starts when the pool has a worker and ends, for
\* pyghmi bounds its own retries.
Fairness ==
  /\ \A t \in Tasks : /\ WF_vars(Built(t) \/ Identified(t) \/ OpReturns(t) \/ Closed(t))
                      /\ SF_vars(LockOp(t)) /\ SF_vars(LockClose(t))
                      /\ WF_vars(Start(t)) /\ WF_vars(Finish(t))

FairSpec == Spec /\ Fairness

-----------------------------------------------------------------------------
\* Properties

Threads == {job[t] : t \in {u \in Tasks : job[u].kind # "none"}}
           \cup {o.thread : o \in orphans}

\* Every variable has its type; the lock is held by the task whose thread
\* runs a command or a logout.
TypeOK ==
  /\ sess \in Seq({"up", "out"}) /\ cmd \in 0..Len(sess)
  /\ lock \in Tasks \cup {NoTask}
  /\ pc \in [Tasks -> Pcs]
  /\ job \in [Tasks -> [kind : Kinds, on : 0..Len(sess), st : Steps]]
  /\ \A o \in orphans : o.id \in 0..(cancels - 1) /\ o.thread.st = "running"
  /\ usable \in BOOLEAN
  /\ opens \in 0..MaxOpens /\ cancels \in 0..MaxCancels
  /\ faults \in 0..MaxFaults
  /\ \A t \in Tasks : lock = t <=> pc[t] \in {"op", "logout"}

\* A command whose caller still waits never talks on a session that is being
\* logged out or is out, even when the aclose() was cancelled half way, and
\* the client never hands out such a session.
LiveSession ==
  /\ \A t \in Tasks : job[t].kind = "op" /\ job[t].st = "running" =>
       /\ sess[job[t].on] = "up"
       /\ \A th \in Threads : th.kind = "logout" => th.on # job[t].on
  /\ cmd # 0 => sess[cmd] = "up"

\* Sessions are scarce on a BMC.  Those the client has lost without logging
\* them out are due to a cancellation, a failed logout, or an __aenter__ of a
\* client that still has one (it was refused, say), one each.
Held == {cmd} \cup {th.on : th \in Threads}
NoSessionLost ==
  Cardinality({s \in 1..Len(sess) : sess[s] = "up" /\ s \notin Held})
    <= cancels + faults + (IF opens > 0 THEN opens - 1 ELSE 0)

\* "we serialise commands through an asyncio.Lock to avoid in-flight
\* reordering" (module docstring): two threads never talk on one session at
\* the same time.  It fails when a caller is cancelled.
Talking == {t \in Tasks : job[t].st = "running" /\ job[t].kind \in {"ident", "op", "logout"}}
TalkingOrphans == {o \in orphans : o.thread.kind # "build"}
Serialised ==
  /\ \A t \in Talking, o \in TalkingOrphans : job[t].on # o.thread.on
  /\ \A t, u \in Talking : t # u => job[t].on # job[u].on

\* The same, of the commands and logouts that took the lock and whose callers
\* still wait.  The Get Device ID of an __aenter__ takes no lock.
SerialUnlessCancelled ==
  Cardinality({t \in Talking : job[t].kind # "ident"}) <= 1

\* Every call ends.
CallsReturn == \A t \in Tasks : pc[t] # "idle" ~> pc[t] = "idle"
=============================================================================
