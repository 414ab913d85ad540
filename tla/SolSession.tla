----------------------------- MODULE SolSession -----------------------------
(***************************************************************************)
(* One Serial-over-LAN session (ipmi/sol.py): the context manager builds   *)
(* pyghmi's Console in a thread, hands out a receiver and a sender, and    *)
(* closes the console in a thread on the way out.  Bytes of the host reach *)
(* the receiver through two hops, a callback that pyghmi's thread schedules*)
(* on the loop and a bounded queue.                                        *)
(*                                                                         *)
(* A console that the BMC cut off (another session took the payload over,  *)
(* for force=True lets everybody) tells _on_data so with a dict, which it  *)
(* ignores: here it is a host that stays silent.                           *)
(***************************************************************************)
EXTENDS Integers, Sequences, FiniteSets

CONSTANTS
  Senders,    \* the asyncio tasks that use the sender
  NoSender,   \* the holder of send_lock when it has none
  Capacity,   \* the queue's maxsize
  MaxChunks,  \* bound: chunks the host sends, numbered in their order
  MaxFaults   \* bound: cancellations, and exceptions of the console

ASSUME SolAssumption ==
  /\ IsFiniteSet(Senders) /\ NoSender \notin Senders
  /\ Capacity \in Nat \ {0} /\ MaxChunks \in Nat /\ MaxFaults \in Nat

VARIABLES
  owner,     \* the task in sol_session: before it, "building" the console, in
             \* the "body" of the async with, "closing", or "out"
  job,       \* the thread that builds or closes the console: "none",
             \* "queued" for a worker or "running"
  console,   \* "none", "open", "closed", or "failed": its close() raised
  closed,    \* the Event
  emitted,   \* chunks the host sent so far
  soon,      \* callbacks scheduled on the loop, in order
  queue,     \* the asyncio.Queue
  receiver,  \* "waiting" for the queue, "holding" a chunk it yielded, "over"
  received,  \* the chunks it yielded
  backlog,   \* the most chunks that ever waited for it
  sender,    \* of each sender: "idle", "lock", "queued" or "running"
  lock,      \* holder of send_lock, or NoSender
  orphans,   \* threads in send_data whose caller was cancelled
  faults,    \* faults so far
  unclosed   \* the cancellations that left nobody to close the console

session == <<owner, job, console, closed, unclosed>>
data    == <<emitted, soon, queue, receiver, received, backlog>>
sends   == <<sender, lock, orphans>>
vars    == <<session, data, sends, faults>>

-----------------------------------------------------------------------------
Init ==
  /\ owner = "before" /\ job = "none" /\ console = "none"
  /\ closed = FALSE /\ unclosed = 0
  /\ emitted = 0 /\ soon = <<>> /\ queue = <<>>
  /\ receiver = "waiting" /\ received = <<>> /\ backlog = 0
  /\ sender = [t \in Senders |-> "idle"] /\ lock = NoSender /\ orphans = 0
  /\ faults = 0

Fault == faults < MaxFaults /\ faults' = faults + 1

\* The caller has the receiver and the sender.
Entered == closed \/ owner = "body"

-----------------------------------------------------------------------------
\* sol_session

Enter ==
  /\ owner = "before"
  /\ owner' = "building" /\ job' = "queued"
  /\ UNCHANGED <<console, closed, unclosed, data, sends, faults>>

\* A worker of the executor takes the job.
JobStarts ==
  /\ job = "queued"
  /\ job' = "running"
  /\ UNCHANGED <<owner, console, closed, unclosed, data, sends, faults>>

\* The console is there; a caller who was cancelled meanwhile never sees it.
Built ==
  /\ console = "none" /\ job = "running"
  /\ job' = "none" /\ console' = "open"
  /\ owner' = IF owner = "building" THEN "body" ELSE owner
  /\ UNCHANGED <<closed, unclosed, data, sends, faults>>

BuildRaises ==
  /\ console = "none" /\ job = "running" /\ Fault
  /\ job' = "none" /\ owner' = "out"
  /\ UNCHANGED <<console, closed, unclosed, data, sends>>

\* The body returns, raises or is cancelled: the finally.
ExitUnlessRaised ==
  /\ owner = "body"
  /\ closed' = TRUE
  /\ \/ owner' = "closing" /\ job' = "queued"
     \/ owner' = "out" /\ UNCHANGED job
  /\ UNCHANGED <<console, unclosed, data, sends, faults>>
Exit ==
  /\ owner = "body"
  /\ closed' = TRUE /\ owner' = "closing" /\ job' = "queued"
  /\ UNCHANGED <<console, unclosed, data, sends, faults>>

\* close() is over.  An exception of it is swallowed, and leaves it open who
\* has the payload.
ConsoleCloses ==
  /\ console = "open" /\ job = "running"
  /\ job' = "none" /\ owner' = "out"
  /\ \/ console' = "closed" /\ UNCHANGED faults
     \/ console' = "failed" /\ Fault
  /\ UNCHANGED <<closed, unclosed, data, sends>>

\* Cancelled while it waits for a thread: a job that no worker has taken is
\* dropped, one that runs goes on by itself.
StaysOpen == IF owner = "building" THEN job = "running" ELSE job = "queued"

CancelOwner ==
  /\ owner \in {"building", "closing"} /\ Fault
  /\ owner' = "out"
  /\ job' = IF job = "queued" THEN "none" ELSE job
  /\ unclosed' = unclosed + IF StaysOpen THEN 1 ELSE 0
  /\ UNCHANGED <<console, closed, data, sends>>

\* The caller is done with the session and opens the next one, with a console,
\* a queue and an event of its own.
Again ==
  /\ owner = "out" /\ job = "none" /\ (closed => receiver = "over")
  /\ \A t \in Senders : sender[t] = "idle"
  /\ orphans = 0
  /\ owner' = "before" /\ console' = "none" /\ closed' = FALSE /\ unclosed' = 0
  /\ emitted' = 0 /\ soon' = <<>> /\ queue' = <<>>
  /\ receiver' = "waiting" /\ received' = <<>> /\ backlog' = 0
  /\ UNCHANGED <<job, sends, faults>>

-----------------------------------------------------------------------------
\* From the host to the receiver

\* _on_data, in pyghmi's thread: call_soon_threadsafe.
OnData ==
  /\ console \in {"open", "failed"} /\ emitted < MaxChunks
  /\ emitted' = emitted + 1
  /\ soon' = Append(soon, emitted')
  /\ backlog' = LET n == Len(queue) + Len(soon') IN IF n > backlog THEN n ELSE backlog
  /\ UNCHANGED <<session, queue, receiver, received, sends, faults>>

\* put_nowait, in the loop: QueueFull goes to the loop's exception handler.
PutInFront ==
  /\ soon # <<>>
  /\ soon' = Tail(soon)
  /\ queue' = IF Len(queue) < Capacity THEN <<Head(soon)>> \o queue ELSE queue
  /\ UNCHANGED <<session, emitted, receiver, received, backlog, sends, faults>>
Put ==
  /\ soon # <<>>
  /\ soon' = Tail(soon)
  /\ queue' = IF Len(queue) < Capacity THEN Append(queue, Head(soon)) ELSE queue
  /\ UNCHANGED <<session, emitted, receiver, received, backlog, sends, faults>>

\* _receiver: queue.get() has a chunk, and it is yielded.
Receive ==
  /\ Entered /\ receiver = "waiting" /\ queue # <<>>
  /\ queue' = Tail(queue)
  /\ received' = Append(received, Head(queue))
  /\ receiver' = "holding"
  /\ UNCHANGED <<session, emitted, soon, backlog, sends, faults>>

\* The loop's test, after a chunk (the caller asks for the next one) or after
\* half a second without one.
LoopTest == receiver' = IF closed THEN "over" ELSE "waiting"

NextAfterChunk ==
  /\ receiver = "holding" /\ LoopTest
  /\ UNCHANGED <<session, emitted, soon, queue, received, backlog, sends, faults>>

TimeoutNever == FALSE
Timeout ==
  /\ Entered /\ receiver = "waiting" /\ LoopTest
  /\ UNCHANGED <<session, emitted, soon, queue, received, backlog, sends, faults>>

-----------------------------------------------------------------------------
\* _SoLSender.__call__

Goto(t, where) == sender' = [sender EXCEPT ![t] = where]

Send(t) ==
  /\ Entered /\ sender[t] = "idle"
  /\ Goto(t, "lock")
  /\ UNCHANGED <<session, data, lock, orphans, faults>>

LockIgnored == TRUE
LockFree == lock = NoSender

SendLocks(t) ==
  /\ sender[t] = "lock" /\ LockFree
  /\ lock' = t /\ Goto(t, "queued")
  /\ UNCHANGED <<session, data, orphans, faults>>

SendStarts(t) ==
  /\ sender[t] = "queued"
  /\ Goto(t, "running")
  /\ UNCHANGED <<session, data, lock, orphans, faults>>

\* send_data returns or raises; nothing keeps close() from running beside it.
Sent(t) ==
  /\ sender[t] = "running"
  /\ lock' = NoSender /\ Goto(t, "idle")
  /\ UNCHANGED <<session, data, orphans, faults>>

\* Cancelled: the lock is given back, and a thread in send_data goes on.
CancelSend(t) ==
  /\ sender[t] # "idle" /\ Fault
  /\ lock' = IF lock = t THEN NoSender ELSE lock
  /\ Goto(t, "idle")
  /\ orphans' = orphans + IF sender[t] = "running" THEN 1 ELSE 0
  /\ UNCHANGED <<session, data>>

OrphanEnds ==
  /\ orphans > 0
  /\ orphans' = orphans - 1
  /\ UNCHANGED <<session, data, sender, lock, faults>>

-----------------------------------------------------------------------------
Session == \/ Enter \/ JobStarts \/ Built \/ BuildRaises
           \/ Exit \/ ConsoleCloses \/ CancelOwner \/ Again
Data    == OnData \/ Put \/ Receive \/ NextAfterChunk \/ Timeout
Sending(t) == Send(t) \/ SendLocks(t) \/ SendStarts(t) \/ Sent(t) \/ CancelSend(t)

Next == Session \/ Data \/ OrphanEnds \/ \E t \in Senders : Sending(t)
Spec == Init /\ [][Next]_vars

\* The executor has a free worker in the end, pyghmi's calls return, the loop
\* runs what is scheduled on it and hands the lock on in order, and a caller
\* who iterates over the receiver asks for the next chunk.
Fairness ==
  /\ WF_vars(JobStarts \/ Built \/ ConsoleCloses)
  /\ WF_vars(Put) /\ WF_vars(NextAfterChunk \/ Receive \/ (Timeout /\ closed))
  /\ \A t \in Senders : SF_vars(SendLocks(t)) /\ WF_vars(SendStarts(t) \/ Sent(t))

FairSpec == Spec /\ Fairness

-----------------------------------------------------------------------------
\* Properties

\* Every variable has its type, a body runs on an open console, and send_lock
\* keeps all but cancelled senders' threads from sharing the console's
\* send_data (_SoLSender.__call__).
TypeOK ==
  /\ owner \in {"before", "building", "body", "closing", "out"}
  /\ job \in {"none", "queued", "running"} /\ console \in {"none", "open", "closed", "failed"}
  /\ owner = "body" => console = "open" /\ job = "none" /\ ~ closed
  /\ closed \in BOOLEAN /\ emitted \in 0..MaxChunks /\ backlog \in 0..MaxChunks
  /\ receiver \in {"waiting", "holding", "over"} /\ Len(queue) <= Capacity
  /\ sender \in [Senders -> {"idle", "lock", "queued", "running"}]
  /\ lock \in Senders \cup {NoSender} /\ orphans \in 0..faults /\ unclosed \in 0..faults
  /\ \A t \in Senders : lock = t <=> sender[t] \in {"queued", "running"}

\* "receiver yields raw bytes from the host UART" (sol_session): in their
\* order and each once, through both hops; and none is lost on the way as long
\* as no more than maxsize of them waited for the receiver at a time.
Way == received \o queue \o soon
InOrder ==
  /\ \A j, k \in 1..Len(Way) : j < k => Way[j] < Way[k]
  /\ backlog <= Capacity => Len(Way) = emitted

\* close() is called on every console, whichever way the body ended (the
\* finally of sol_session), but for the two cancellations that leave nobody to
\* call it: one while a thread builds the console, and one while the close()
\* waits for a thread.
Left == owner = "out" /\ job = "none"
ConsoleAccounted == Left /\ console = "open" => unclosed > 0

\* "Always sends Deactivate Payload on exit" (CHANGELOG), by a close() that "we
\* always call in the finally block" (ipmi/sol.py): once the body has ended, the
\* session is left and no thread is at work for it, close() has been called.
\* It fails: a cancellation meets the close() before a thread has taken it.
Deactivated == Left /\ closed => console # "open"

\* Every wait ends: sol_session gets in or out, a receiver that is iterated
\* learns of the close though nothing more arrives, and so does every sender.
SolEnds ==
  /\ owner \in {"building", "closing"} ~> owner \in {"body", "out"}
  /\ closed ~> receiver = "over"
  /\ \A t \in Senders : sender[t] # "idle" ~> sender[t] = "idle"
=============================================================================
