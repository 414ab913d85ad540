-------------------------- MODULE SolSessionProofs --------------------------
(***************************************************************************)
(* Theorems about SolSession, for any senders, any capacity of the queue   *)
(* and any number of chunks, faults and sessions.                          *)
(***************************************************************************)
EXTENDS SolSession, SequenceTheorems, TLAPS

-----------------------------------------------------------------------------
(***************************************************************************)
(* The context manager.  Stage says what is left to do at each place of    *)
(* the owner: whether a thread is at work, and on what console.            *)
(***************************************************************************)
Stage ==
  /\ owner = "before" => job = "none" /\ console = "none" /\ ~ closed
  /\ owner = "building" => job # "none" /\ console = "none" /\ ~ closed
  /\ owner = "body" => job = "none" /\ console = "open" /\ ~ closed
  /\ owner = "closing" => job # "none" /\ console = "open" /\ closed
  /\ owner = "out" => /\ job # "queued"
                      /\ job = "running" /\ console = "none" => unclosed > 0
                      /\ job = "none" /\ console = "open" => unclosed > 0

SessionTyped ==
  /\ owner \in {"before", "building", "body", "closing", "out"}
  /\ job \in {"none", "queued", "running"} /\ console \in {"none", "open", "closed", "failed"}
  /\ closed \in BOOLEAN /\ unclosed \in 0..faults

SendsTyped ==
  /\ sender \in [Senders -> {"idle", "lock", "queued", "running"}]
  /\ lock \in Senders \cup {NoSender} /\ orphans \in 0..faults
  /\ \A t \in Senders : lock = t <=> sender[t] \in {"queued", "running"}

(***************************************************************************)
(* The way of the chunks.  Each queue is increasing, and all in it is      *)
(* behind what has left it; Whole says that nothing was dropped.           *)
(***************************************************************************)
Increasing(s) == \A j, k \in 1..Len(s) : j < k => s[j] < s[k]
Before(s, u)  == \A j \in 1..Len(s), k \in 1..Len(u) : s[j] < u[k]
UpTo(s, n)    == \A j \in 1..Len(s) : s[j] <= n

DataTyped ==
  /\ emitted \in 0..MaxChunks
  /\ soon \in Seq(Nat) /\ queue \in Seq(Nat) /\ received \in Seq(Nat)
  /\ receiver \in {"waiting", "holding", "over"}
  /\ backlog \in Nat /\ backlog <= emitted /\ Len(queue) <= Capacity

Ordered ==
  /\ Increasing(received) /\ Increasing(queue) /\ Increasing(soon)
  /\ Before(received, queue) /\ Before(received, soon) /\ Before(queue, soon)
  /\ UpTo(received, emitted) /\ UpTo(queue, emitted) /\ UpTo(soon, emitted)

Counted ==
  /\ Len(received) + Len(queue) + Len(soon) <= emitted
  /\ Len(queue) + Len(soon) <= backlog
  /\ backlog <= Capacity => Len(received) + Len(queue) + Len(soon) = emitted

FaultsTyped == faults \in 0..MaxFaults

SInv == SessionTyped /\ Stage /\ SendsTyped /\ DataTyped /\ Ordered /\ Counted /\ FaultsTyped

LEMMA SInvInit == Init => SInv
<1> SUFFICES ASSUME Init PROVE SInv
  OBVIOUS
<1> USE SolAssumption DEF Init
<1>1. SessionTyped /\ Stage /\ FaultsTyped
  <2>1. unclosed \in 0..faults /\ FaultsTyped
    BY DEF FaultsTyped
  <2>2. closed \in BOOLEAN /\ Stage
    BY DEF Stage
  <2>3. QED
    BY <2>1, <2>2 DEF SessionTyped
<1>2. SendsTyped
  BY DEF SendsTyped
<1>3. <<>> \in Seq(Nat) /\ Len(<<>>) = 0
  BY EmptySeq
<1>4. DataTyped
  BY <1>3 DEF DataTyped
<1>5. Ordered
  <2>1. Len(received) = 0 /\ Len(queue) = 0 /\ Len(soon) = 0
    BY <1>3
  <2>2. \A j \in 1..0 : FALSE
    OBVIOUS
  <2>3. QED
    BY ONLY <2>1, <2>2 DEF Ordered, Increasing, Before, UpTo
<1>6. Counted
  BY <1>3 DEF Counted
<1>7. QED
  BY <1>1, <1>2, <1>4, <1>5, <1>6 DEF SInv

-----------------------------------------------------------------------------
(***************************************************************************)
(* What the two hops do to the sequences.                                  *)
(***************************************************************************)
LEMMA AppendLast ==
  ASSUME NEW s \in Seq(Nat), NEW x \in Nat
  PROVE  LET a == Append(s, x) IN
         /\ a \in Seq(Nat) /\ Len(a) = Len(s) + 1 /\ Len(s) \in Nat
         /\ \A j \in 1..Len(a) : a[j] = IF j = Len(a) THEN x ELSE s[j]
         /\ \A j \in 1..Len(s) : s[j] \in Nat
BY AppendProperties, LenProperties, ElementOfSeq

LEMMA TakeFirst ==
  ASSUME NEW s \in Seq(Nat), s # <<>>
  PROVE  /\ Head(s) \in Nat /\ Head(s) = s[1] /\ Tail(s) \in Seq(Nat)
         /\ Len(s) \in Nat \ {0} /\ Len(Tail(s)) = Len(s) - 1
         /\ \A j \in 1..Len(Tail(s)) : Tail(s)[j] = s[j + 1]
         /\ \A j \in 1..Len(s) : s[j] \in Nat
BY HeadTailProperties, LenProperties, ElementOfSeq, EmptySeq

LEMMA Joined ==
  ASSUME NEW s \in Seq(Nat), NEW u \in Seq(Nat)
  PROVE  /\ s \o u \in Seq(Nat) /\ Len(s \o u) = Len(s) + Len(u)
         /\ \A j \in 1..Len(s) + Len(u) : (s \o u)[j] = IF j <= Len(s) THEN s[j] ELSE u[j - Len(s)]
BY ConcatProperties

LEMMA AppendIncreasing ==
  ASSUME NEW s \in Seq(Nat), NEW x \in Nat, Increasing(s), \A j \in 1..Len(s) : s[j] < x
  PROVE  Increasing(Append(s, x))
BY AppendLast DEF Increasing

LEMMA TailIncreasing ==
  ASSUME NEW s \in Seq(Nat), s # <<>>, Increasing(s)
  PROVE  Increasing(Tail(s)) /\ \A j \in 1..Len(Tail(s)) : Head(s) < Tail(s)[j]
<1>1. /\ Head(s) = s[1] /\ Len(s) \in Nat \ {0} /\ Len(Tail(s)) = Len(s) - 1
      /\ \A j \in 1..Len(Tail(s)) : Tail(s)[j] = s[j + 1]
  BY TakeFirst
<1>2. \A j \in 1..Len(Tail(s)) : /\ j + 1 \in 1..Len(s) /\ 1 \in 1..Len(s) /\ 1 < j + 1
  BY <1>1
<1>3. ASSUME NEW j \in 1..Len(Tail(s)), NEW k \in 1..Len(Tail(s)), j < k
      PROVE  Tail(s)[j] < Tail(s)[k]
  <2>1. j + 1 \in 1..Len(s) /\ k + 1 \in 1..Len(s) /\ j + 1 < k + 1
    BY <1>1, <1>2, <1>3
  <2>2. s[j + 1] < s[k + 1]
    BY <2>1 DEF Increasing
  <2> QED BY <1>1, <2>2
<1>4. ASSUME NEW j \in 1..Len(Tail(s))
      PROVE  Head(s) < Tail(s)[j]
  <2>1. s[1] < s[j + 1]
    BY <1>2 DEF Increasing
  <2> QED BY <1>1, <2>1
<1> QED BY <1>3, <1>4 DEF Increasing

LEMMA AppendBefore ==
  ASSUME NEW s \in Seq(Nat), NEW x \in Nat, NEW u \in Seq(Nat), Before(s, u),
         \A k \in 1..Len(u) : x < u[k]
  PROVE  Before(Append(s, x), u)
BY AppendLast, LenProperties DEF Before

LEMMA BeforeAppend ==
  ASSUME NEW s \in Seq(Nat), NEW x \in Nat, NEW u \in Seq(Nat), Before(s, u),
         \A j \in 1..Len(s) : s[j] < x
  PROVE  Before(s, Append(u, x))
<1> DEFINE a == Append(u, x)
<1>1. /\ Len(a) = Len(u) + 1 /\ Len(u) \in Nat
      /\ \A k \in 1..Len(a) : a[k] = IF k = Len(a) THEN x ELSE u[k]
  BY AppendLast
<1>2. ASSUME NEW j \in 1..Len(s), NEW k \in 1..Len(a)
      PROVE  s[j] < a[k]
  <2>1. CASE k = Len(a)
    BY <1>1, <2>1
  <2>2. CASE k # Len(a)
    <3>1. k \in 1..Len(u) /\ a[k] = u[k]
      BY <1>1, <2>2
    <3>2. s[j] < u[k]
      BY <3>1 DEF Before
    <3> QED BY <3>1, <3>2
  <2> QED BY <2>1, <2>2
<1> QED BY <1>2 DEF Before

LEMMA TailBefore ==
  ASSUME NEW s \in Seq(Nat), s # <<>>, NEW u \in Seq(Nat)
  PROVE  /\ Before(s, u) => Before(Tail(s), u) /\ \A k \in 1..Len(u) : Head(s) < u[k]
         /\ Before(u, s) => Before(u, Tail(s)) /\ \A k \in 1..Len(u) : u[k] < Head(s)
<1> DEFINE r == Tail(s)
<1>1. /\ Head(s) = s[1] /\ Len(s) \in Nat \ {0} /\ Len(r) = Len(s) - 1
      /\ \A j \in 1..Len(r) : r[j] = s[j + 1]
  BY TakeFirst
<1>2. 1 \in 1..Len(s) /\ \A j \in 1..Len(r) : j + 1 \in 1..Len(s)
  BY <1>1
<1>3. ASSUME Before(s, u)
      PROVE  Before(r, u) /\ \A k \in 1..Len(u) : s[1] < u[k]
  BY <1>1, <1>2, <1>3 DEF Before
<1>4. ASSUME Before(u, s)
      PROVE  Before(u, r) /\ \A k \in 1..Len(u) : u[k] < s[1]
  BY <1>1, <1>2, <1>4 DEF Before
<1> QED BY <1>1, <1>3, <1>4

LEMMA BoundKept ==
  ASSUME NEW s \in Seq(Nat), NEW n \in Nat, UpTo(s, n)
  PROVE  /\ \A x \in Nat : x <= n => UpTo(Append(s, x), n)
         /\ s # <<>> => UpTo(Tail(s), n) /\ Head(s) <= n
         /\ UpTo(s, n + 1) /\ \A j \in 1..Len(s) : s[j] < n + 1
<1>1. \A x \in Nat : x <= n => UpTo(Append(s, x), n)
  BY AppendLast DEF UpTo
<1>2. s # <<>> => UpTo(Tail(s), n) /\ Head(s) <= n
  BY TakeFirst DEF UpTo
<1>3. UpTo(s, n + 1) /\ \A j \in 1..Len(s) : s[j] < n + 1
  BY ElementOfSeq DEF UpTo
<1>4. QED
  BY <1>1, <1>2, <1>3

-----------------------------------------------------------------------------
(***************************************************************************)
(* The steps, by what they are about.                                      *)
(***************************************************************************)

\* The faults of a step that is one.
LEMMA FaultTyped ==
  ASSUME FaultsTyped, Fault
  PROVE  FaultsTyped' /\ faults \in Nat /\ faults' = faults + 1
BY SolAssumption DEF FaultsTyped, Fault

LEMMA SessionStep ==
  ASSUME SInv, Session \/ UNCHANGED <<session, faults>>, ~ Again
  PROVE  SessionTyped' /\ Stage' /\ FaultsTyped' /\ faults' \in {faults, faults + 1}
<1> USE DEF SessionTyped, Stage
<1>0. SessionTyped /\ Stage /\ FaultsTyped /\ faults \in Nat /\ unclosed \in Nat
  BY SolAssumption DEF SInv, FaultsTyped
<1>1. CASE Enter \/ JobStarts \/ Built \/ Exit
  <2>1. faults' = faults /\ unclosed' = unclosed
    BY <1>1 DEF Enter, JobStarts, Built, Exit
  <2>2. FaultsTyped'
    BY <1>0, <2>1 DEF FaultsTyped
  <2>3. CASE Enter
    BY <1>0, <2>1, <2>2, <2>3 DEF Enter
  <2>4. CASE JobStarts
    BY <1>0, <2>1, <2>2, <2>4 DEF JobStarts
  <2>5. CASE Built
    BY <1>0, <2>1, <2>2, <2>5 DEF Built
  <2>6. CASE Exit
    BY <1>0, <2>1, <2>2, <2>6 DEF Exit
  <2>7. QED
    BY <1>1, <2>3, <2>4, <2>5, <2>6
<1>2. CASE BuildRaises
  <2>1. FaultsTyped' /\ faults' = faults + 1
    BY <1>0, <1>2, FaultTyped DEF BuildRaises
  <2>2. QED
    BY <1>0, <1>2, <2>1 DEF BuildRaises
<1>3. CASE ConsoleCloses
  <2>1. CASE console' = "closed" /\ UNCHANGED faults
    BY <1>0, <1>3, <2>1 DEF ConsoleCloses, FaultsTyped
  <2>2. CASE console' = "failed" /\ Fault
    <3>1. FaultsTyped' /\ faults' = faults + 1
      BY <1>0, <2>2, FaultTyped
    <3>2. QED
      BY <1>0, <1>3, <2>2, <3>1 DEF ConsoleCloses
  <2>3. QED
    BY <1>3, <2>1, <2>2 DEF ConsoleCloses
<1>4. CASE CancelOwner
  <2>1. FaultsTyped' /\ faults' = faults + 1
    BY <1>0, <1>4, FaultTyped DEF CancelOwner
  <2>2. /\ owner \in {"building", "closing"} /\ owner' = "out" /\ console' = console /\ closed' = closed
        /\ job' = IF job = "queued" THEN "none" ELSE job
        /\ unclosed' = unclosed + IF StaysOpen THEN 1 ELSE 0
    BY <1>4 DEF CancelOwner
  <2>3. unclosed' \in {unclosed, unclosed + 1} /\ (StaysOpen => unclosed' > 0)
    BY <1>0, <2>2
  <2>4. unclosed' \in 0..faults'
    BY <1>0, <2>1, <2>3
  <2>5. Stage'
    BY <1>0, <2>2, <2>3 DEF StaysOpen
  <2>6. QED
    BY <1>0, <2>1, <2>2, <2>4, <2>5
<1>5. CASE UNCHANGED <<session, faults>>
  BY <1>0, <1>5 DEF session, FaultsTyped
<1>6. QED
  BY <1>1, <1>2, <1>3, <1>4, <1>5 DEF Session

LEMMA SendsStep ==
  ASSUME SInv, (\E t \in Senders : Sending(t)) \/ OrphanEnds
  PROVE  /\ SendsTyped' /\ FaultsTyped' /\ faults' \in {faults, faults + 1}
         /\ UNCHANGED <<session, data>>
<1> USE DEF SendsTyped
<1>0. SendsTyped /\ FaultsTyped /\ faults \in Nat /\ orphans \in Nat /\ NoSender \notin Senders
  BY SolAssumption DEF SInv, FaultsTyped
<1>1. ASSUME NEW t \in Senders, Send(t) \/ SendLocks(t) \/ SendStarts(t) \/ Sent(t)
      PROVE  SendsTyped' /\ UNCHANGED <<faults, session, data>>
  <2>1. UNCHANGED <<faults, orphans, session, data>>
    BY <1>1 DEF Send, SendLocks, SendStarts, Sent
  <2>2. PICK p \in {"idle", "lock", "queued", "running"} : sender' = [sender EXCEPT ![t] = p]
    BY <1>1 DEF Send, SendLocks, SendStarts, Sent, Goto
  <2>3. \/ lock' = t /\ lock = NoSender /\ p = "queued"
        \/ lock' = lock /\ (p \in {"queued", "running"} <=> sender[t] \in {"queued", "running"})
        \/ lock' = NoSender /\ lock = t /\ p = "idle"
    <3>1. CASE Send(t)
      BY <1>0, <2>2, <3>1 DEF Send, Goto
    <3>2. CASE SendLocks(t)
      BY <1>0, <2>2, <3>2 DEF SendLocks, LockFree, Goto
    <3>3. CASE SendStarts(t)
      BY <1>0, <2>2, <3>3 DEF SendStarts, Goto
    <3>4. CASE Sent(t)
      BY <1>0, <2>2, <3>4 DEF Sent, Goto
    <3>5. QED
      BY <1>1, <3>1, <3>2, <3>3, <3>4
  <2>4. QED
    BY <1>0, <2>1, <2>2, <2>3
<1>2. ASSUME NEW t \in Senders, CancelSend(t)
      PROVE  SendsTyped' /\ FaultsTyped' /\ faults' = faults + 1 /\ UNCHANGED <<session, data>>
  <2>1. FaultsTyped' /\ faults' = faults + 1
    BY <1>0, <1>2, FaultTyped DEF CancelSend
  <2>2. /\ lock' = IF lock = t THEN NoSender ELSE lock
        /\ sender' = [sender EXCEPT ![t] = "idle"]
        /\ UNCHANGED <<session, data>>
    BY <1>2 DEF CancelSend, Goto
  <2>3. orphans' \in {orphans, orphans + 1}
    BY <1>0, <1>2 DEF CancelSend
  <2>4. orphans' \in 0..faults'
    BY <1>0, <2>1, <2>3
  <2>5. QED
    BY <1>0, <2>1, <2>2, <2>4
<1>3. CASE OrphanEnds
  <2>1. faults' = faults /\ UNCHANGED <<sender, lock, session, data>> /\ orphans > 0 /\ orphans' = orphans - 1
    BY <1>3 DEF OrphanEnds
  <2>2. orphans' \in 0..faults'
    BY <1>0, <2>1
  <2>3. QED
    BY <1>0, <2>1, <2>2 DEF FaultsTyped
<1>4. CASE \E t \in Senders : Sending(t)
  <2>1. PICK t \in Senders : Sending(t)
    BY <1>4
  <2>2. CASE CancelSend(t)
    BY <1>2, <2>2
  <2>3. CASE ~ CancelSend(t)
    <3>1. Send(t) \/ SendLocks(t) \/ SendStarts(t) \/ Sent(t)
      BY <2>1, <2>3 DEF Sending
    <3>2. QED
      BY <1>0, <1>1, <3>1 DEF FaultsTyped
  <2>4. QED
    BY <2>2, <2>3
<1>5. QED
  BY <1>3, <1>4

\* A chunk comes last, and is counted with those that wait.
LEMMA OnDataStep ==
  ASSUME SInv, OnData
  PROVE  DataTyped' /\ Ordered' /\ Counted'
<1>0. DataTyped /\ Ordered /\ Counted
  BY DEF SInv
<1>1. /\ emitted \in Nat /\ emitted' = emitted + 1 /\ emitted' \in 0..MaxChunks
      /\ soon' = Append(soon, emitted') /\ UNCHANGED <<queue, receiver, received>>
      /\ Len(queue) \in Nat /\ Len(received) \in Nat
  BY <1>0, SolAssumption, LenProperties DEF OnData, DataTyped
<1>2. soon' \in Seq(Nat) /\ Len(soon') = Len(soon) + 1 /\ Len(soon) \in Nat
  BY <1>0, <1>1, AppendLast DEF DataTyped
<1>3. /\ backlog' \in Nat /\ backlog' <= emitted' /\ Len(queue) + Len(soon') <= backlog'
      /\ backlog <= backlog'
  BY <1>0, <1>1, <1>2 DEF OnData, DataTyped, Counted
<1>4. DataTyped'
  BY <1>0, <1>1, <1>2, <1>3 DEF DataTyped
<1>5. Counted'
  <2> DEFINE w == Len(received) + Len(queue) + Len(soon)
  <2>1. w \in Nat /\ w <= emitted /\ (backlog <= Capacity => w = emitted)
        /\ backlog \in Nat /\ Capacity \in Nat
    BY <1>0, <1>1, <1>2, SolAssumption DEF Counted, DataTyped
  <2>2. Len(received') + Len(queue') + Len(soon') = w + 1 /\ queue' = queue
    BY <1>1, <1>2
  <2> HIDE DEF w
  <2>3. w + 1 <= emitted' /\ (backlog' <= Capacity => w + 1 = emitted')
    BY <1>1, <1>3, <2>1
  <2>4. QED
    BY <1>3, <2>2, <2>3 DEF Counted
<1>6. Ordered'
  <2>1. /\ \A j \in 1..Len(received) : received[j] < emitted'
        /\ \A j \in 1..Len(queue) : queue[j] < emitted'
        /\ \A j \in 1..Len(soon) : soon[j] < emitted'
        /\ UpTo(received, emitted') /\ UpTo(queue, emitted') /\ UpTo(soon, emitted')
    BY <1>0, <1>1, BoundKept DEF Ordered, DataTyped
  <2>2. Increasing(soon') /\ Before(received, soon') /\ Before(queue, soon')
    <3>1. /\ emitted' \in Nat /\ soon' = Append(soon, emitted')
          /\ received \in Seq(Nat) /\ queue \in Seq(Nat) /\ soon \in Seq(Nat)
      BY <1>0, <1>1 DEF DataTyped
    <3>2. Increasing(soon')
      BY <1>0, <2>1, <3>1, AppendIncreasing DEF Ordered
    <3>3. Before(received, soon') /\ Before(queue, soon')
      BY <1>0, <2>1, <3>1, BeforeAppend DEF Ordered
    <3>4. QED
      BY <3>2, <3>3
  <2>3. UpTo(soon', emitted')
    BY <1>0, <1>1, <2>1, BoundKept DEF DataTyped
  <2>4. QED
    BY <1>0, <1>1, <2>1, <2>2, <2>3 DEF Ordered
<1>7. QED
  BY <1>4, <1>5, <1>6

\* The first that was scheduled goes to the end of the queue, or is dropped
\* when more waited than the queue takes.
LEMMA PutStep ==
  ASSUME SInv, Put
  PROVE  DataTyped' /\ Ordered' /\ Counted'
<1>0. DataTyped /\ Ordered /\ Counted
  BY DEF SInv
<1> DEFINE x == Head(soon)
<1>1. /\ soon # <<>> /\ soon' = Tail(soon) /\ UNCHANGED <<emitted, receiver, received, backlog>>
      /\ queue' = IF Len(queue) < Capacity THEN Append(queue, x) ELSE queue
  BY DEF Put
<1>2. /\ x \in Nat /\ soon' \in Seq(Nat) /\ Len(soon') = Len(soon) - 1 /\ Len(soon) \in Nat \ {0}
      /\ Len(queue) \in Nat /\ Len(received) \in Nat
  BY <1>0, <1>1, TakeFirst, LenProperties DEF DataTyped
<1>3. \/ Len(queue) < Capacity /\ queue' = Append(queue, x) /\ Len(queue') = Len(queue) + 1
         /\ queue' \in Seq(Nat)
      \/ Len(queue) = Capacity /\ queue' = queue
  BY <1>0, <1>1, <1>2, AppendLast, SolAssumption DEF DataTyped
<1>4. DataTyped'
  BY <1>0, <1>1, <1>2, <1>3, SolAssumption DEF DataTyped
<1>5. Counted'
  BY <1>0, <1>1, <1>2, <1>3, SolAssumption DEF Counted, DataTyped
<1>6. Ordered'
  <2>1. /\ Increasing(soon') /\ Before(received, soon') /\ Before(queue, soon')
        /\ \A j \in 1..Len(soon') : x < soon'[j]
        /\ \A j \in 1..Len(queue) : queue[j] < x
        /\ \A j \in 1..Len(received) : received[j] < x
    BY <1>0, <1>1, TailIncreasing, TailBefore DEF Ordered, DataTyped
  <2>2. UpTo(soon', emitted) /\ x <= emitted
    BY <1>0, <1>1, BoundKept DEF Ordered, DataTyped
  <2>3. CASE queue' = queue
    BY <1>0, <1>1, <2>1, <2>2, <2>3 DEF Ordered
  <2>4. CASE queue' = Append(queue, x)
    <3>1. Increasing(queue') /\ Before(received, queue') /\ Before(queue', soon')
      BY <1>0, <1>2, <2>1, <2>4, AppendIncreasing, BeforeAppend, AppendBefore DEF Ordered, DataTyped
    <3>2. UpTo(queue', emitted)
      BY <1>0, <1>2, <2>2, <2>4, BoundKept DEF Ordered, DataTyped
    <3>3. QED
      BY <1>0, <1>1, <2>1, <2>2, <3>1, <3>2 DEF Ordered
  <2>5. QED
    BY <1>3, <2>3, <2>4
<1>7. QED
  BY <1>4, <1>5, <1>6

\* The first of the queue is yielded.
LEMMA ReceiveStep ==
  ASSUME SInv, Receive
  PROVE  DataTyped' /\ Ordered' /\ Counted'
<1>0. DataTyped /\ Ordered /\ Counted
  BY DEF SInv
<1> DEFINE x == Head(queue)
<1>1. /\ queue # <<>> /\ queue' = Tail(queue) /\ UNCHANGED <<emitted, soon, backlog>>
      /\ received' = Append(received, x) /\ receiver' = "holding"
  BY DEF Receive
<1>2. /\ x \in Nat /\ queue' \in Seq(Nat) /\ Len(queue') = Len(queue) - 1 /\ Len(queue) \in Nat \ {0}
      /\ Len(soon) \in Nat /\ Len(received) \in Nat
      /\ received' \in Seq(Nat) /\ Len(received') = Len(received) + 1
  BY <1>0, <1>1, TakeFirst, LenProperties, AppendLast DEF DataTyped
<1>3. DataTyped'
  BY <1>0, <1>1, <1>2, SolAssumption DEF DataTyped
<1>4. Counted'
  <2> DEFINE w == Len(received) + Len(queue) + Len(soon)
  <2>1. w \in Nat /\ w <= emitted /\ (backlog <= Capacity => w = emitted)
        /\ backlog \in Nat /\ Len(queue) + Len(soon) <= backlog
    BY <1>0, <1>2 DEF Counted, DataTyped
  <2>2. Len(received') + Len(queue') + Len(soon') = w /\ Len(queue') + Len(soon') <= backlog'
        /\ emitted' = emitted /\ backlog' = backlog
    BY <1>1, <1>2, <2>1
  <2> HIDE DEF w
  <2>3. QED
    BY <2>1, <2>2 DEF Counted
<1>5. Ordered'
  <2>1. /\ Increasing(queue') /\ Before(received, queue') /\ Before(queue', soon)
        /\ \A j \in 1..Len(queue') : x < queue'[j]
        /\ \A j \in 1..Len(soon) : x < soon[j]
        /\ \A j \in 1..Len(received) : received[j] < x
    BY <1>0, <1>1, TailIncreasing, TailBefore DEF Ordered, DataTyped
  <2>2. UpTo(queue', emitted) /\ x <= emitted
    BY <1>0, <1>1, BoundKept DEF Ordered, DataTyped
  <2>3. Increasing(received') /\ Before(received', queue') /\ Before(received', soon)
    BY <1>0, <1>1, <1>2, <2>1, AppendIncreasing, AppendBefore DEF Ordered, DataTyped
  <2>4. UpTo(received', emitted)
    BY <1>0, <1>1, <1>2, <2>2, BoundKept DEF Ordered, DataTyped
  <2>5. QED
    BY <1>0, <1>1, <2>1, <2>2, <2>3, <2>4 DEF Ordered
<1>6. QED
  BY <1>3, <1>4, <1>5

LEMMA AgainStep ==
  ASSUME SInv, Again
  PROVE  SInv'
<1>0. SessionTyped /\ SendsTyped /\ FaultsTyped /\ faults \in Nat
  BY SolAssumption DEF SInv, FaultsTyped
<1>1. /\ owner' = "before" /\ job' = "none" /\ console' = "none" /\ closed' = FALSE /\ unclosed' = 0
      /\ emitted' = 0 /\ soon' = <<>> /\ queue' = <<>> /\ received' = <<>> /\ backlog' = 0
      /\ receiver' = "waiting" /\ UNCHANGED <<sends, faults>>
  BY DEF Again
<1>2. <<>> \in Seq(Nat) /\ Len(<<>>) = 0
  BY EmptySeq
<1>3. SendsTyped' /\ FaultsTyped'
  BY <1>0, <1>1 DEF SendsTyped, FaultsTyped, sends
<1>4. SessionTyped'
  <2>1. unclosed' \in 0..faults'
    BY <1>0, <1>1
  <2>2. closed' \in BOOLEAN
    BY <1>1
  <2>3. QED
    BY <1>1, <2>1, <2>2 DEF SessionTyped
<1>5. Stage'
  BY <1>1 DEF Stage
<1>6. DataTyped' /\ Counted'
  BY <1>1, <1>2, SolAssumption DEF DataTyped, Counted
<1>7. Ordered'
  <2>1. Len(received') = 0 /\ Len(queue') = 0 /\ Len(soon') = 0
    BY <1>1, <1>2
  <2>2. \A j \in 1..0 : FALSE
    OBVIOUS
  <2>3. QED
    BY ONLY <2>1, <2>2 DEF Ordered, Increasing, Before, UpTo
<1>8. QED
  BY <1>3, <1>4, <1>5, <1>6, <1>7 DEF SInv

LEMMA SInvStep == SInv /\ [Next]_vars => SInv'
<1> SUFFICES ASSUME SInv, [Next]_vars PROVE SInv'
  OBVIOUS
<1>0. SessionTyped /\ Stage /\ SendsTyped /\ DataTyped /\ Ordered /\ Counted /\ FaultsTyped
  BY DEF SInv
<1>1. CASE Again
  BY <1>1, AgainStep
<1>2. CASE Session /\ ~ Again
  <2>1. UNCHANGED <<data, sends>>
    BY <1>2 DEF Session, Enter, JobStarts, Built, BuildRaises, Exit, ConsoleCloses, CancelOwner
  <2>2. SessionTyped' /\ Stage' /\ FaultsTyped' /\ faults' \in {faults, faults + 1}
    BY <1>2, SessionStep
  <2>3. SendsTyped'
    BY <1>0, <2>1, <2>2, SolAssumption DEF SendsTyped, sends, FaultsTyped
  <2>4. DataTyped' /\ Ordered' /\ Counted'
    BY <1>0, <2>1 DEF DataTyped, Ordered, Counted, data
  <2>5. QED
    BY <2>2, <2>3, <2>4 DEF SInv
<1>3. CASE OnData \/ Put \/ Receive \/ NextAfterChunk \/ Timeout
  <2>1. UNCHANGED <<session, sends, faults>>
    BY <1>3 DEF OnData, Put, Receive, NextAfterChunk, Timeout
  <2>2. SessionTyped' /\ Stage' /\ SendsTyped' /\ FaultsTyped'
    BY <1>0, <2>1 DEF SessionTyped, Stage, SendsTyped, FaultsTyped, session, sends
  <2>3. CASE NextAfterChunk \/ Timeout
    <3>1. UNCHANGED <<emitted, soon, queue, received, backlog>> /\ receiver' \in {"over", "waiting"}
      BY <2>3 DEF NextAfterChunk, Timeout, LoopTest
    <3>2. DataTyped' /\ Ordered' /\ Counted'
      BY <1>0, <3>1 DEF DataTyped, Ordered, Counted
    <3>3. QED
      BY <2>2, <3>2 DEF SInv
  <2>4. QED
    BY <1>3, <2>2, <2>3, OnDataStep, PutStep, ReceiveStep DEF SInv
<1>4. CASE (\E t \in Senders : Sending(t)) \/ OrphanEnds
  <2>1. /\ SendsTyped' /\ FaultsTyped' /\ faults' \in {faults, faults + 1}
        /\ UNCHANGED <<session, data>>
    BY <1>4, SendsStep
  <2>2. SessionTyped' /\ Stage'
    BY <1>0, <2>1, SolAssumption DEF SessionTyped, Stage, session, FaultsTyped
  <2>3. DataTyped' /\ Ordered' /\ Counted'
    BY <1>0, <2>1 DEF DataTyped, Ordered, Counted, data
  <2>4. QED
    BY <2>1, <2>2, <2>3 DEF SInv
<1>5. CASE UNCHANGED vars
  BY <1>0, <1>5 DEF vars, session, data, sends, SInv, SessionTyped, Stage, SendsTyped, FaultsTyped,
                    DataTyped, Ordered, Counted
<1>6. QED
  BY <1>1, <1>2, <1>3, <1>4, <1>5 DEF Next, Data

-----------------------------------------------------------------------------
(***************************************************************************)
(* The theorems.                                                           *)
(***************************************************************************)

\* TypeOK: in particular a body runs on an open console, and send_lock is
\* held by the one sender that has the console's send_data (__call__).
THEOREM SolTyped == Spec => []TypeOK
<1>1. SInv => TypeOK
  <2> SUFFICES ASSUME SInv PROVE TypeOK
    OBVIOUS
  <2>1. backlog \in 0..MaxChunks
    BY SolAssumption DEF SInv, DataTyped
  <2>2. SessionTyped /\ Stage /\ SendsTyped /\ DataTyped
    BY DEF SInv
  <2>3. QED
    BY <2>1, <2>2 DEF TypeOK, SessionTyped, Stage, SendsTyped, DataTyped
<1>2. QED
  BY <1>1, SInvInit, SInvStep, PTL DEF Spec

\* The way of the chunks as one sequence.
LEMMA WayIs ==
  ASSUME DataTyped
  PROVE  LET a == Len(received)  b == a + Len(queue)  c == b + Len(soon) IN
         /\ a \in Nat /\ b \in Nat /\ c \in Nat /\ a <= b /\ b <= c /\ Len(Way) = c
         /\ \A j \in 1..c : Way[j] = IF j <= a THEN received[j]
                                     ELSE IF j <= b THEN queue[j - a] ELSE soon[j - b]
<1>1. received \in Seq(Nat) /\ queue \in Seq(Nat) /\ soon \in Seq(Nat)
  BY DEF DataTyped
<1>2. Len(received) \in Nat /\ Len(queue) \in Nat /\ Len(soon) \in Nat
  BY <1>1, LenProperties
<1> DEFINE q == received \o queue
<1>3. /\ q \in Seq(Nat) /\ Len(q) = Len(received) + Len(queue)
      /\ \A j \in 1..Len(received) + Len(queue) :
           q[j] = IF j <= Len(received) THEN received[j] ELSE queue[j - Len(received)]
  BY <1>1, Joined
<1> HIDE DEF q
<1>4. /\ Len(q \o soon) = Len(q) + Len(soon)
      /\ \A j \in 1..Len(q) + Len(soon) :
           (q \o soon)[j] = IF j <= Len(q) THEN q[j] ELSE soon[j - Len(q)]
  BY <1>1, <1>3, Joined
<1>5. Way = q \o soon
  BY DEF Way, q
<1>6. QED
  BY <1>2, <1>3, <1>4, <1>5

\* InOrder: the bytes of the host are yielded in their order and each once,
\* and none is lost while at most maxsize of them wait (_on_data, _receiver).
THEOREM InOrderHolds == Spec => []InOrder
<1>1. SInv => InOrder
  <2> SUFFICES ASSUME SInv PROVE InOrder
    OBVIOUS
  <2>0. DataTyped /\ Ordered /\ Counted
    BY DEF SInv
  <2>1. backlog <= Capacity => Len(Way) = emitted
    BY <2>0, WayIs DEF Counted
  <2>2. ASSUME NEW j \in 1..Len(Way), NEW k \in 1..Len(Way), j < k
        PROVE  Way[j] < Way[k]
    <3> DEFINE a == Len(received)
               b == a + Len(queue)
               c == b + Len(soon)
    <3>1. /\ a \in Nat /\ b \in Nat /\ c \in Nat /\ a <= b /\ b <= c /\ Len(Way) = c
          /\ Way[j] = IF j <= a THEN received[j] ELSE IF j <= b THEN queue[j - a] ELSE soon[j - b]
          /\ Way[k] = IF k <= a THEN received[k] ELSE IF k <= b THEN queue[k - a] ELSE soon[k - b]
          /\ Len(queue) = b - a /\ Len(soon) = c - b
      BY <2>0, <2>2, WayIs, LenProperties DEF DataTyped
    <3>2. CASE k <= a
      BY <2>0, <2>2, <3>1, <3>2 DEF Ordered, Increasing
    <3>3. CASE a < k /\ k <= b
      <4>1. k - a \in 1..Len(queue)
        BY <3>1, <3>3
      <4>2. CASE j <= a
        BY <2>0, <2>2, <3>1, <3>3, <4>1, <4>2 DEF Ordered, Before
      <4>3. CASE a < j
        <5>1. j - a \in 1..Len(queue) /\ j - a < k - a
          BY <2>2, <3>1, <3>3, <4>3
        <5>2. QED
          BY <2>0, <2>2, <3>1, <3>3, <4>1, <4>3, <5>1 DEF Ordered, Increasing
      <4>4. QED
        BY <3>1, <4>2, <4>3
    <3>4. CASE b < k
      <4>1. k - b \in 1..Len(soon)
        BY <2>2, <3>1, <3>4
      <4>2. CASE j <= a
        BY <2>0, <2>2, <3>1, <3>4, <4>1, <4>2 DEF Ordered, Before
      <4>3. CASE a < j /\ j <= b
        <5>1. j - a \in 1..Len(queue)
          BY <2>2, <3>1, <4>3
        <5>2. QED
          BY <2>0, <2>2, <3>1, <3>4, <4>1, <4>3, <5>1 DEF Ordered, Before
      <4>4. CASE b < j
        <5>1. j - b \in 1..Len(soon) /\ j - b < k - b
          BY <2>2, <3>1, <3>4, <4>4
        <5>2. QED
          BY <2>0, <2>2, <3>1, <3>4, <4>1, <4>4, <5>1 DEF Ordered, Increasing
      <4>5. QED
        BY <3>1, <4>2, <4>3, <4>4
    <3>5. QED
      BY <2>2, <3>1, <3>2, <3>3, <3>4
  <2>3. QED
    BY <2>1, <2>2 DEF InOrder
<1>2. QED
  BY <1>1, SInvInit, SInvStep, PTL DEF Spec

\* ConsoleAccounted: a console whose close() was never called, of a session that
\* is left, is one whose building or closing was cancelled (sol_session's
\* finally).
THEOREM ConsoleAccountedHolds == Spec => []ConsoleAccounted
<1>1. SInv => ConsoleAccounted
  BY DEF SInv, Stage, ConsoleAccounted, Left
<1>2. QED
  BY <1>1, SInvInit, SInvStep, PTL DEF Spec
=============================================================================
