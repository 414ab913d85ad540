---------------------------- MODULE RacadmProofs ----------------------------
(***************************************************************************)
(* Proofs about Racadm and the SSH transport under it, for any tasks, any  *)
(* max_concurrent and any number of faults.                                *)
(***************************************************************************)
EXTENDS Racadm, FiniteSetTheorems, TLAPS

\* What connections are like while a task is on its way to a command: the one
\* it replaces is closed, it has none yet, and it is in a
\* run() without an outcome yet.
OnTheWay ==
  \A t \in Tasks :
    /\ pc[t] = "connect" => IsClosed(conn)
    /\ pc[t] \in {"sem", "lock", "connect"} => mine[t] = 0
    /\ pc[t] \in {"sem", "lock", "connect", "command"} => inRun[t] = TRUE /\ outcome[t] = "none"

TInv == TypeOK /\ PermitsConserved /\ OneConnection /\ TimedOutClosed /\ OnTheWay

\* What a step may do to the permits and to their holders.
Move(t) ==
  \/ permits' = permits /\ Holders' = Holders
  \/ permits' = permits + 1 /\ t \in Holders /\ Holders' = Holders \ {t}
  \/ permits' = permits - 1 /\ permits > 0 /\ t \notin Holders /\ Holders' = Holders \cup {t}

LEMMA PermitsMove ==
  ASSUME TInv, NEW t \in Tasks, Move(t)
  PROVE  PermitsConserved' /\ permits' \in 0..MaxConcurrent
  <1>1. Holders \subseteq Tasks /\ IsFiniteSet(Holders)
    BY SshAssumption, FS_Subset DEF Holders
  <1>2. Cardinality(Holders) \in Nat
    BY <1>1, FS_CardinalityType
  <1>3. permits \in 0..MaxConcurrent /\ MaxConcurrent \in Nat /\ permits + Cardinality(Holders) = MaxConcurrent
    BY SshAssumption DEF TInv, TypeOK, PermitsConserved
  <1>4. CASE permits' = permits /\ Holders' = Holders
    BY <1>3, <1>4 DEF PermitsConserved
  <1>5. CASE permits' = permits + 1 /\ t \in Holders /\ Holders' = Holders \ {t}
    <2>1. Cardinality(Holders') = Cardinality(Holders) - 1
      BY <1>1, <1>5, FS_RemoveElement
    <2>2. Cardinality(Holders) # 0
      BY <1>1, <1>5, FS_EmptySet
    <2> QED BY <1>2, <1>3, <1>5, <2>1, <2>2 DEF PermitsConserved
  <1>6. CASE permits' = permits - 1 /\ permits > 0 /\ t \notin Holders /\ Holders' = Holders \cup {t}
    <2>1. Cardinality(Holders') = Cardinality(Holders) + 1
      BY <1>1, <1>6, FS_AddElement
    <2> QED BY <1>2, <1>3, <1>6, <2>1 DEF PermitsConserved
  <1> QED BY <1>4, <1>5, <1>6 DEF Move

-----------------------------------------------------------------------------
\* The transport keeps TInv, whoever uses it.

LEMMA TInvInit == Init => TInv
  <1> SUFFICES ASSUME Init PROVE TInv
    OBVIOUS
  <1>1. TypeOK
    BY SshAssumption DEF Init, TypeOK, LockHeld, LockHeld, Pcs, Outcomes
  <1>2. OneConnection /\ TimedOutClosed /\ OnTheWay
    BY DEF Init, OneConnection, TimedOutClosed, OnTheWay, IsClosed
  <1>3. PermitsConserved
    <2>1. Holders = {}
      BY DEF Init, Holders
    <2> QED BY <2>1, SshAssumption, FS_EmptySet DEF Init, PermitsConserved
  <1> QED BY <1>1, <1>2, <1>3 DEF TInv

LEMMA CallRunInv ==
  ASSUME TInv, NEW t \in Tasks, CallRun(t), faults' \in 0..MaxFaults
  PROVE  TInv'
  <1> USE SshAssumption DEF CallRun, Goto, shared, local, EndRun
  <1>5. Move(t)
    BY DEF TInv, TypeOK, LockHeld, Pcs, OnTheWay, Holders, Move
  <1>6. PermitsConserved' /\ permits' \in 0..MaxConcurrent
    BY <1>5, PermitsMove
  <1>1. TypeOK'
    BY <1>6 DEF TInv, TypeOK, LockHeld, Pcs, Outcomes
  <1>2. OneConnection'
    BY DEF TInv, TypeOK, LockHeld, OneConnection, OnTheWay, IsOpen, IsClosed
  <1>3. TimedOutClosed'
    BY DEF TInv, TypeOK, LockHeld, OneConnection, TimedOutClosed, OnTheWay, IsOpen, IsClosed
  <1>4. OnTheWay'
    BY DEF TInv, TypeOK, LockHeld, Pcs, OneConnection, OnTheWay, IsOpen, IsClosed
  <1> QED BY <1>1, <1>2, <1>3, <1>4, <1>6 DEF TInv

LEMMA EnterSemInv ==
  ASSUME TInv, NEW t \in Tasks, EnterSem(t)
  PROVE  TInv'
  <1> USE SshAssumption DEF EnterSem, Goto, shared, local
  <1>5. Move(t)
    BY DEF TInv, TypeOK, LockHeld, Pcs, OnTheWay, Holders, Move
  <1>6. PermitsConserved' /\ permits' \in 0..MaxConcurrent
    BY <1>5, PermitsMove
  <1>1. TypeOK'
    BY <1>6 DEF TInv, TypeOK, LockHeld, Pcs, Outcomes
  <1>2. OneConnection'
    BY DEF TInv, TypeOK, LockHeld, OneConnection, OnTheWay, IsOpen, IsClosed
  <1>3. TimedOutClosed'
    BY DEF TInv, TypeOK, LockHeld, OneConnection, TimedOutClosed, OnTheWay, IsOpen, IsClosed
  <1>4. OnTheWay'
    BY DEF TInv, TypeOK, LockHeld, Pcs, OneConnection, OnTheWay, IsOpen, IsClosed
  <1> QED BY <1>1, <1>2, <1>3, <1>4, <1>6 DEF TInv

LEMMA EnsureInv ==
  ASSUME TInv, NEW t \in Tasks, Ensure(t)
  PROVE  TInv'
  <1> USE SshAssumption DEF Ensure, Goto, shared, local, ConnUsable, LockFree
  <1>5. Move(t)
    BY DEF TInv, TypeOK, LockHeld, Pcs, OnTheWay, Holders, Move
  <1>6. PermitsConserved' /\ permits' \in 0..MaxConcurrent
    BY <1>5, PermitsMove
  <1>1. TypeOK'
    <2>1. CASE ConnUsable
      BY <1>6, <2>1 DEF TInv, TypeOK, LockHeld, Pcs, Outcomes
    <2>2. CASE ~ ConnUsable
      BY <1>6, <2>2 DEF TInv, TypeOK, LockHeld, Pcs, Outcomes
    <2> QED BY <2>1, <2>2
  <1>2. OneConnection'
    BY DEF TInv, TypeOK, LockHeld, OneConnection, OnTheWay, IsOpen, IsClosed
  <1>3. TimedOutClosed'
    BY DEF TInv, TypeOK, LockHeld, OneConnection, TimedOutClosed, OnTheWay, IsOpen, IsClosed
  <1>4. OnTheWay'
    BY DEF TInv, TypeOK, LockHeld, Pcs, OneConnection, OnTheWay, IsOpen, IsClosed
  <1> QED BY <1>1, <1>2, <1>3, <1>4, <1>6 DEF TInv

LEMMA ConnectedInv ==
  ASSUME TInv, NEW t \in Tasks, Connected(t)
  PROVE  TInv'
  <1> USE SshAssumption DEF Connected, Goto, shared, local, NewConn
  <1>5. Move(t)
    BY DEF TInv, TypeOK, LockHeld, Pcs, OnTheWay, Holders, Move
  <1>6. PermitsConserved' /\ permits' \in 0..MaxConcurrent
    BY <1>5, PermitsMove
  <1>1. TypeOK'
    BY <1>6 DEF TInv, TypeOK, LockHeld, Pcs, Outcomes
  <1>2. OneConnection'
    BY DEF TInv, TypeOK, LockHeld, OneConnection, OnTheWay, IsOpen, IsClosed
  <1>3. TimedOutClosed'
    BY DEF TInv, TypeOK, LockHeld, OneConnection, TimedOutClosed, OnTheWay, IsOpen, IsClosed
  <1>4. OnTheWay'
    BY DEF TInv, TypeOK, LockHeld, Pcs, OneConnection, OnTheWay, IsOpen, IsClosed
  <1> QED BY <1>1, <1>2, <1>3, <1>4, <1>6 DEF TInv

LEMMA ConnectFailsInv ==
  ASSUME TInv, NEW t \in Tasks, ConnectFails(t)
  PROVE  TInv'
  <1> USE SshAssumption DEF ConnectFails, Goto, shared, local, EndRun, Fault
  <1>5. Move(t)
    BY DEF TInv, TypeOK, LockHeld, Pcs, OnTheWay, Holders, Move
  <1>6. PermitsConserved' /\ permits' \in 0..MaxConcurrent
    BY <1>5, PermitsMove
  <1>1. TypeOK'
    BY <1>6 DEF TInv, TypeOK, LockHeld, Pcs, Outcomes
  <1>2. OneConnection'
    BY DEF TInv, TypeOK, LockHeld, OneConnection, OnTheWay, IsOpen, IsClosed
  <1>3. TimedOutClosed'
    BY DEF TInv, TypeOK, LockHeld, OneConnection, TimedOutClosed, OnTheWay, IsOpen, IsClosed
  <1>4. OnTheWay'
    BY DEF TInv, TypeOK, LockHeld, Pcs, OneConnection, OnTheWay, IsOpen, IsClosed
  <1> QED BY <1>1, <1>2, <1>3, <1>4, <1>6 DEF TInv

LEMMA ExecuteInv ==
  ASSUME TInv, NEW t \in Tasks, Execute(t)
  PROVE  TInv'
  <1> USE SshAssumption DEF Execute, Goto, shared, local
  <1>5. Move(t)
    BY DEF TInv, TypeOK, LockHeld, Pcs, OnTheWay, Holders, Move
  <1>6. PermitsConserved' /\ permits' \in 0..MaxConcurrent
    BY <1>5, PermitsMove
  <1>1. TypeOK'
    BY <1>6 DEF TInv, TypeOK, LockHeld, Pcs, Outcomes
  <1>2. OneConnection'
    BY DEF TInv, TypeOK, LockHeld, OneConnection, OnTheWay, IsOpen, IsClosed
  <1>3. TimedOutClosed'
    BY DEF TInv, TypeOK, LockHeld, OneConnection, TimedOutClosed, OnTheWay, IsOpen, IsClosed
  <1>4. OnTheWay'
    BY DEF TInv, TypeOK, LockHeld, Pcs, OneConnection, OnTheWay, IsOpen, IsClosed
  <1> QED BY <1>1, <1>2, <1>3, <1>4, <1>6 DEF TInv

LEMMA CommandDoneInv ==
  ASSUME TInv, NEW t \in Tasks, CommandDone(t)
  PROVE  TInv'
  <1> USE SshAssumption DEF CommandDone, Goto, shared, local, EndRun
  <1>5. Move(t)
    BY DEF TInv, TypeOK, LockHeld, Pcs, OnTheWay, Holders, Move
  <1>6. PermitsConserved' /\ permits' \in 0..MaxConcurrent
    BY <1>5, PermitsMove
  <1>1. TypeOK'
    BY <1>6 DEF TInv, TypeOK, LockHeld, Pcs, Outcomes
  <1>2. OneConnection'
    BY DEF TInv, TypeOK, LockHeld, OneConnection, OnTheWay, IsOpen, IsClosed
  <1>3. TimedOutClosed'
    BY DEF TInv, TypeOK, LockHeld, OneConnection, TimedOutClosed, OnTheWay, IsOpen, IsClosed
  <1>4. OnTheWay'
    BY DEF TInv, TypeOK, LockHeld, Pcs, OneConnection, OnTheWay, IsOpen, IsClosed
  <1> QED BY <1>1, <1>2, <1>3, <1>4, <1>6 DEF TInv

LEMMA CommandCutInv ==
  ASSUME TInv, NEW t \in Tasks, CommandCut(t)
  PROVE  TInv'
  <1> USE SshAssumption DEF CommandCut, Goto, shared, local, EndRun
  <1>5. Move(t)
    BY DEF TInv, TypeOK, LockHeld, Pcs, OnTheWay, Holders, Move
  <1>6. PermitsConserved' /\ permits' \in 0..MaxConcurrent
    BY <1>5, PermitsMove
  <1>1. TypeOK'
    BY <1>6 DEF TInv, TypeOK, LockHeld, Pcs, Outcomes
  <1>2. OneConnection'
    BY DEF TInv, TypeOK, LockHeld, OneConnection, OnTheWay, IsOpen, IsClosed
  <1>3. TimedOutClosed'
    BY DEF TInv, TypeOK, LockHeld, OneConnection, TimedOutClosed, OnTheWay, IsOpen, IsClosed
  <1>4. OnTheWay'
    BY DEF TInv, TypeOK, LockHeld, Pcs, OneConnection, OnTheWay, IsOpen, IsClosed
  <1> QED BY <1>1, <1>2, <1>3, <1>4, <1>6 DEF TInv

LEMMA CommandTimeoutInv ==
  ASSUME TInv, NEW t \in Tasks, CommandTimeout(t)
  PROVE  TInv'
  <1> USE SshAssumption DEF CommandTimeout, Goto, shared, local, Fault
  <1>5. Move(t)
    BY DEF TInv, TypeOK, LockHeld, Pcs, OnTheWay, Holders, Move
  <1>6. PermitsConserved' /\ permits' \in 0..MaxConcurrent
    BY <1>5, PermitsMove
  <1>1. TypeOK'
    BY <1>6 DEF TInv, TypeOK, LockHeld, Pcs, Outcomes
  <1>2. OneConnection'
    BY DEF TInv, TypeOK, LockHeld, OneConnection, OnTheWay, IsOpen, IsClosed
  <1>3. TimedOutClosed'
    BY DEF TInv, TypeOK, LockHeld, OneConnection, TimedOutClosed, OnTheWay, IsOpen, IsClosed
  <1>4. OnTheWay'
    BY DEF TInv, TypeOK, LockHeld, Pcs, OneConnection, OnTheWay, IsOpen, IsClosed
  <1> QED BY <1>1, <1>2, <1>3, <1>4, <1>6 DEF TInv

LEMMA CallCloseInv ==
  ASSUME TInv, NEW t \in Tasks, CallClose(t), faults' \in 0..MaxFaults
  PROVE  TInv'
  <1> USE SshAssumption DEF CallClose, Goto, shared, local
  <1>5. Move(t)
    BY DEF TInv, TypeOK, LockHeld, Pcs, OnTheWay, Holders, Move
  <1>6. PermitsConserved' /\ permits' \in 0..MaxConcurrent
    BY <1>5, PermitsMove
  <1>1. TypeOK'
    BY <1>6 DEF TInv, TypeOK, LockHeld, Pcs, Outcomes
  <1>2. OneConnection'
    BY DEF TInv, TypeOK, LockHeld, OneConnection, OnTheWay, IsOpen, IsClosed
  <1>3. TimedOutClosed'
    BY DEF TInv, TypeOK, LockHeld, OneConnection, TimedOutClosed, OnTheWay, IsOpen, IsClosed
  <1>4. OnTheWay'
    BY DEF TInv, TypeOK, LockHeld, Pcs, OneConnection, OnTheWay, IsOpen, IsClosed
  <1> QED BY <1>1, <1>2, <1>3, <1>4, <1>6 DEF TInv

LEMMA CloseConnInv ==
  ASSUME TInv, NEW t \in Tasks, CloseConn(t)
  PROVE  TInv'
  <1> USE SshAssumption DEF CloseConn, Goto, shared, local, LockFree, Closed, EndRun
  <1>5. Move(t)
    BY DEF TInv, TypeOK, LockHeld, Pcs, OnTheWay, Holders, Move
  <1>6. PermitsConserved' /\ permits' \in 0..MaxConcurrent
    BY <1>5, PermitsMove
  <1>1. TypeOK'
    <2>1. cstate' \in Seq({"open", "closing", "closed"}) /\ Len(cstate') = Len(cstate)
      <3>1. cstate \in Seq({"open", "closing", "closed"})
        BY DEF TInv, TypeOK
      <3>2. cstate' = cstate \/ cstate' = [cstate EXCEPT ![conn] = "closing"]
        OBVIOUS
      <3> HIDE DEF CloseConn, Goto, LockFree, Closed, EndRun
      <3> QED BY <3>1, <3>2
    <2>2. pc' \in [Tasks -> Pcs] /\ outcome' \in [Tasks -> Outcomes]
      BY DEF TInv, TypeOK, Pcs, Outcomes
    <2>3. LockHeld'
      <3>1. CASE conn = 0
        BY <3>1 DEF TInv, TypeOK, LockHeld, Pcs
      <3>2. CASE conn # 0
        BY <3>2 DEF TInv, TypeOK, LockHeld, Pcs
      <3> QED BY <3>1, <3>2
    <2>4. lock' \in Tasks \cup {NoTask}
      BY DEF TInv, TypeOK
    <2> QED BY <1>6, <2>1, <2>2, <2>3, <2>4 DEF TInv, TypeOK
  <1>2. OneConnection'
    BY DEF TInv, TypeOK, LockHeld, OneConnection, OnTheWay, IsOpen, IsClosed
  <1>3. TimedOutClosed'
    BY DEF TInv, TypeOK, LockHeld, OneConnection, TimedOutClosed, OnTheWay, IsOpen, IsClosed
  <1>4. OnTheWay'
    BY DEF TInv, TypeOK, LockHeld, Pcs, OneConnection, OnTheWay, IsOpen, IsClosed
  <1> QED BY <1>1, <1>2, <1>3, <1>4, <1>6 DEF TInv

LEMMA CloseDoneInv ==
  ASSUME TInv, NEW t \in Tasks, CloseDone(t)
  PROVE  TInv'
  <1> USE SshAssumption DEF CloseDone, Goto, shared, local, Closed, EndRun
  <1>5. Move(t)
    BY DEF TInv, TypeOK, LockHeld, Pcs, OnTheWay, Holders, Move
  <1>6. PermitsConserved' /\ permits' \in 0..MaxConcurrent
    BY <1>5, PermitsMove
  <1>1. TypeOK'
    <2>1. pc' \in [Tasks -> Pcs] /\ outcome' \in [Tasks -> Outcomes]
      BY DEF TInv, TypeOK, Pcs, Outcomes
    <2>2. LockHeld'
      BY DEF TInv, TypeOK, LockHeld, Pcs
    <2> QED BY <1>6, <2>1, <2>2 DEF TInv, TypeOK
  <1>2. OneConnection'
    BY DEF TInv, TypeOK, LockHeld, OneConnection, OnTheWay, IsOpen, IsClosed
  <1>3. TimedOutClosed'
    BY DEF TInv, TypeOK, LockHeld, OneConnection, TimedOutClosed, OnTheWay, IsOpen, IsClosed
  <1>4. OnTheWay'
    BY DEF TInv, TypeOK, LockHeld, Pcs, OneConnection, OnTheWay, IsOpen, IsClosed
  <1> QED BY <1>1, <1>2, <1>3, <1>4, <1>6 DEF TInv

LEMMA CancelInv ==
  ASSUME TInv, NEW t \in Tasks, Cancel(t)
  PROVE  TInv'
  <1> USE SshAssumption DEF Cancel, Goto, shared, local, EndRun, Fault
  <1>5. Move(t)
    BY DEF TInv, TypeOK, LockHeld, Pcs, OnTheWay, Holders, Move
  <1>6. PermitsConserved' /\ permits' \in 0..MaxConcurrent
    BY <1>5, PermitsMove
  <1>1. TypeOK'
    <2>1. pc' \in [Tasks -> Pcs] /\ outcome' \in [Tasks -> Outcomes]
      BY DEF TInv, TypeOK, Pcs, Outcomes
    <2>2. LockHeld'
      BY DEF TInv, TypeOK, LockHeld, Pcs
    <2> QED BY <1>6, <2>1, <2>2 DEF TInv, TypeOK
  <1>2. OneConnection'
    BY DEF TInv, TypeOK, LockHeld, OneConnection, OnTheWay, IsOpen, IsClosed
  <1>3. TimedOutClosed'
    BY DEF TInv, TypeOK, LockHeld, OneConnection, TimedOutClosed, OnTheWay, IsOpen, IsClosed
  <1>4. OnTheWay'
    BY DEF TInv, TypeOK, LockHeld, Pcs, OneConnection, OnTheWay, IsOpen, IsClosed
  <1> QED BY <1>1, <1>2, <1>3, <1>4, <1>6 DEF TInv

\* The network and the device only move connections towards "closed".
LEMMA ConnectionsInv ==
  ASSUME TInv, UNCHANGED <<conn, lock, permits, pc, inRun, mine, outcome>>,
         cstate' \in Seq({"open", "closing", "closed"}), Len(cstate') = Len(cstate),
         \A c \in 1..Len(cstate) : cstate[c] = "closed" => cstate'[c] = "closed",
         ran' \in [Tasks -> BOOLEAN], faults' \in 0..MaxFaults
  PROVE  TInv'
  <1>1. TypeOK'
    BY DEF TInv, TypeOK, LockHeld
  <1>2. PermitsConserved'
    BY DEF TInv, PermitsConserved, Holders
  <1>3. OneConnection'
    BY DEF TInv, OneConnection
  <1>4. TimedOutClosed'
    BY DEF TInv, TypeOK, TimedOutClosed, IsClosed
  <1>5. OnTheWay'
    BY DEF TInv, TypeOK, OnTheWay, IsClosed
  <1> QED BY <1>1, <1>2, <1>3, <1>4, <1>5 DEF TInv

\* What the proofs about the methods need to know of a transport step of t: a
\* closed connection stays closed, and the other tasks are where they were.
StaysClosed == \A c \in 0..Len(cstate) : IsClosed(c) => (c = 0 \/ cstate'[c] = "closed")

OthersSame(t) ==
  \A u \in Tasks \ {t} : /\ pc'[u] = pc[u] /\ inRun'[u] = inRun[u]
                         /\ mine'[u] = mine[u] /\ outcome'[u] = outcome[u]

AllClosed == \A c \in 0..Len(cstate) : IsClosed(c)

LEMMA NetworkInv ==
  ASSUME TInv, Network
  PROVE  TInv' /\ StaysClosed /\ UNCHANGED <<pc, inRun, mine, outcome>>
  <1>1. PICK c \in 1..Len(cstate) : Finish(c) \/ Drop(c)
    BY DEF Network
  <1>2. \/ cstate' = [cstate EXCEPT ![c] = "closed"]
        \/ cstate[c] = "open" /\ cstate' = [cstate EXCEPT ![c] = "closing"]
    BY <1>1 DEF Finish, Drop
  <1>3. cstate \in Seq({"open", "closing", "closed"})
    BY DEF TInv, TypeOK
  <1>4. /\ cstate' \in Seq({"open", "closing", "closed"}) /\ Len(cstate') = Len(cstate)
        /\ \A d \in 1..Len(cstate) : cstate[d] = "closed" => cstate'[d] = "closed"
    BY <1>2, <1>3
  <1>5. UNCHANGED <<conn, lock, permits, pc, inRun, mine, ran, outcome>>
    BY <1>1 DEF Finish, Drop, local
  <1>6. faults' \in 0..MaxFaults /\ ran' \in [Tasks -> BOOLEAN]
    BY <1>1, <1>5, SshAssumption DEF Finish, Drop, Fault, TInv, TypeOK
  <1>7. TInv'
    BY <1>4, <1>5, <1>6, ConnectionsInv
  <1> QED BY <1>4, <1>5, <1>7 DEF StaysClosed, IsClosed

LEMMA RunStepInv ==
  ASSUME TInv, NEW t \in Tasks, RunStep(t)
  PROVE  /\ TInv' /\ StaysClosed /\ OthersSame(t)
         /\ pc[t] \in {"sem", "lock", "connect", "command"}
  <1>1. TInv'
    BY EnterSemInv, EnsureInv, ConnectedInv, ConnectFailsInv, CommandDoneInv,
       CommandCutInv, CommandTimeoutInv DEF RunStep
  <1>2. cstate' = cstate \/ cstate' = Append(cstate, "open")
    BY DEF RunStep, EnterSem, Ensure, Connected, ConnectFails, CommandDone, CommandCut,
           CommandTimeout, shared
  <1>3. StaysClosed
    <2>1. cstate \in Seq({"open", "closing", "closed"})
      BY DEF TInv, TypeOK
    <2>2. \A c \in 1..Len(cstate) : cstate'[c] = cstate[c]
      BY <1>2, <2>1
    <2> QED BY <2>2 DEF StaysClosed, IsClosed
  <1>4. pc[t] \in {"sem", "lock", "connect", "command"}
    BY DEF RunStep, EnterSem, Ensure, Connected, ConnectFails, CommandDone, CommandCut,
           CommandTimeout
  <1>5. OthersSame(t)
    BY DEF RunStep, EnterSem, Ensure, Connected, ConnectFails, CommandDone, CommandCut,
           CommandTimeout, local, Goto, EndRun, OthersSame, TInv, TypeOK
  <1> QED BY <1>1, <1>3, <1>4, <1>5

\* A task leaves aclose() with every connection closed.
LEMMA CloseStepInv ==
  ASSUME TInv, NEW t \in Tasks, CloseStep(t)
  PROVE  /\ TInv' /\ StaysClosed /\ OthersSame(t) /\ UNCHANGED <<mine, inRun>>
         /\ pc[t] \in {"closeLock", "closeWait"}
         /\ \/ pc'[t] = "closeWait"
            \/ pc'[t] = "idle" /\ UNCHANGED cstate /\ AllClosed
  <1>1. TInv'
    BY CloseConnInv, CloseDoneInv DEF CloseStep
  <1>2. StaysClosed
    BY DEF CloseStep, CloseConn, CloseDone, StaysClosed, IsClosed, IsOpen, TInv, TypeOK
  <1>3. OthersSame(t) /\ UNCHANGED <<mine, inRun>>
    BY DEF CloseStep, CloseConn, CloseDone, Closed, EndRun, Goto, OthersSame, TInv, TypeOK
  <1>4. pc[t] \in {"closeLock", "closeWait"}
    BY DEF CloseStep, CloseConn, CloseDone
  <1>5. IsClosed(conn) => AllClosed
    BY DEF TInv, TypeOK, OneConnection, AllClosed, IsClosed
  <1>6. \/ pc'[t] = "closeWait"
        \/ pc'[t] = "idle" /\ UNCHANGED cstate /\ IsClosed(conn)
    BY DEF CloseStep, CloseConn, CloseDone, Closed, EndRun, Goto, IsClosed, TInv, TypeOK
  <1> QED BY <1>1, <1>2, <1>3, <1>4, <1>5, <1>6

LEMMA CancelEffect ==
  ASSUME TInv, NEW t \in Tasks, Cancel(t)
  PROVE  /\ TInv' /\ StaysClosed /\ OthersSame(t) /\ UNCHANGED <<mine, inRun>>
         /\ pc[t] # "idle" /\ pc'[t] = "idle" /\ outcome'[t] = "cancelled"
  <1>1. TInv'
    BY CancelInv
  <1>2. StaysClosed
    BY DEF Cancel, StaysClosed, IsClosed
  <1>3. OthersSame(t) /\ UNCHANGED <<mine, inRun>>
    BY DEF Cancel, EndRun, Goto, OthersSame, TInv, TypeOK
  <1>4. pc[t] # "idle" /\ pc'[t] = "idle" /\ outcome'[t] = "cancelled"
    BY DEF Cancel, EndRun, Goto, TInv, TypeOK
  <1> QED BY <1>1, <1>2, <1>3, <1>4

LEMMA DeviceInv ==
  ASSUME TInv, NEW t \in Tasks, DeviceExecutes(t)
  PROVE  TInv' /\ StaysClosed /\ UNCHANGED <<pc, inRun, mine, outcome, op, verdict>>
  <1>1. CASE op[t] = "racreset"
    <2>1. cstate \in Seq({"open", "closing", "closed"})
      BY DEF TInv, TypeOK
    <2>2. cstate' = [c \in 1..Len(cstate) |-> IF cstate[c] = "open" THEN "closing" ELSE cstate[c]]
      BY <1>1, <2>1 DEF DeviceExecutes
    <2>3. cstate' \in Seq({"open", "closing", "closed"}) /\ Len(cstate') = Len(cstate)
      BY <2>1, <2>2
    <2>4. \A c \in 1..Len(cstate) : cstate[c] = "closed" => cstate'[c] = "closed"
      BY <2>2
    <2>5. UNCHANGED <<conn, lock, permits, pc, inRun, mine, outcome, faults, op, verdict>>
      BY <1>1 DEF DeviceExecutes
    <2>6. ran' \in [Tasks -> BOOLEAN] /\ faults' \in 0..MaxFaults
      BY <1>1, <2>5 DEF DeviceExecutes, TInv, TypeOK
    <2>7. TInv'
      BY <2>3, <2>4, <2>5, <2>6, ConnectionsInv
    <2> QED BY <2>4, <2>5, <2>7 DEF StaysClosed, IsClosed
  <1>2. CASE op[t] # "racreset"
    <2>1. Execute(t) /\ UNCHANGED <<op, verdict>>
      BY <1>2 DEF DeviceExecutes
    <2>2. UNCHANGED <<cstate, pc, inRun, mine, outcome>>
      BY <2>1 DEF Execute, shared
    <2> QED BY <2>1, <2>2, ExecuteInv DEF StaysClosed, IsClosed
  <1> QED BY <1>1, <1>2

-----------------------------------------------------------------------------
\* The methods of the client on top.

\* Where the transport is in each method; what racreset's aclose() leaves.
InMethod ==
  \A t \in Tasks :
    /\ op[t] = "none" => pc[t] = "idle"
    /\ op[t] # "none" => verdict[t] = "none"
    /\ op[t] \in {"reset2", "aclose"} =>
         pc[t] \in {"idle", "closeLock", "closeWait"} /\ inRun[t] = FALSE
    /\ op[t] = "reset2" /\ pc[t] = "idle" /\ outcome[t] # "cancelled" => IsClosed(mine[t])

RInv == /\ TInv /\ op \in [Tasks -> Ops] /\ verdict \in [Tasks -> Verdicts]
        /\ ResetDropsSession /\ InMethod

LEMMA RInvInit == RInit => RInv
  <1> SUFFICES ASSUME RInit PROVE RInv
    OBVIOUS
  <1>1. TInv
    BY TInvInit DEF RInit
  <1>2. ResetDropsSession /\ InMethod
    BY DEF RInit, Init, ResetDropsSession, InMethod
  <1> QED BY <1>1, <1>2 DEF RInit, RInv, Ops, Verdicts

LEMMA TInvStutter ==
  ASSUME TInv, UNCHANGED vars
  PROVE  TInv'
  <1>1. TypeOK' /\ PermitsConserved'
    BY DEF vars, shared, local, TInv, TypeOK, LockHeld, PermitsConserved, Holders
  <1>2. OneConnection' /\ TimedOutClosed' /\ OnTheWay'
    BY DEF vars, shared, local, TInv, OneConnection, TimedOutClosed, OnTheWay, IsClosed
  <1> QED BY <1>1, <1>2 DEF TInv

\* A method begins or goes on.
LEMMA MethodsInv ==
  ASSUME RInv, NEW t \in Tasks, Command(t) \/ Racreset(t) \/ Aclose(t) \/ Continue(t)
  PROVE  RInv'
  <1> USE DEF RInv, Ops, Verdicts
  <1>1. CASE Command(t)
    <2>1. CallRun(t) /\ faults' \in 0..MaxFaults /\ UNCHANGED cstate
      BY <1>1 DEF Command, CallRun, shared, TInv, TypeOK
    <2>2. TInv'
      BY <2>1, CallRunInv
    <2>3. ResetDropsSession' /\ InMethod'
      BY <1>1 DEF Command, Begin, CallRun, Goto, shared, ResetDropsSession, InMethod, IsClosed, TInv, TypeOK
    <2> QED BY <1>1, <2>2, <2>3 DEF Command, Begin
  <1>2. CASE Racreset(t)
    <2>1. CallRun(t) /\ faults' \in 0..MaxFaults /\ UNCHANGED cstate
      BY <1>2, SshAssumption DEF Racreset, CallRun, Fault, shared, TInv, TypeOK
    <2>2. TInv'
      BY <2>1, CallRunInv
    <2>3. ResetDropsSession' /\ InMethod'
      BY <1>2 DEF Racreset, Begin, CallRun, Goto, shared, ResetDropsSession, InMethod, IsClosed, TInv, TypeOK
    <2> QED BY <1>2, <2>2, <2>3 DEF Racreset, Begin
  <1>3. CASE Aclose(t)
    <2>1. CallClose(t) /\ faults' \in 0..MaxFaults
      BY <1>3, SshAssumption DEF Aclose, Fault, TInv, TypeOK
    <2>2. TInv'
      BY <2>1, CallCloseInv
    <2>3. ResetDropsSession' /\ InMethod'
      BY <1>3 DEF Aclose, Begin, CallClose, Goto, shared, ResetDropsSession, InMethod, IsClosed, TInv, TypeOK
    <2> QED BY <1>3, <2>2, <2>3 DEF Aclose, Begin
  <1>4. CASE ResetReturns(t)
    <2>1. CallClose(t) /\ faults' \in 0..MaxFaults
      BY <1>4 DEF ResetReturns, TInv, TypeOK
    <2>2. TInv'
      BY <2>1, CallCloseInv
    <2>3. ResetDropsSession' /\ InMethod'
      BY <1>4 DEF ResetReturns, CallClose, Goto, shared, ResetDropsSession, InMethod, IsClosed, TInv, TypeOK
    <2> QED BY <1>4, <2>2, <2>3 DEF ResetReturns
  <1>5. CASE CommandReturns(t) \/ ResetRaises(t) \/ CloseReturns(t)
    <2>1. TInv'
      BY <1>5, TInvStutter DEF CommandReturns, ResetRaises, CloseReturns
    <2>2. UNCHANGED <<cstate, pc, inRun, mine, outcome>> /\ pc[t] = "idle"
      BY <1>5 DEF CommandReturns, ResetRaises, CloseReturns, vars, shared, local
    <2>3. PICK v \in Verdicts : /\ End(t, v)
                                /\ v = "reset" => op[t] = "reset2" /\ outcome[t] # "cancelled"
      BY <1>5 DEF CommandReturns, ResetRaises, CloseReturns
    <2>4. ResetDropsSession'
      BY <2>2, <2>3 DEF End, ResetDropsSession, InMethod, IsClosed
    <2>5. InMethod'
      BY <2>2, <2>3 DEF End, InMethod, IsClosed
    <2> QED BY <2>1, <2>3, <2>4, <2>5 DEF End
  <1> QED BY <1>1, <1>2, <1>3, <1>4, <1>5 DEF Continue

\* A step of the transport under the methods.
LEMMA BelowInv ==
  ASSUME RInv, UNCHANGED <<op, verdict>>,
         \/ \E t \in Tasks : RunStep(t) \/ CloseStep(t) \/ Cancel(t) \/ DeviceExecutes(t)
         \/ Network
  PROVE  RInv'
  <1> USE DEF RInv
  <1>1. ASSUME NEW t \in Tasks, RunStep(t) PROVE RInv'
    <2>1. /\ TInv' /\ StaysClosed /\ OthersSame(t)
          /\ pc[t] \in {"sem", "lock", "connect", "command"}
      BY <1>1, RunStepInv
    <2>2. verdict[t] = "none" /\ op[t] \notin {"none", "reset2", "aclose"}
      BY <2>1 DEF InMethod
    <2>3. \A u \in Tasks : mine[u] \in 0..Len(cstate)
      BY DEF TInv, TypeOK
    <2>4. ResetDropsSession'
      BY <2>1, <2>2, <2>3 DEF OthersSame, StaysClosed, ResetDropsSession, IsClosed
    <2>5. InMethod'
      BY <2>1, <2>2, <2>3 DEF OthersSame, StaysClosed, InMethod, IsClosed
    <2> QED BY <2>1, <2>4, <2>5
  <1>2. ASSUME NEW t \in Tasks, CloseStep(t) PROVE RInv'
    <2>1. /\ TInv' /\ StaysClosed /\ OthersSame(t) /\ UNCHANGED <<mine, inRun>>
          /\ pc[t] \in {"closeLock", "closeWait"}
          /\ \/ pc'[t] = "closeWait"
             \/ pc'[t] = "idle" /\ UNCHANGED cstate /\ AllClosed
      BY <1>2, CloseStepInv
    <2>2. \A u \in Tasks : mine[u] \in 0..Len(cstate)
      BY DEF TInv, TypeOK
    <2>3. ResetDropsSession'
      BY <2>1, <2>2 DEF StaysClosed, ResetDropsSession, IsClosed
    <2>4. InMethod'
      BY <2>1, <2>2 DEF OthersSame, StaysClosed, AllClosed, InMethod, IsClosed
    <2> QED BY <2>1, <2>3, <2>4
  <1>3. ASSUME NEW t \in Tasks, Cancel(t) PROVE RInv'
    <2>1. /\ TInv' /\ StaysClosed /\ OthersSame(t) /\ UNCHANGED <<mine, inRun>>
          /\ pc[t] # "idle" /\ pc'[t] = "idle" /\ outcome'[t] = "cancelled"
      BY <1>3, CancelEffect
    <2>2. \A u \in Tasks : mine[u] \in 0..Len(cstate)
      BY DEF TInv, TypeOK
    <2>3. ResetDropsSession'
      BY <2>1, <2>2 DEF StaysClosed, ResetDropsSession, IsClosed
    <2>4. InMethod'
      BY <2>1, <2>2 DEF OthersSame, StaysClosed, InMethod, IsClosed
    <2> QED BY <2>1, <2>3, <2>4
  <1>4. ASSUME TInv', StaysClosed, UNCHANGED <<pc, inRun, mine, outcome>> PROVE RInv'
    BY <1>4 DEF StaysClosed, ResetDropsSession, InMethod, IsClosed, TInv, TypeOK
  <1>5. ASSUME NEW t \in Tasks, DeviceExecutes(t) PROVE RInv'
    BY <1>4, <1>5, DeviceInv
  <1>6. CASE Network
    BY <1>4, <1>6, NetworkInv
  <1> QED BY <1>1, <1>2, <1>3, <1>5, <1>6

LEMMA RInvStep == RInv /\ [RNext]_rvars => RInv'
  <1> SUFFICES ASSUME RInv, [RNext]_rvars PROVE RInv'
    OBVIOUS
  <1>1. CASE \E t \in Tasks : Command(t) \/ Racreset(t) \/ Aclose(t) \/ Continue(t)
    BY <1>1, MethodsInv
  <1>2. CASE /\ UNCHANGED <<op, verdict>>
             /\ \/ \E t \in Tasks : RunStep(t) \/ CloseStep(t) \/ Cancel(t) \/ DeviceExecutes(t)
                \/ Network
    BY <1>2, BelowInv
  <1>3. CASE UNCHANGED rvars
    <2>1. TInv'
      BY <1>3, TInvStutter DEF rvars, RInv
    <2>2. ResetDropsSession' /\ InMethod'
      BY <1>3 DEF rvars, vars, shared, local, RInv, ResetDropsSession, InMethod, IsClosed
    <2> QED BY <1>3, <2>1, <2>2 DEF rvars, RInv
  <1>4. \A t \in Tasks : DeviceExecutes(t) => UNCHANGED <<op, verdict>>
    BY DEF DeviceExecutes
  <1> QED BY <1>1, <1>2, <1>3, <1>4 DEF RNext, Below

LEMMA RInvHolds == RSpec => []RInv
  BY RInvInit, RInvStep, PTL DEF RSpec

-----------------------------------------------------------------------------
\* Types, and the lock of the transport (_ensure, aclose) is held by the one
\* task that connects or closes: for any tasks, faults and max_concurrent.
THEOREM TypeCorrect == RSpec => []RTypeOK
  <1>1. RInv => RTypeOK
    BY DEF RInv, TInv, RTypeOK
  <1> QED BY <1>1, RInvHolds, PTL

\* run() gives back the permit it took on every path, exactly once.
THEOREM PermitsConservedHolds == RSpec => []PermitsConserved
  <1>1. RInv => PermitsConserved
    BY DEF RInv, TInv
  <1> QED BY <1>1, RInvHolds, PTL

\* However many tasks reconnect and close, one connection at most is not
\* closed, and it is the client's.
THEOREM OneConnectionHolds == RSpec => []OneConnection
  <1>1. RInv => OneConnection
    BY DEF RInv, TInv
  <1> QED BY <1>1, RInvHolds, PTL

\* A run() that raised the timeout left the connection it used closed.
THEOREM TimedOutClosedHolds == RSpec => []TimedOutClosed
  <1>1. RInv => TimedOutClosed
    BY DEF RInv, TInv
  <1> QED BY <1>1, RInvHolds, PTL

\* A racreset that returned left the connection it used closed.
THEOREM ResetDropsSessionHolds == RSpec => []ResetDropsSession
  <1>1. RInv => ResetDropsSession
    BY DEF RInv
  <1> QED BY <1>1, RInvHolds, PTL

-----------------------------------------------------------------------------
\* The client implements SshPool: a step of a task moves at most that task
\* among the holders, and only Connected and Finish change what is open.

OpenConns == {c \in 1..Len(cstate) : cstate[c] # "closed"}
SameOpen  == OpenConns' = OpenConns

\* The instance has a Cardinality of its own.
LEMMA PoolCardinality ==
  ASSUME NEW S
  PROVE  Pool!Cardinality(S) = Cardinality(S)
  BY DEF Pool!Cardinality, Cardinality

LEMMA PoolMove ==
  ASSUME TInv, NEW t \in Tasks, Move(t), SameOpen
  PROVE  [Pool!Next]_(Pool!pool)
  <1> USE DEF SameOpen, OpenConns, Pool!pool
  <1>1. CASE permits' = permits /\ Holders' = Holders
    BY <1>1
  <1>2. CASE t \in Holders /\ Holders' = Holders \ {t}
    <2>1. Pool!End(t)
      BY <1>2 DEF Pool!End
    <2> QED BY <2>1 DEF Pool!Next
  <1>3. CASE permits > 0 /\ t \notin Holders /\ Holders' = Holders \cup {t}
    <2>1. Holders \subseteq Tasks /\ IsFiniteSet(Holders)
      BY SshAssumption, FS_Subset DEF Holders
    <2>2. Cardinality(Holders) < MaxConcurrent
      <3>1. Cardinality(Holders) \in Nat
        BY <2>1, FS_CardinalityType
      <3>2. permits \in 0..MaxConcurrent /\ permits + Cardinality(Holders) = MaxConcurrent
        BY DEF TInv, TypeOK, PermitsConserved
      <3> QED BY <1>3, <3>1, <3>2, SshAssumption
    <2>3. Pool!Begin(t)
      BY <1>3, <2>2, PoolCardinality DEF Pool!Begin
    <2> QED BY <2>3 DEF Pool!Next
  <1> QED BY <1>1, <1>2, <1>3 DEF Move

LEMMA PoolConnect ==
  ASSUME TInv, TInv', NEW t \in Tasks, Connected(t)
  PROVE  Pool!Next
  <1>1. t \in Holders /\ Holders' = Holders
    BY DEF Connected, Goto, Holders, TInv, TypeOK, Pcs
  <1>2. OpenConns = {}
    BY DEF Connected, OpenConns, TInv, TypeOK, OnTheWay, OneConnection, IsClosed
  <1>3. OpenConns' = {NewConn}
    <2>1. NewConn \in 1..Len(cstate') /\ cstate'[NewConn] = "open" /\ conn' = NewConn
      BY DEF Connected, NewConn, TInv, TypeOK
    <2>2. \A c \in 1..Len(cstate') : cstate'[c] # "closed" => c = NewConn
      BY <2>1 DEF TInv, OneConnection
    <2> QED BY <2>1, <2>2 DEF OpenConns
  <1>4. Pool!Connect
    <2>1. Holders # {}
      BY <1>1
    <2>2. OpenConns' # {} /\ \A c, d \in OpenConns' : c = d
      BY <1>3
    <2> QED BY <1>1, <1>2, <2>1, <2>2 DEF Pool!Connect, OpenConns
  <1> QED BY <1>4 DEF Pool!Next

LEMMA PoolRun ==
  ASSUME TInv, TInv', NEW t \in Tasks, RunStep(t)
  PROVE  [Pool!Next]_(Pool!pool)
  <1> USE DEF Goto, shared, local
  <1>1. CASE Connected(t)
    BY <1>1, PoolConnect
  <1>2. ASSUME UNCHANGED cstate PROVE SameOpen
    BY <1>2 DEF SameOpen, OpenConns
  <1>3. CASE EnterSem(t)
    <2>1. Move(t)
      BY <1>3, SshAssumption DEF EnterSem, TInv, TypeOK, Pcs, OnTheWay, Holders, Move
    <2> QED BY <1>2, <1>3, <2>1, PoolMove DEF EnterSem
  <1>4. CASE Ensure(t)
    <2>1. Move(t)
      BY <1>4 DEF Ensure, TInv, TypeOK, Pcs, Holders, Move
    <2> QED BY <1>2, <1>4, <2>1, PoolMove DEF Ensure
  <1>5. CASE ConnectFails(t) \/ CommandDone(t) \/ CommandCut(t)
    <2>1. Move(t)
      BY <1>5 DEF ConnectFails, CommandDone, CommandCut, EndRun, TInv, TypeOK, Pcs, Holders, Move
    <2> QED BY <1>2, <1>5, <2>1, PoolMove DEF ConnectFails, CommandDone, CommandCut
  <1>6. CASE CommandTimeout(t)
    <2>1. Move(t)
      BY <1>6 DEF CommandTimeout, TInv, TypeOK, Pcs, OnTheWay, Holders, Move
    <2> QED BY <1>2, <1>6, <2>1, PoolMove DEF CommandTimeout
  <1> QED BY <1>1, <1>3, <1>4, <1>5, <1>6 DEF RunStep

LEMMA PoolClose ==
  ASSUME TInv, NEW t \in Tasks, CloseStep(t) \/ Cancel(t)
  PROVE  [Pool!Next]_(Pool!pool)
  <1> USE DEF Goto, EndRun, Closed
  <1>1. Move(t)
    <2>1. CASE CloseConn(t)
      BY <2>1 DEF CloseConn, TInv, TypeOK, Pcs, Holders, Move
    <2>2. CASE CloseDone(t)
      BY <2>2 DEF CloseDone, TInv, TypeOK, Pcs, Holders, Move
    <2>3. CASE Cancel(t)
      BY <2>3 DEF Cancel, TInv, TypeOK, Pcs, Holders, Move
    <2> QED BY <2>1, <2>2, <2>3 DEF CloseStep
  <1>2. SameOpen
    <2>1. CASE UNCHANGED cstate
      BY <2>1 DEF SameOpen, OpenConns
    <2>2. CASE CloseConn(t) /\ IsOpen(conn) /\ cstate' = [cstate EXCEPT ![conn] = "closing"]
      BY <2>2 DEF TInv, TypeOK, IsOpen, SameOpen, OpenConns
    <2> QED BY <2>1, <2>2 DEF CloseStep, CloseConn, CloseDone, Cancel
  <1> QED BY <1>1, <1>2, PoolMove

\* What keeps holders and permits.
LEMMA PoolKeeps ==
  ASSUME UNCHANGED Holders, SameOpen
  PROVE  [Pool!Next]_(Pool!pool)
  BY DEF SameOpen, OpenConns, Pool!pool

LEMMA PoolNetwork ==
  ASSUME TInv, Network
  PROVE  [Pool!Next]_(Pool!pool)
  <1>1. UNCHANGED Holders
    BY DEF Network, Finish, Drop, local, Holders
  <1>2. ASSUME NEW c \in 1..Len(cstate), Finish(c) PROVE Pool!Next
    <2>1. OpenConns = {c} /\ OpenConns' = {}
      BY <1>2 DEF Finish, TInv, TypeOK, OneConnection, OpenConns
    <2>2. Pool!Lose
      BY <1>1, <2>1 DEF Pool!Lose, OpenConns
    <2> QED BY <2>2 DEF Pool!Next
  <1>3. ASSUME NEW c \in 1..Len(cstate), Drop(c) PROVE SameOpen
    BY <1>3 DEF Drop, TInv, TypeOK, SameOpen, OpenConns
  <1> QED BY <1>1, <1>2, <1>3, PoolKeeps DEF Network

LEMMA PoolDevice ==
  ASSUME TInv, NEW t \in Tasks, DeviceExecutes(t)
  PROVE  [Pool!Next]_(Pool!pool)
  <1>1. UNCHANGED Holders
    BY DEF DeviceExecutes, Execute, shared, Holders
  <1>2. SameOpen
    <2>1. CASE UNCHANGED cstate
      BY <2>1 DEF SameOpen, OpenConns
    <2>2. CASE cstate' = [c \in DOMAIN cstate |-> IF cstate[c] = "open" THEN "closing" ELSE cstate[c]]
      <3>1. DOMAIN cstate = 1..Len(cstate) /\ Len(cstate) \in Nat
        BY DEF TInv, TypeOK
      <3>2. Len(cstate') = Len(cstate) /\ \A c \in 1..Len(cstate) : cstate'[c] # "closed" <=> cstate[c] # "closed"
        BY <2>2, <3>1
      <3> QED BY <3>2 DEF SameOpen, OpenConns
    <2> QED BY <2>1, <2>2 DEF DeviceExecutes, Execute, shared
  <1> QED BY <1>1, <1>2, PoolKeeps

\* The methods begin outside the semaphore and end outside it.
LEMMA PoolMethods ==
  ASSUME TInv, NEW t \in Tasks, Command(t) \/ Racreset(t) \/ Aclose(t) \/ Continue(t)
  PROVE  [Pool!Next]_(Pool!pool)
  <1>1. ASSUME UNCHANGED vars PROVE UNCHANGED Holders /\ SameOpen
    BY <1>1 DEF vars, shared, local, Holders, SameOpen, OpenConns
  <1>2. ASSUME CallRun(t) \/ CallClose(t) PROVE UNCHANGED Holders /\ SameOpen
    BY <1>2 DEF CallRun, CallClose, Goto, shared, TInv, TypeOK, Pcs, Holders, SameOpen, OpenConns
  <1> QED BY <1>1, <1>2, PoolKeeps
          DEF Command, Racreset, Aclose, Continue, CommandReturns, ResetReturns, ResetRaises, CloseReturns

LEMMA PoolStep ==
  ASSUME TInv, TInv', [RNext]_rvars
  PROVE  [Pool!Next]_(Pool!pool)
  <1>1. CASE UNCHANGED rvars
    <2>1. UNCHANGED Holders /\ SameOpen
      BY <1>1 DEF rvars, vars, shared, local, Holders, SameOpen, OpenConns
    <2> QED BY <2>1, PoolKeeps
  <1>2. CASE Network
    BY <1>2, PoolNetwork
  <1>3. ASSUME NEW t \in Tasks, RunStep(t) \/ CloseStep(t) \/ Cancel(t) \/ DeviceExecutes(t)
        PROVE  [Pool!Next]_(Pool!pool)
    BY <1>3, PoolRun, PoolClose, PoolDevice
  <1>4. ASSUME NEW t \in Tasks, Command(t) \/ Racreset(t) \/ Aclose(t) \/ Continue(t)
        PROVE  [Pool!Next]_(Pool!pool)
    BY <1>4, PoolMethods
  <1> QED BY <1>1, <1>2, <1>3, <1>4 DEF RNext, Below

\* "One reusable SSH connection per host, bounded concurrency": whatever the
\* tasks, the device and the network do, RACADMClient and its transport do
\* what a pool with one connection and max_concurrent places may do.
THEOREM PoolKeptHolds == RSpec => PoolKept
  <1>1. RInit => Pool!Init
    BY DEF RInit, Init, Pool!Init, Holders
  <1>2. RInv /\ RInv' /\ [RNext]_rvars => [Pool!Next]_(Pool!pool)
    BY PoolStep DEF RInv
  <1> QED BY <1>1, <1>2, RInvHolds, PTL DEF RSpec, PoolKept, Pool!Spec
=============================================================================
