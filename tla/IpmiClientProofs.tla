-------------------------- MODULE IpmiClientProofs --------------------------
(***************************************************************************)
(* Proofs about IpmiClient, for any tasks, cancellations, failures and     *)
(* openings of the client.                                                 *)
(***************************************************************************)
EXTENDS IpmiClient, FiniteSetTheorems, TLAPS

Outcomes == {"up", "out"}

\* A task waits for the thread that its place in the code submits; only the
\* owner opens the client.
AtWork ==
  \A t \in Tasks :
    /\ pc[t] \in {"idle", "lock", "closeLock"} => job[t] = NoThread
    /\ pc[t] \in {"build", "ident"} => t = Owner
    /\ pc[t] \in {"build", "ident", "op", "logout"} => job[t].kind = pc[t]

\* The sessions of logouts under way, and those that are up and in none.
Ending == {job[t].on : t \in {u \in Tasks : job[u].kind = "logout"}}
          \cup {o.thread.on : o \in {p \in orphans : p.thread.kind = "logout"}}
Intact == {s \in 1..Len(sess) : sess[s] = "up" /\ s \notin Ending}

\* The sessions in use are intact: the client's, the one that was just built
\* and is not the client's yet, and those a command talks on.
InUse ==
  /\ cmd # 0 => cmd \in Intact
  /\ \A t \in Tasks :
       /\ job[t].kind = "build" /\ job[t].st = "done" => job[t].on \in Intact /\ job[t].on # cmd
       /\ job[t].kind = "op" /\ job[t].st = "running" => job[t].on \in Intact
  /\ Ending \subseteq 1..Len(sess)

IInv == TypeOK /\ AtWork /\ InUse

LEMMA IInvInit == Init => IInv
  <1> SUFFICES ASSUME Init PROVE IInv
    OBVIOUS
  <1> USE IpmiAssumption DEF Init, NoThread
  <1>1. Len(sess) = 0 /\ sess \in Seq({"up", "out"})
    OBVIOUS
  <1>2. /\ job \in [Tasks -> [kind : Kinds, on : 0..Len(sess), st : Steps]]
        /\ pc \in [Tasks -> Pcs]
        /\ \A t \in Tasks : pc[t] = "idle" /\ job[t] = NoThread
    BY <1>1 DEF Kinds, Steps, Pcs
  <1>3. /\ cmd \in 0..Len(sess) /\ opens \in 0..MaxOpens
        /\ cancels \in 0..MaxCancels /\ faults \in 0..MaxFaults
    BY <1>1
  <1>4. TypeOK
    BY <1>1, <1>2, <1>3 DEF TypeOK
  <1>5. Ending = {}
    BY DEF Ending
  <1>6. AtWork
    BY <1>2 DEF AtWork
  <1>7. InUse
    BY <1>2, <1>5 DEF InUse
  <1> QED BY <1>4, <1>6, <1>7 DEF IInv

-----------------------------------------------------------------------------
\* What the steps have in common.

\* A task whose thread is of some kind is at the place that submits it.
LEMMA KindIsPlace ==
  ASSUME TypeOK, AtWork, NEW t \in Tasks, job[t].kind # "none"
  PROVE  pc[t] = job[t].kind /\ pc[t] \in {"build", "ident", "op", "logout"}
  BY DEF TypeOK, AtWork, NoThread, Pcs

\* A session that is no logout's stays so if no logout is added.
LEMMA EndingKept ==
  ASSUME \A u \in Tasks : job'[u].kind = "logout" => job'[u].on \in Ending,
         \A o \in orphans' : o.thread.kind = "logout" => o.thread.on \in Ending
  PROVE  Ending' \subseteq Ending
  BY DEF Ending

\* A task goes on to p and waits for the thread j there.
LEMMA GotoTyped ==
  ASSUME TypeOK, NEW t \in Tasks, NEW p \in Pcs, NEW j, Goto(t, p, j), UNCHANGED sess,
         j \in [kind : Kinds, on : 0..Len(sess), st : Steps]
  PROVE  /\ pc' \in [Tasks -> Pcs] /\ job' \in [Tasks -> [kind : Kinds, on : 0..Len(sess'), st : Steps]]
         /\ pc'[t] = p /\ job'[t] = j
         /\ \A u \in Tasks \ {t} : pc'[u] = pc[u] /\ job'[u] = job[u]
  BY DEF TypeOK, Goto

\* It is then where it may wait for j.
LEMMA GotoAtWork ==
  ASSUME AtWork, NEW t \in Tasks, NEW p \in Pcs, NEW j,
         pc'[t] = p, job'[t] = j,
         \A u \in Tasks \ {t} : pc'[u] = pc[u] /\ job'[u] = job[u],
         p \in {"idle", "lock", "closeLock"} => j = NoThread,
         p \in {"build", "ident", "op", "logout"} => j.kind = p,
         p \in {"build", "ident"} => t = Owner
  PROVE  AtWork'
  <1>1. ASSUME NEW u \in Tasks \ {t}
        PROVE  /\ pc'[u] \in {"idle", "lock", "closeLock"} => job'[u] = NoThread
               /\ pc'[u] \in {"build", "ident"} => u = Owner
               /\ pc'[u] \in {"build", "ident", "op", "logout"} => job'[u].kind = pc'[u]
    BY <1>1 DEF AtWork
  <1> QED BY <1>1 DEF AtWork

\* Such a step keeps IInv if it logs out no session, keeps the lock with who
\* needs it, and makes no session the client's but an intact one.
LEMMA GotoInv ==
  ASSUME IInv, NEW t \in Tasks, NEW p \in Pcs, NEW j, Goto(t, p, j), UNCHANGED sess,
         j \in [kind : Kinds, on : 0..Len(sess), st : Steps],
         j = NoThread \/ (j.st = "queued" /\ j.kind # "logout"),
         p \in {"idle", "lock", "closeLock"} => j = NoThread,
         p \in {"build", "ident", "op", "logout"} => j.kind = p,
         p \in {"build", "ident"} => t = Owner,
         \/ p = "op" /\ lock = NoTask /\ lock' = t
         \/ p # "op" /\ lock' = IF lock = t THEN NoTask ELSE lock,
         cmd' = cmd \/ (cmd' \in Intact /\ t = Owner),
         \A o \in orphans' : o \in orphans \/ o.thread = job[t],
         \A o \in orphans' : o.id \in 0..(cancels' - 1) /\ o.thread.st = "running",
         usable' \in BOOLEAN, opens' \in 0..MaxOpens,
         cancels' \in 0..MaxCancels, faults' \in 0..MaxFaults
  PROVE  IInv'
  <1>1. TypeOK /\ AtWork /\ InUse
    BY DEF IInv
  <1>2. /\ pc' \in [Tasks -> Pcs] /\ job' \in [Tasks -> [kind : Kinds, on : 0..Len(sess'), st : Steps]]
        /\ pc'[t] = p /\ job'[t] = j
        /\ \A u \in Tasks \ {t} : pc'[u] = pc[u] /\ job'[u] = job[u]
    BY <1>1, GotoTyped
  <1>3. p # "logout" /\ (p = "op" => lock' = t)
    BY DEF NoThread
  <1>4. \A u \in Tasks : lock' = u <=> pc'[u] \in {"op", "logout"}
    <2>1. ASSUME NEW u \in Tasks \ {t} PROVE lock' = u <=> pc'[u] \in {"op", "logout"}
      BY <1>1, <1>2, <2>1, IpmiAssumption DEF TypeOK
    <2>2. lock' = t <=> pc'[t] \in {"op", "logout"}
      BY <1>2, <1>3, IpmiAssumption
    <2> QED BY <2>1, <2>2
  <1>5. sess \in Seq({"up", "out"}) /\ Len(sess) \in Nat /\ lock' \in Tasks \cup {NoTask}
    BY <1>1 DEF TypeOK
  <1>6. cmd' \in 0..Len(sess)
    BY <1>1, <1>5 DEF TypeOK, Intact
  <1>7. TypeOK'
    BY <1>1, <1>2, <1>4, <1>5, <1>6 DEF TypeOK
  <1>8. AtWork'
    BY <1>1, <1>2, GotoAtWork
  <1>9. Ending' \subseteq Ending
    <2>1. \A u \in Tasks : job'[u].kind = "logout" => job'[u].on \in Ending
      BY <1>2 DEF Ending, NoThread
    <2>2. \A o \in orphans' : o.thread.kind = "logout" => o.thread.on \in Ending
      BY DEF Ending
    <2> QED BY <2>1, <2>2, EndingKept
  <1>10. Intact \subseteq Intact'
    BY <1>9 DEF Intact
  <1>11. InUse'
    <2>1. cmd' # 0 => cmd' \in Intact'
      BY <1>1, <1>10 DEF InUse
    <2>2. ASSUME NEW u \in Tasks, job'[u].kind = "build", job'[u].st = "done"
          PROVE  job'[u].on \in Intact' /\ job'[u].on # cmd'
      <3>1. u # t
        BY <1>2, <2>2 DEF NoThread
      <3>2. job'[u] = job[u]
        BY <1>2, <3>1
      <3>3. u = Owner
        BY <1>1, <2>2, <3>2, KindIsPlace DEF AtWork
      <3> QED BY <1>1, <1>10, <2>2, <3>1, <3>2, <3>3 DEF InUse
    <2>3. ASSUME NEW u \in Tasks, job'[u].kind = "op", job'[u].st = "running"
          PROVE  job'[u].on \in Intact'
      <3>1. job'[u] = job[u]
        BY <1>2, <2>3 DEF NoThread
      <3> QED BY <1>1, <1>10, <2>3, <3>1 DEF InUse
    <2>4. Ending' \subseteq 1..Len(sess')
      BY <1>1, <1>9 DEF InUse
    <2> QED BY <2>1, <2>2, <2>3, <2>4 DEF InUse
  <1> QED BY <1>7, <1>8, <1>11 DEF IInv

\* What a thread that succeeds does to the sessions leaves the intact ones so.
LEMMA EffectIntact ==
  ASSUME TypeOK, NEW th, Effect(th), Ending \subseteq 1..Len(sess),
         th.kind = "logout" => th.on \in Ending, Ending' \subseteq Ending
  PROVE  /\ sess' \in Seq({"up", "out"}) /\ Len(sess') \in Nat /\ Len(sess) <= Len(sess')
         /\ Intact \subseteq Intact'
         /\ th.kind = "build" => Len(sess') = NewSession /\ NewSession \in Intact'
  <1>1. sess \in Seq({"up", "out"}) /\ Len(sess) \in Nat
    BY DEF TypeOK
  <1>2. CASE th.kind = "build"
    <2>1. sess' = Append(sess, "up")
      BY <1>2 DEF Effect
    <2>2. /\ sess' \in Seq({"up", "out"}) /\ Len(sess') = NewSession
          /\ sess'[NewSession] = "up" /\ \A s \in 1..Len(sess) : sess'[s] = sess[s]
      BY <1>1, <2>1 DEF NewSession
    <2> QED BY <1>1, <1>2, <2>2 DEF Intact, NewSession
  <1>3. CASE th.kind = "logout"
    <2>1. sess' = [sess EXCEPT ![th.on] = "out"] /\ th.on \in 1..Len(sess)
      BY <1>3 DEF Effect
    <2>2. /\ sess' \in Seq({"up", "out"}) /\ Len(sess') = Len(sess)
          /\ \A s \in 1..Len(sess) : s # th.on => sess'[s] = sess[s]
      BY <1>1, <2>1
    <2> QED BY <1>1, <1>3, <2>2 DEF Intact
  <1>4. CASE th.kind \notin {"build", "logout"}
    <2>1. sess' = sess
      BY <1>4 DEF Effect
    <2> QED BY <1>1, <1>4, <2>1 DEF Intact
  <1> QED BY <1>2, <1>3, <1>4

-----------------------------------------------------------------------------
\* Each action keeps IInv.

LEMMA OpenInv == ASSUME IInv, NEW t \in Tasks, Open(t) PROVE IInv'
  <1>1. TypeOK
    BY DEF IInv
  <1>2. Thread("build", 0) \in [kind : Kinds, on : 0..Len(sess), st : Steps]
    BY <1>1 DEF Thread, Kinds, Steps, TypeOK
  <1>3. opens' \in 0..MaxOpens /\ "build" \in Pcs /\ lock # t
    BY <1>1, IpmiAssumption DEF Open, TypeOK, Pcs
  <1> QED BY <1>1, <1>2, <1>3, GotoInv DEF Open, Thread, TypeOK

LEMMA BackInv ==
  ASSUME IInv, NEW t \in Tasks, Back(t), UNCHANGED <<cmd, sess, opens, cancels>>,
         lock' = IF lock = t THEN NoTask ELSE lock, UNCHANGED orphans,
         usable' \in BOOLEAN, faults' \in 0..MaxFaults
  PROVE  IInv'
  <1>1. TypeOK
    BY DEF IInv
  <1>2. NoThread \in [kind : Kinds, on : 0..Len(sess), st : Steps] /\ "idle" \in Pcs
    BY <1>1 DEF NoThread, Kinds, Steps, TypeOK, Pcs
  <1> QED BY <1>1, <1>2, GotoInv DEF Back, TypeOK

LEMMA BuiltInv == ASSUME IInv, NEW t \in Tasks, Built(t) PROVE IInv'
  <1>1. TypeOK /\ AtWork /\ InUse
    BY DEF IInv
  <1>2. pc[t] = "build" /\ t = Owner /\ job[t].kind = "build" /\ lock # t
    BY <1>1 DEF AtWork, Built, TypeOK
  <1>3. CASE job[t].st = "done"
    <2>1. job[t].on \in Intact /\ job[t].on \in 0..Len(sess)
      BY <1>1, <1>2, <1>3 DEF InUse, TypeOK
    <2>2. Thread("ident", job[t].on) \in [kind : Kinds, on : 0..Len(sess), st : Steps]
      BY <2>1 DEF Thread, Kinds, Steps
    <2>3. /\ cmd' = job[t].on /\ Goto(t, "ident", Thread("ident", job[t].on))
          /\ UNCHANGED <<sess, lock, orphans, usable, opens, cancels, faults>>
      BY <1>3 DEF Built
    <2>4. "ident" \in Pcs /\ Thread("ident", job[t].on).kind = "ident" /\ Thread("ident", job[t].on).st = "queued"
      BY DEF Thread, Pcs
    <2> QED BY <1>1, <1>2, <2>1, <2>2, <2>3, <2>4, GotoInv DEF TypeOK
  <1>4. CASE job[t].st # "done"
    BY <1>1, <1>2, <1>4, BackInv DEF Built, TypeOK
  <1> QED BY <1>3, <1>4

LEMMA IdentifiedInv == ASSUME IInv, NEW t \in Tasks, Identified(t) PROVE IInv'
  <1>1. TypeOK
    BY DEF IInv
  <1>2. lock # t
    BY <1>1 DEF Identified, TypeOK
  <1>3. usable' \in BOOLEAN
    BY <1>1 DEF Identified, TypeOK
  <1>4. faults' \in 0..MaxFaults
    BY <1>1, IpmiAssumption DEF Identified, TypeOK
  <1> QED BY <1>2, <1>3, <1>4, BackInv DEF Identified

LEMMA CallInv ==
  ASSUME IInv, NEW t \in Tasks, NEW p \in {"lock", "closeLock"}, pc[t] = "idle", Goto(t, p, NoThread),
         UNCHANGED <<cmd, sess, lock, orphans, usable, opens, cancels, faults>>
  PROVE  IInv'
  <1>1. TypeOK
    BY DEF IInv
  <1>2. NoThread \in [kind : Kinds, on : 0..Len(sess), st : Steps] /\ p \in Pcs /\ lock # t
    BY <1>1 DEF NoThread, Kinds, Steps, TypeOK, Pcs
  <1> QED BY <1>1, <1>2, GotoInv DEF TypeOK

LEMMA LockOpInv == ASSUME IInv, NEW t \in Tasks, LockOp(t) PROVE IInv'
  <1>1. TypeOK
    BY DEF IInv
  <1>2. Thread("op", 0) \in [kind : Kinds, on : 0..Len(sess), st : Steps] /\ "op" \in Pcs
    BY <1>1 DEF Thread, Kinds, Steps, TypeOK, Pcs
  <1> QED BY <1>1, <1>2, GotoInv DEF LockOp, LockFree, Thread, TypeOK

LEMMA LetGoInv ==
  ASSUME IInv, NEW t \in Tasks, OpReturns(t) \/ Closed(t)
  PROVE  IInv'
  <1>1. TypeOK
    BY DEF IInv
  <1>2. lock = t
    BY <1>1 DEF TypeOK, OpReturns, Closed
  <1> QED BY <1>1, <1>2, BackInv DEF TypeOK, OpReturns, Closed

\* The lock is free, so no command is under way on the session that is taken.
LEMMA LockCloseInv == ASSUME IInv, NEW t \in Tasks, LockClose(t) PROVE IInv'
  <1>1. TypeOK /\ AtWork /\ InUse
    BY DEF IInv
  <1>2. lock = NoTask /\ pc[t] = "closeLock"
    BY DEF LockClose, LockFree
  <1>3. CASE cmd = 0
    BY <1>1, <1>2, <1>3, BackInv, IpmiAssumption DEF LockClose, TypeOK
  <1>4. CASE cmd # 0
    <2> DEFINE j == Thread("logout", cmd)
    <2>1. /\ lock' = t /\ cmd' = 0 /\ Goto(t, "logout", j)
          /\ UNCHANGED <<sess, orphans, usable, opens, cancels, faults>>
      BY <1>4 DEF LockClose, TakesSession
    <2>2. cmd \in Intact /\ cmd \in 0..Len(sess)
      BY <1>1, <1>4 DEF InUse, TypeOK
    <2>3. j \in [kind : Kinds, on : 0..Len(sess), st : Steps] /\ "logout" \in Pcs
      BY <2>2 DEF Thread, Kinds, Steps, Pcs
    <2>4. /\ pc' \in [Tasks -> Pcs] /\ job' \in [Tasks -> [kind : Kinds, on : 0..Len(sess'), st : Steps]]
          /\ pc'[t] = "logout" /\ job'[t] = j
          /\ \A u \in Tasks \ {t} : pc'[u] = pc[u] /\ job'[u] = job[u]
      BY <1>1, <2>1, <2>3, GotoTyped
    <2>5. \A u \in Tasks : lock' = u <=> pc'[u] \in {"op", "logout"}
      BY <1>1, <1>2, <2>1, <2>4, IpmiAssumption DEF TypeOK
    <2>6. TypeOK'
      BY <1>1, <2>1, <2>2, <2>4, <2>5 DEF TypeOK
    <2>7. AtWork'
      <3>1. j.kind = "logout"
        BY DEF Thread
      <3> HIDE DEF j
      <3> QED BY <1>1, <2>3, <2>4, <3>1, GotoAtWork
    <2>8. Ending' \subseteq Ending \cup {cmd}
      BY <2>1, <2>4 DEF Ending, Thread
    <2>9. /\ \A s \in Intact : s # cmd => s \in Intact'
          /\ Ending' \subseteq 1..Len(sess')
      BY <1>1, <2>1, <2>2, <2>8 DEF Intact, InUse
    <2>10. ASSUME NEW u \in Tasks, job'[u].kind = "build", job'[u].st = "done"
           PROVE  job'[u].on \in Intact' /\ job'[u].on # cmd'
      <3>1. job'[u] = job[u]
        BY <2>4, <2>10 DEF Thread
      <3>2. job[u].on \in Intact /\ job[u].on # cmd
        BY <1>1, <2>10, <3>1 DEF InUse
      <3>3. job[u].on # 0
        BY <3>2 DEF Intact
      <3> QED BY <2>1, <2>9, <3>1, <3>2, <3>3
    <2>11. ASSUME NEW u \in Tasks, job'[u].kind = "op" PROVE FALSE
      <3>1. job'[u] = job[u]
        BY <2>4, <2>11 DEF Thread
      <3>2. lock = u
        BY <1>1, <2>11, <3>1, KindIsPlace DEF TypeOK
      <3> QED BY <1>2, <3>2, IpmiAssumption
    <2> QED BY <2>1, <2>6, <2>7, <2>9, <2>10, <2>11 DEF IInv, InUse
  <1> QED BY <1>3, <1>4

\* A thread of t goes on to j, which is of its kind, and nothing is disturbed.
LEMMA ThreadMoves ==
  ASSUME IInv, NEW t \in Tasks, NEW j, job[t] # NoThread,
         job' = [job EXCEPT ![t] = j], UNCHANGED <<cmd, lock, pc, orphans, usable, opens, cancels>>,
         faults' \in 0..MaxFaults,
         sess' \in Seq({"up", "out"}), Len(sess') \in Nat, Len(sess) <= Len(sess'), Intact \subseteq Intact',
         j \in [kind : Kinds, on : 0..Len(sess'), st : Steps],
         j.kind = job[t].kind, Ending' \subseteq Ending,
         j.kind = "build" /\ j.st = "done" => j.on \in Intact' /\ j.on # cmd,
         j.kind = "op" /\ j.st = "running" => j.on \in Intact'
  PROVE  IInv'
  <1>1. TypeOK /\ AtWork /\ InUse
    BY DEF IInv
  <1>2. /\ job' \in [Tasks -> [kind : Kinds, on : 0..Len(sess'), st : Steps]]
        /\ job'[t] = j /\ \A u \in Tasks \ {t} : job'[u] = job[u]
    <2>1. Len(sess) \in Nat
      BY <1>1 DEF TypeOK
    <2>2. \A n \in 0..Len(sess) : n \in 0..Len(sess')
      BY <2>1
    <2>3. \A u \in Tasks : job[u] \in [kind : Kinds, on : 0..Len(sess'), st : Steps]
      BY <1>1, <2>2 DEF TypeOK
    <2> QED BY <1>1, <2>3 DEF TypeOK
  <1>3. cmd' \in 0..Len(sess')
    BY <1>1 DEF TypeOK
  <1>4. TypeOK'
    BY <1>1, <1>2, <1>3 DEF TypeOK
  <1>5. AtWork'
    BY <1>1, <1>2 DEF AtWork
  <1>6. InUse'
    <2>1. cmd' # 0 => cmd' \in Intact'
      BY <1>1 DEF InUse
    <2>2. Ending' \subseteq 1..Len(sess')
      BY <1>1 DEF InUse, TypeOK
    <2>3. ASSUME NEW u \in Tasks
          PROVE  /\ job'[u].kind = "build" /\ job'[u].st = "done" => job'[u].on \in Intact' /\ job'[u].on # cmd'
                 /\ job'[u].kind = "op" /\ job'[u].st = "running" => job'[u].on \in Intact'
      <3>1. CASE u = t
        BY <1>2, <3>1
      <3>2. CASE u # t
        BY <1>1, <1>2, <3>2 DEF InUse
      <3> QED BY <3>1, <3>2
    <2> QED BY <2>1, <2>2, <2>3 DEF InUse
  <1> QED BY <1>4, <1>5, <1>6 DEF IInv

LEMMA StartInv == ASSUME IInv, NEW t \in Tasks, Start(t) PROVE IInv'
  <1>1. TypeOK /\ InUse
    BY DEF IInv
  <1> DEFINE j == Started(job[t])
  <1>2. job[t] \in [kind : Kinds, on : 0..Len(sess), st : Steps] /\ cmd \in 0..Len(sess)
    BY <1>1 DEF TypeOK
  <1>3. /\ j \in [kind : Kinds, on : 0..Len(sess), st : Steps] /\ j.kind = job[t].kind
        /\ j.kind # "op" => j.on = job[t].on /\ j.st = "running"
        /\ j.kind = "op" /\ j.st = "running" => cmd # 0 /\ j.on = cmd
        /\ j.st # "done"
    BY <1>2 DEF Started, Steps
  <1>4. job[t] # NoThread /\ job' = [job EXCEPT ![t] = j]
        /\ UNCHANGED <<cmd, sess, lock, pc, orphans, usable, opens, cancels, faults>>
    BY DEF Start, NoThread
  <1> HIDE DEF j
  <1>5. Ending' \subseteq Ending
    <2>1. \A u \in Tasks : job'[u].kind = "logout" => job'[u].on \in Ending
      BY <1>1, <1>3, <1>4 DEF Ending, TypeOK
    <2>2. \A o \in orphans' : o.thread.kind = "logout" => o.thread.on \in Ending
      BY <1>4 DEF Ending
    <2> QED BY <2>1, <2>2, EndingKept
  <1>6. Intact \subseteq Intact'
    BY <1>4, <1>5 DEF Intact
  <1>7. j.kind = "op" /\ j.st = "running" => j.on \in Intact'
    BY <1>1, <1>3, <1>6 DEF InUse
  <1>8. sess' \in Seq({"up", "out"}) /\ Len(sess') \in Nat /\ Len(sess) <= Len(sess') /\ faults' \in 0..MaxFaults
    BY <1>1, <1>4 DEF TypeOK
  <1>9. j \in [kind : Kinds, on : 0..Len(sess'), st : Steps]
    BY <1>3, <1>4
  <1> QED BY <1>3, <1>4, <1>5, <1>6, <1>7, <1>8, <1>9, ThreadMoves

LEMMA ResultIs ==
  ASSUME NEW th \in [kind : Kinds, on : Nat, st : Steps], NEW st \in Steps
  PROVE  Result(th, st) = [kind |-> th.kind, st |-> st,
                           on |-> IF th.kind = "build" /\ st = "done" THEN NewSession ELSE th.on]
  <1> DEFINE r == [th EXCEPT !.st = st, !.on = IF th.kind = "build" /\ st = "done" THEN NewSession ELSE @]
  <1>1. DOMAIN r = {"kind", "on", "st"} /\ r = [x \in {"kind", "on", "st"} |-> r[x]]
    OBVIOUS
  <1>2. /\ r.kind = th.kind /\ r.st = st
        /\ r.on = IF th.kind = "build" /\ st = "done" THEN NewSession ELSE th.on
    OBVIOUS
  <1> HIDE DEF r
  <1>3. r = [kind |-> r.kind, st |-> r.st, on |-> r.on]
    BY <1>1
  <1>4. Result(th, st) = r
    BY DEF Result, r
  <1> QED BY <1>2, <1>3, <1>4

LEMMA FinishInv == ASSUME IInv, NEW t \in Tasks, Finish(t) PROVE IInv'
  <1>1. TypeOK /\ InUse
    BY DEF IInv
  <1>2. /\ job[t] \in [kind : Kinds, on : 0..Len(sess), st : Steps] /\ cmd \in 0..Len(sess)
        /\ sess \in Seq({"up", "out"}) /\ Len(sess) \in Nat
    BY <1>1 DEF TypeOK
  <1>3. job[t].st = "running" /\ job[t] # NoThread /\ UNCHANGED <<cmd, lock, pc, orphans, usable, opens, cancels>>
    BY DEF Finish, Succeeds, Fails, NoThread
  <1>4. PICK st \in {"done", "failed"} :
          /\ job' = [job EXCEPT ![t] = Result(job[t], st)]
          /\ IF st = "done" THEN Succeeds(job[t]) ELSE Fails(job[t])
    BY DEF Finish
  <1> DEFINE j == Result(job[t], st)
  <1>5. /\ j.kind = job[t].kind /\ j.st = st
        /\ ~ (j.kind = "build" /\ st = "done") => j.on = job[t].on
        /\ j.kind = "build" /\ st = "done" => j.on = NewSession
        /\ j = [kind |-> job[t].kind, on |-> j.on, st |-> st]
    <2>1. job[t] \in [kind : Kinds, on : Nat, st : Steps] /\ st \in Steps
      BY <1>2 DEF Steps
    <2>2. j = [kind |-> job[t].kind, st |-> st,
               on |-> IF job[t].kind = "build" /\ st = "done" THEN NewSession ELSE job[t].on]
      BY <2>1, ResultIs
    <2> HIDE DEF j
    <2> QED BY <2>2
  <1>6. job' = [job EXCEPT ![t] = j]
    BY <1>4
  <1> HIDE DEF j
  <1>7. Ending' \subseteq Ending
    <2>1. \A u \in Tasks : job'[u].kind = "logout" => job'[u].on \in Ending
      BY <1>1, <1>5, <1>6 DEF Ending, TypeOK
    <2>2. \A o \in orphans' : o.thread.kind = "logout" => o.thread.on \in Ending
      BY <1>3 DEF Ending
    <2> QED BY <2>1, <2>2, EndingKept
  <1>8. /\ sess' \in Seq({"up", "out"}) /\ Len(sess') \in Nat /\ Len(sess) <= Len(sess')
        /\ Intact \subseteq Intact' /\ faults' \in 0..MaxFaults
        /\ j.kind = "build" /\ st = "done" => Len(sess') = NewSession /\ NewSession \in Intact'
    <2>1. CASE st = "done"
      <3>1. Effect(job[t]) /\ UNCHANGED faults
        BY <1>4, <2>1 DEF Succeeds
      <3>2. job[t].kind = "logout" => job[t].on \in Ending
        BY DEF Ending
      <3>3. Ending \subseteq 1..Len(sess)
        BY <1>1 DEF InUse
      <3>4. /\ sess' \in Seq({"up", "out"}) /\ Len(sess') \in Nat /\ Len(sess) <= Len(sess')
            /\ Intact \subseteq Intact'
            /\ job[t].kind = "build" => Len(sess') = NewSession /\ NewSession \in Intact'
        BY <1>1, <1>7, <3>1, <3>2, <3>3, EffectIntact
      <3> QED BY <1>1, <1>5, <3>1, <3>4 DEF TypeOK
    <2>2. CASE st = "failed"
      <3>1. Fails(job[t])
        BY <1>4, <2>2
      <3>2. UNCHANGED sess /\ faults' \in 0..MaxFaults
        BY <1>1, <3>1, IpmiAssumption DEF Fails, TypeOK
      <3> QED BY <1>2, <1>7, <2>2, <3>2 DEF Intact
    <2> QED BY <2>1, <2>2
  <1>9. j \in [kind : Kinds, on : 0..Len(sess'), st : Steps]
    <2>1. j.on \in 0..Len(sess')
      BY <1>2, <1>5, <1>8
    <2> QED BY <1>2, <1>5, <2>1 DEF Steps
  <1>10. j.kind = "build" /\ j.st = "done" => j.on \in Intact' /\ j.on # cmd
    BY <1>2, <1>5, <1>8 DEF NewSession
  <1>11. ~ (j.kind = "op" /\ j.st = "running")
    BY <1>5
  <1> QED BY <1>3, <1>5, <1>6, <1>7, <1>8, <1>9, <1>10, <1>11, ThreadMoves

LEMMA OrphanEndsInv == ASSUME IInv, NEW o \in orphans, OrphanEnds(o) PROVE IInv'
  <1>1. TypeOK /\ AtWork /\ InUse
    BY DEF IInv
  <1>2. orphans' = orphans \ {o} /\ UNCHANGED <<cmd, lock, pc, job, usable, opens, cancels>>
    BY DEF OrphanEnds
  <1>3. Ending' \subseteq Ending
    BY <1>2 DEF Ending
  <1>4. /\ sess' \in Seq({"up", "out"}) /\ Len(sess') \in Nat /\ Len(sess) <= Len(sess')
        /\ Intact \subseteq Intact' /\ faults' \in 0..MaxFaults
    <2>1. CASE Succeeds(o.thread)
      <3>1. Effect(o.thread) /\ UNCHANGED faults
        BY <2>1 DEF Succeeds
      <3>2. o.thread.kind = "logout" => o.thread.on \in Ending
        BY DEF Ending
      <3>3. Ending \subseteq 1..Len(sess) /\ faults' \in 0..MaxFaults
        BY <1>1, <3>1 DEF InUse, TypeOK
      <3> QED BY <1>1, <1>3, <3>1, <3>2, <3>3, EffectIntact
    <2>2. CASE Fails(o.thread)
      <3>1. UNCHANGED sess /\ faults' \in 0..MaxFaults
        BY <1>1, <2>2, IpmiAssumption DEF Fails, TypeOK
      <3> QED BY <1>1, <1>3, <3>1 DEF Intact, TypeOK
    <2> QED BY <2>1, <2>2 DEF OrphanEnds
  <1>5. TypeOK'
    <2>1. Len(sess) \in Nat
      BY <1>1 DEF TypeOK
    <2>2. \A n \in 0..Len(sess) : n \in 0..Len(sess')
      BY <1>4, <2>1
    <2>3. job' \in [Tasks -> [kind : Kinds, on : 0..Len(sess'), st : Steps]] /\ cmd' \in 0..Len(sess')
      BY <1>1, <1>2, <2>2 DEF TypeOK
    <2> QED BY <1>1, <1>2, <1>4, <2>3 DEF TypeOK
  <1>6. AtWork'
    BY <1>1, <1>2 DEF AtWork
  <1>7. InUse'
    <2>1. Ending' \subseteq 1..Len(sess')
      BY <1>1, <1>3, <1>4 DEF InUse, TypeOK
    <2> QED BY <1>1, <1>2, <1>4, <2>1 DEF InUse
  <1> QED BY <1>5, <1>6, <1>7 DEF IInv

LEMMA CancelInv == ASSUME IInv, NEW t \in Tasks, Cancel(t) PROVE IInv'
  <1>1. TypeOK
    BY DEF IInv
  <1>2. NoThread \in [kind : Kinds, on : 0..Len(sess), st : Steps] /\ "idle" \in Pcs
    BY <1>1 DEF NoThread, Kinds, Steps, TypeOK, Pcs
  <1>3. cancels' = cancels + 1 /\ cancels' \in 0..MaxCancels /\ cancels \in Nat
    BY <1>1, IpmiAssumption DEF Cancel, TypeOK
  <1>4. orphans' = IF job[t].st = "running"
                   THEN orphans \cup {[id |-> cancels, thread |-> job[t]]} ELSE orphans
    BY DEF Cancel
  <1>5. \A o \in orphans' : o \in orphans \/ o.thread = job[t]
    BY <1>4
  <1>6. \A o \in orphans' : o.id \in 0..(cancels' - 1) /\ o.thread.st = "running"
    BY <1>1, <1>3, <1>4 DEF TypeOK
  <1>7. /\ lock' = IF lock = t THEN NoTask ELSE lock
        /\ Goto(t, "idle", NoThread) /\ UNCHANGED <<cmd, sess, usable, opens, faults>>
    BY DEF Cancel, Back
  <1> QED BY <1>1, <1>2, <1>3, <1>5, <1>6, <1>7, GotoInv DEF TypeOK

LEMMA IInvStep == IInv /\ [Next]_vars => IInv'
  <1> SUFFICES ASSUME IInv, [Next]_vars PROVE IInv'
    OBVIOUS
  <1>1. CASE UNCHANGED vars
    BY <1>1 DEF vars, IInv, TypeOK, AtWork, InUse, Intact, Ending
  <1>2. ASSUME NEW t \in Tasks, Open(t) PROVE IInv'
    BY <1>2, OpenInv
  <1>3. ASSUME NEW t \in Tasks, Built(t) PROVE IInv'
    BY <1>3, BuiltInv
  <1>4. ASSUME NEW t \in Tasks, Identified(t) PROVE IInv'
    BY <1>4, IdentifiedInv
  <1>5. ASSUME NEW t \in Tasks, CallOp(t) \/ CallClose(t) PROVE IInv'
    BY <1>5, CallInv DEF CallOp, CallClose
  <1>6. ASSUME NEW t \in Tasks, LockOp(t) PROVE IInv'
    BY <1>6, LockOpInv
  <1>7. ASSUME NEW t \in Tasks, OpReturns(t) \/ Closed(t) PROVE IInv'
    BY <1>7, LetGoInv
  <1>8. ASSUME NEW t \in Tasks, LockClose(t) PROVE IInv'
    BY <1>8, LockCloseInv
  <1>9. ASSUME NEW t \in Tasks, Start(t) PROVE IInv'
    BY <1>9, StartInv
  <1>10. ASSUME NEW t \in Tasks, Finish(t) PROVE IInv'
    BY <1>10, FinishInv
  <1>11. ASSUME NEW t \in Tasks, Cancel(t) PROVE IInv'
    BY <1>11, CancelInv
  <1>12. ASSUME NEW o \in orphans, OrphanEnds(o) PROVE IInv'
    BY <1>12, OrphanEndsInv
  <1> QED BY <1>1, <1>2, <1>3, <1>4, <1>5, <1>6, <1>7, <1>8, <1>9, <1>10, <1>11, <1>12 DEF Next

-----------------------------------------------------------------------------
\* The theorems.

\* TypeOK: in particular, the lock is held by exactly the task whose thread
\* runs a command or a logout, whatever was cancelled.
THEOREM ITypeOKHolds == Spec => []TypeOK
  <1>1. IInv => TypeOK
    BY DEF IInv
  <1> QED BY <1>1, IInvInit, IInvStep, PTL DEF Spec

LEMMA IInvLive == IInv => LiveSession
  <1> SUFFICES ASSUME IInv PROVE LiveSession
    OBVIOUS
  <1>1. InUse
    BY DEF IInv
  <1>2. cmd # 0 => sess[cmd] = "up"
    BY <1>1 DEF InUse, Intact
  <1>3. ASSUME NEW t \in Tasks, job[t].kind = "op", job[t].st = "running"
        PROVE  /\ sess[job[t].on] = "up"
               /\ \A th \in Threads : th.kind = "logout" => th.on # job[t].on
    <2>1. job[t].on \in Intact
      BY <1>1, <1>3 DEF InUse
    <2>2. \A th \in Threads : th.kind = "logout" => th.on \in Ending
      BY DEF Threads, Ending
    <2> QED BY <2>1, <2>2 DEF Intact
  <1> QED BY <1>2, <1>3 DEF LiveSession

\* LiveSession: no command whose caller still waits talks on a session that is
\* being logged out, and the client hands out no such session (aclose()).
THEOREM LiveSessionHolds == Spec => []LiveSession
  BY IInvLive, IInvInit, IInvStep, PTL DEF Spec

LEMMA IInvSerial == IInv => SerialUnlessCancelled
  <1> SUFFICES ASSUME IInv PROVE SerialUnlessCancelled
    OBVIOUS
  <1> DEFINE S == {t \in Talking : job[t].kind # "ident"}
  <1>1. \A t \in S : lock = t
    <2> SUFFICES ASSUME NEW t \in S PROVE lock = t
      OBVIOUS
    <2>1. t \in Tasks /\ job[t].kind \in {"op", "logout"}
      BY DEF Talking
    <2> QED BY <2>1, KindIsPlace DEF IInv, TypeOK
  <1>2. S = {} \/ S = {lock}
    BY <1>1
  <1>3. Cardinality({}) = 0 /\ Cardinality({lock}) = 1
    BY FS_EmptySet, FS_Singleton
  <1> HIDE DEF S
  <1>4. Cardinality(S) <= 1
    BY <1>2, <1>3
  <1> QED BY <1>4 DEF S, SerialUnlessCancelled

\* SerialUnlessCancelled: of the commands and logouts whose callers wait, one
\* at most talks (self._lock).
THEOREM SerialUnlessCancelledHolds == Spec => []SerialUnlessCancelled
  BY IInvSerial, IInvInit, IInvStep, PTL DEF Spec

-----------------------------------------------------------------------------
(***************************************************************************)
(* Sessions that are lost.  A session is kept as long as the client has it *)
(* or a thread holds it that will log it out or hand it over; the others   *)
(* that are up are forsaken.  A cancelled __aenter__ whose thread runs may *)
(* still forsake one more.  What is forsaken, and may still be, is paid by *)
(* a cancellation, a failure, or an __aenter__ beyond the first that is    *)
(* over: the sum never exceeds their number.                               *)
(***************************************************************************)
Holding(th) == \/ th.kind = "logout" /\ th.st \in {"queued", "running"}
               \/ th.kind = "build" /\ th.st = "done"

Kept(s) == \/ s = cmd
           \/ \E t \in Tasks : job[t].on = s /\ Holding(job[t])
           \/ \E o \in orphans : o.thread.on = s /\ Holding(o.thread)

Forsaken == {s \in 1..Len(sess) : sess[s] = "up" /\ ~ Kept(s)}
Building == {o \in orphans : o.thread.kind = "build"}

\* The __aenter__ calls that got past the building of a session.
Completed == opens - (IF pc[Owner] = "build" THEN 1 ELSE 0)
Spare     == IF Completed > 0 THEN Completed - 1 ELSE 0

Budget ==
  /\ IsFiniteSet(orphans)
  /\ Completed \in Nat /\ (cmd # 0 => Completed > 0)
  /\ Cardinality(Forsaken) + Cardinality(Building) <= cancels + faults + Spare

LEMMA Grows ==
  ASSUME NEW S, IsFiniteSet(S), NEW x, NEW T, T \subseteq S \cup {x}
  PROVE  IsFiniteSet(T) /\ Cardinality(S) \in Nat /\ Cardinality(T) \in Nat
         /\ Cardinality(T) <= Cardinality(S) + 1
  <1>1. /\ IsFiniteSet(S \cup {x}) /\ Cardinality(S) \in Nat
        /\ Cardinality(S \cup {x}) \in {Cardinality(S), Cardinality(S) + 1}
    BY FS_AddElement, FS_CardinalityType
  <1>2. IsFiniteSet(T) /\ Cardinality(T) \in Nat /\ Cardinality(T) <= Cardinality(S \cup {x})
    BY <1>1, FS_Subset, FS_CardinalityType
  <1>3. Cardinality(S \cup {x}) <= Cardinality(S) + 1
    BY <1>1
  <1>4. Cardinality(S \cup {x}) \in Nat
    BY <1>1, FS_CardinalityType
  <1> HIDE <1>1
  <1> QED BY <1>1, <1>2, <1>3, <1>4

LEMMA Shrinks ==
  ASSUME NEW S, IsFiniteSet(S), NEW T, T \subseteq S
  PROVE  IsFiniteSet(T) /\ Cardinality(S) \in Nat /\ Cardinality(T) \in Nat
         /\ Cardinality(T) <= Cardinality(S)
  BY FS_Subset, FS_CardinalityType

LEMMA BothFinite ==
  ASSUME TypeOK, IsFiniteSet(orphans)
  PROVE  IsFiniteSet(Forsaken) /\ IsFiniteSet(Building)
  <1>1. Len(sess) \in Nat
    BY DEF TypeOK
  <1>2. IsFiniteSet(1..Len(sess))
    BY <1>1, FS_Interval
  <1> QED BY <1>2, FS_Subset DEF Forsaken, Building

LEMMA BudgetInit == Init => Budget
  <1> SUFFICES ASSUME Init PROVE Budget
    OBVIOUS
  <1>1. Forsaken = {} /\ Building = {}
    BY DEF Init, Forsaken, Building
  <1>2. Completed = 0 /\ Spare = 0
    <2>1. opens = 0 /\ pc[Owner] = "idle"
      BY IpmiAssumption DEF Init
    <2>2. Completed = 0
      BY <2>1 DEF Completed
    <2> QED BY <2>2 DEF Spare
  <1>3. Cardinality(Forsaken) = 0 /\ Cardinality(Building) = 0 /\ IsFiniteSet(orphans)
    BY <1>1, FS_EmptySet DEF Init
  <1> QED BY <1>2, <1>3 DEF Init, Budget

\* The four ways in which a step balances the budget.
LEMMA Quiet ==
  ASSUME IInv, IInv', Budget,
         Forsaken' \subseteq Forsaken, orphans' \subseteq orphans,
         Completed' \in Nat, Completed <= Completed',
         cancels' = cancels, faults <= faults', cmd' \in {cmd, 0} \/ Completed' > 0
  PROVE  Budget'
  <1> DEFINE f == Cardinality(Forsaken)  f2 == Cardinality(Forsaken')
             b == Cardinality(Building)  b2 == Cardinality(Building')
  <1>1. IsFiniteSet(orphans') /\ IsFiniteSet(Forsaken) /\ IsFiniteSet(Building)
    BY BothFinite, FS_Subset DEF IInv, Budget
  <1>2. Building' \subseteq Building
    BY DEF Building
  <1>3. /\ f \in Nat /\ f2 \in Nat /\ f2 <= f
        /\ b \in Nat /\ b2 \in Nat /\ b2 <= b
    BY <1>1, <1>2, Shrinks
  <1> DEFINE c == Completed  c2 == Completed'  k == cancels  x == faults  x2 == faults'
  <1>4. c \in Nat /\ c2 \in Nat /\ c <= c2 /\ (cmd # 0 => c > 0)
        /\ f + b <= k + x + (IF c > 0 THEN c - 1 ELSE 0)
    BY DEF Budget, Spare
  <1>5. k \in Nat /\ x \in Nat /\ x2 \in Nat /\ x <= x2
    BY IpmiAssumption DEF IInv, TypeOK
  <1>6. f2 + b2 <= k + x2 + (IF c2 > 0 THEN c2 - 1 ELSE 0)
    <2> HIDE DEF f, f2, b, b2, c, c2, k, x, x2
    <2> QED BY ONLY <1>3, <1>4, <1>5
  <1>7. cmd' # 0 => c2 > 0
    <2>1. c > 0 => c2 > 0
      <3> HIDE DEF c, c2
      <3> QED BY ONLY <1>4
    <2>2. c2 > 0 \/ cmd' \in {cmd, 0}
      OBVIOUS
    <2> HIDE DEF c, c2
    <2> QED BY <1>4, <2>1, <2>2
  <1> QED BY <1>1, <1>4, <1>6, <1>7 DEF Budget, Spare

LEMMA Pays ==
  ASSUME IInv, IInv', Budget, NEW y,
         \/ Forsaken' \subseteq Forsaken \cup {y} /\ orphans' \subseteq orphans
         \/ Forsaken' \subseteq Forsaken /\ orphans' \subseteq orphans \cup {y},
         Completed' \in Nat, Completed <= Completed',
         cancels <= cancels', faults <= faults', cmd' \in {cmd, 0} \/ Completed' > 0,
         cancels' > cancels \/ faults' > faults \/ (Completed > 0 /\ Completed' > Completed)
  PROVE  Budget'
  <1> DEFINE f == Cardinality(Forsaken)  f2 == Cardinality(Forsaken')
             b == Cardinality(Building)  b2 == Cardinality(Building')
  <1>1. IsFiniteSet(Forsaken) /\ IsFiniteSet(Building) /\ IsFiniteSet(orphans)
    BY BothFinite DEF IInv, Budget
  <1>2. IsFiniteSet(orphans') /\ f \in Nat /\ f2 \in Nat /\ b \in Nat /\ b2 \in Nat
        /\ f2 + b2 <= f + b + 1
    <2>1. CASE Forsaken' \subseteq Forsaken \cup {y} /\ orphans' \subseteq orphans
      <3>1. Building' \subseteq Building
        BY <2>1 DEF Building
      <3>2. f \in Nat /\ f2 \in Nat /\ f2 <= f + 1 /\ b \in Nat /\ b2 \in Nat /\ b2 <= b
        BY <1>1, <2>1, <3>1, Grows, Shrinks
      <3>3. IsFiniteSet(orphans')
        BY <1>1, <2>1, FS_Subset
      <3> HIDE DEF f, f2, b, b2
      <3> QED BY <3>2, <3>3
    <2>2. CASE Forsaken' \subseteq Forsaken /\ orphans' \subseteq orphans \cup {y}
      <3>1. Building' \subseteq Building \cup {y}
        BY <2>2 DEF Building
      <3>2. IsFiniteSet(orphans')
        BY <1>1, <2>2, Grows
      <3>3. f \in Nat /\ f2 \in Nat /\ f2 <= f /\ b \in Nat /\ b2 \in Nat /\ b2 <= b + 1
        BY <1>1, <2>2, <3>1, Grows, Shrinks
      <3> HIDE DEF f, f2, b, b2
      <3> QED BY <3>2, <3>3
    <2> QED BY <2>1, <2>2
  <1> DEFINE c == Completed  c2 == Completed'  k == cancels  k2 == cancels'  x == faults  x2 == faults'
  <1>4. c \in Nat /\ c2 \in Nat /\ c <= c2 /\ (cmd # 0 => c > 0)
        /\ f + b <= k + x + (IF c > 0 THEN c - 1 ELSE 0)
    BY DEF Budget, Spare
  <1>5. k \in Nat /\ k2 \in Nat /\ k <= k2 /\ x \in Nat /\ x2 \in Nat /\ x <= x2
        /\ (k2 > k \/ x2 > x \/ (c > 0 /\ c2 > c))
    BY IpmiAssumption DEF IInv, TypeOK
  <1>6. f2 + b2 <= k2 + x2 + (IF c2 > 0 THEN c2 - 1 ELSE 0)
    <2> HIDE DEF f, f2, b, b2, c, c2, k, k2, x, x2
    <2> QED BY ONLY <1>2, <1>4, <1>5
  <1>7. cmd' # 0 => c2 > 0
    <2>1. c > 0 => c2 > 0
      <3> HIDE DEF c, c2
      <3> QED BY ONLY <1>4
    <2>2. c2 > 0 \/ cmd' \in {cmd, 0}
      OBVIOUS
    <2> HIDE DEF c, c2
    <2> QED BY <1>4, <2>1, <2>2
  <1> QED BY <1>2, <1>4, <1>6, <1>7 DEF Budget, Spare

LEMMA OrphanBuilt ==
  ASSUME IInv, IInv', Budget, NEW o \in Building, NEW y,
         Forsaken' \subseteq Forsaken \cup {y}, orphans' = orphans \ {o},
         UNCHANGED <<cmd, pc, opens, cancels, faults>>
  PROVE  Budget'
  <1> DEFINE f == Cardinality(Forsaken)  f2 == Cardinality(Forsaken')
             b == Cardinality(Building)  b2 == Cardinality(Building')
  <1>1. IsFiniteSet(Forsaken) /\ IsFiniteSet(Building) /\ IsFiniteSet(orphans')
    BY BothFinite, FS_Subset DEF IInv, Budget
  <1>2. Building' = Building \ {o}
    BY DEF Building
  <1>3. b \in Nat /\ b2 \in Nat /\ b2 = b - 1
    BY <1>1, <1>2, FS_RemoveElement, FS_CardinalityType
  <1>4. f \in Nat /\ f2 \in Nat /\ f2 <= f + 1
    BY <1>1, Grows
  <1>5. Completed' = Completed /\ Spare' = Spare
    BY DEF Completed, Spare
  <1>6. f2 + b2 <= f + b
    <2> HIDE DEF f, f2, b, b2
    <2> QED BY <1>3, <1>4
  <1>7. f + b <= cancels + faults + Spare /\ Spare \in Nat /\ cancels \in Nat /\ faults \in Nat
    BY IpmiAssumption DEF Budget, Spare, IInv, TypeOK
  <1>8. f2 + b2 <= cancels + faults + Spare
    <2> HIDE DEF f, f2, b, b2
    <2> QED BY <1>3, <1>4, <1>6, <1>7
  <1> QED BY <1>1, <1>5, <1>8 DEF Budget

-----------------------------------------------------------------------------
\* A task that goes on may let go of the session of its thread, no other.
LEMMA LetsGo ==
  ASSUME TypeOK, NEW t \in Tasks, NEW p \in Pcs, NEW j, Goto(t, p, j), UNCHANGED <<cmd, sess>>,
         orphans \subseteq orphans'
  PROVE  /\ Forsaken' \subseteq Forsaken \cup {job[t].on}
         /\ ~ Holding(job[t]) => Forsaken' \subseteq Forsaken
  <1>1. \A u \in Tasks \ {t} : job'[u] = job[u]
    BY DEF TypeOK, Goto
  <1>2. ASSUME NEW s, Kept(s), ~ Kept(s)' PROVE s = job[t].on /\ Holding(job[t])
    <2>1. \E u \in Tasks : job[u].on = s /\ Holding(job[u]) /\ u = t
      BY <1>1, <1>2 DEF Kept
    <2> QED BY <2>1
  <1> QED BY <1>2 DEF Forsaken

\* A task that was building has completed it, others leave the count alone.
LEMMA GoesOn ==
  ASSUME IInv, Budget, NEW t \in Tasks, NEW p \in Pcs, NEW j, Goto(t, p, j), p # "build", opens' = opens
  PROVE  /\ Completed' \in Nat
         /\ Completed' = Completed + (IF pc[t] = "build" THEN 1 ELSE 0)
  <1>1. TypeOK /\ AtWork /\ opens \in Nat
    BY IpmiAssumption DEF IInv, TypeOK
  <1>2. pc' = [pc EXCEPT ![t] = p]
    BY DEF Goto
  <1>3. pc[t] = "build" => t = Owner
    BY <1>1 DEF AtWork
  <1>4. pc'[Owner] = IF t = Owner THEN p ELSE pc[Owner]
    BY <1>1, <1>2, IpmiAssumption DEF TypeOK
  <1> QED BY <1>1, <1>3, <1>4 DEF Completed, Budget

\* A step of a task whose thread holds nothing costs nothing.
LEMMA QuietGoto ==
  ASSUME IInv, IInv', Budget, NEW t \in Tasks, NEW p \in Pcs, NEW j, Goto(t, p, j),
         UNCHANGED <<cmd, sess, orphans, opens, cancels>>, faults <= faults',
         p # "build", ~ Holding(job[t])
  PROVE  Budget'
  <1>1. Forsaken' \subseteq Forsaken
    BY LetsGo DEF IInv
  <1>2. Completed' \in Nat /\ Completed <= Completed'
    BY GoesOn DEF Budget
  <1> QED BY <1>1, <1>2, Quiet

LEMMA OpenBudget == ASSUME IInv, IInv', Budget, NEW t \in Tasks, Open(t) PROVE Budget'
  <1>1. TypeOK /\ AtWork /\ opens \in Nat
    BY IpmiAssumption DEF IInv, TypeOK
  <1>2. /\ Goto(t, "build", Thread("build", 0)) /\ t = Owner /\ pc[t] = "idle" /\ opens' = opens + 1
        /\ UNCHANGED <<cmd, sess, lock, orphans, usable, cancels, faults>>
    BY DEF Open
  <1>3. ~ Holding(job[t]) /\ "build" \in Pcs
    BY <1>1, <1>2 DEF AtWork, NoThread, Holding, Pcs
  <1>4. Forsaken' \subseteq Forsaken
    BY <1>1, <1>2, <1>3, LetsGo
  <1>5. Completed' = Completed
    BY <1>1, <1>2 DEF Completed, Goto, TypeOK
  <1>6. faults \in Nat
    BY IpmiAssumption DEF IInv, TypeOK
  <1> QED BY <1>2, <1>4, <1>5, <1>6, Quiet DEF Budget

LEMMA BuiltBudget == ASSUME IInv, IInv', Budget, NEW t \in Tasks, Built(t) PROVE Budget'
  <1>1. TypeOK /\ AtWork /\ cancels \in Nat /\ faults \in Nat
    BY IpmiAssumption DEF IInv, TypeOK
  <1>2. /\ pc[t] = "build" /\ UNCHANGED <<sess, lock, orphans, usable, opens, cancels, faults>>
    BY DEF Built
  <1>3. CASE job[t].st # "done"
    <2>1. ~ Holding(job[t])
      BY <1>1, <1>2, <1>3 DEF AtWork, Holding
    <2> QED BY <1>1, <1>2, <1>3, <2>1, QuietGoto DEF Built, Back, Pcs
  <1>4. CASE job[t].st = "done"
    <2>1. cmd' = job[t].on /\ Goto(t, "ident", Thread("ident", job[t].on)) /\ "ident" \in Pcs
      BY <1>4 DEF Built, Pcs
    <2>2. Completed' \in Nat /\ Completed' = Completed + 1 /\ Completed \in Nat
      BY <1>2, <2>1, GoesOn DEF Budget
    <2>3. \A u \in Tasks \ {t} : job'[u] = job[u]
      BY <1>1, <2>1 DEF TypeOK, Goto
    <2>4. ASSUME NEW s, Kept(s), ~ Kept(s)' PROVE s = cmd
      <3>1. s = cmd \/ \E u \in Tasks : job[u].on = s /\ u = t
        BY <1>2, <2>3, <2>4 DEF Kept
      <3>2. s # cmd'
        BY <2>4 DEF Kept
      <3> QED BY <2>1, <3>1, <3>2
    <2>5. Forsaken' \subseteq Forsaken \cup {cmd}
      BY <1>2, <2>4 DEF Forsaken
    <2>6. CASE cmd # 0
      <3>1. Completed > 0
        BY <2>6 DEF Budget
      <3> QED BY <1>1, <1>2, <2>2, <2>5, <3>1, Pays
    <2>7. CASE cmd = 0
      <3>1. 0 \notin Forsaken'
        BY DEF Forsaken
      <3>2. Forsaken' \subseteq Forsaken
        BY <2>5, <2>7, <3>1
      <3> QED BY <1>1, <1>2, <2>2, <3>2, Quiet
    <2> QED BY <2>6, <2>7
  <1> QED BY <1>3, <1>4

LEMMA IdleBudget ==
  ASSUME IInv, IInv', Budget, NEW t \in Tasks,
         Identified(t) \/ CallOp(t) \/ LockOp(t) \/ OpReturns(t) \/ CallClose(t) \/ Closed(t)
  PROVE  Budget'
  <1>1. TypeOK /\ AtWork /\ faults \in Nat /\ faults' \in Nat
    BY IpmiAssumption DEF IInv, TypeOK
  <1>2. PICK p, j : p \in Pcs /\ Goto(t, p, j) /\ p # "build"
    BY DEF Identified, CallOp, LockOp, OpReturns, CallClose, Closed, Back, Pcs
  <1>3. UNCHANGED <<cmd, sess, orphans, opens, cancels>> /\ faults <= faults'
    BY <1>1 DEF Identified, CallOp, LockOp, OpReturns, CallClose, Closed
  <1>4. ~ Holding(job[t])
    BY <1>1 DEF Identified, CallOp, LockOp, OpReturns, CallClose, Closed, AtWork, Holding, Ended,
       NoThread
  <1> QED BY <1>2, <1>3, <1>4, QuietGoto

\* The logout thread takes over the client's session.
LEMMA LockCloseBudget == ASSUME IInv, IInv', Budget, NEW t \in Tasks, LockClose(t) PROVE Budget'
  <1>1. TypeOK /\ AtWork /\ faults \in Nat
    BY IpmiAssumption DEF IInv, TypeOK
  <1>2. /\ UNCHANGED <<sess, orphans, usable, opens, cancels, faults>>
        /\ ~ Holding(job[t])
    BY <1>1 DEF LockClose, AtWork, Holding, NoThread
  <1>3. CASE cmd = 0
    BY <1>1, <1>2, <1>3, QuietGoto DEF LockClose, Back, Pcs
  <1>4. CASE cmd # 0
    <2>1. cmd' = 0 /\ Goto(t, "logout", Thread("logout", cmd)) /\ "logout" \in Pcs
      BY <1>4 DEF LockClose, TakesSession, Pcs
    <2>2. Completed' \in Nat /\ Completed <= Completed'
      BY <1>2, <2>1, GoesOn DEF Budget
    <2>3. job'[t] = Thread("logout", cmd) /\ \A u \in Tasks \ {t} : job'[u] = job[u]
      BY <1>1, <2>1 DEF TypeOK, Goto
    <2>4. job'[t].on = cmd /\ Holding(job'[t])
      BY <2>3 DEF Thread, Holding
    <2>5. ASSUME NEW s, Kept(s), ~ Kept(s)' PROVE FALSE
      <3>1. s = cmd \/ \E u \in Tasks : job[u].on = s /\ u = t /\ Holding(job[u])
        BY <1>2, <2>3, <2>5 DEF Kept, Holding
      <3>2. s = cmd
        BY <1>2, <3>1
      <3>3. Kept(s)'
        BY <2>4, <3>2 DEF Kept, Holding
      <3> QED BY <2>5, <3>3
    <2>6. Forsaken' \subseteq Forsaken
      BY <1>2, <2>5 DEF Forsaken
    <2> QED BY <1>1, <1>2, <2>1, <2>2, <2>6, Quiet
  <1> QED BY <1>3, <1>4

LEMMA StartBudget == ASSUME IInv, IInv', Budget, NEW t \in Tasks, Start(t) PROVE Budget'
  <1>1. TypeOK /\ faults \in Nat
    BY IpmiAssumption DEF IInv, TypeOK
  <1>2. /\ job[t].st = "queued" /\ job' = [job EXCEPT ![t] = Started(job[t])]
        /\ UNCHANGED <<cmd, sess, lock, pc, orphans, usable, opens, cancels, faults>>
    BY DEF Start
  <1>3. job[t] \in [kind : Kinds, on : 0..Len(sess), st : Steps]
    BY <1>1 DEF TypeOK
  <1>4. Holding(job[t]) => Started(job[t]).on = job[t].on /\ Holding(Started(job[t]))
    BY <1>2, <1>3 DEF Started, Holding
  <1>5. /\ job'[t] = Started(job[t]) /\ \A u \in Tasks \ {t} : job'[u] = job[u]
    BY <1>1, <1>2 DEF TypeOK
  <1>6. ASSUME NEW s, Kept(s) PROVE Kept(s)'
    <2>1. CASE \E u \in Tasks : job[u].on = s /\ Holding(job[u])
      <3>1. PICK u \in Tasks : job[u].on = s /\ Holding(job[u])
        BY <2>1
      <3>2. job'[u].on = s /\ Holding(job'[u])
        BY <1>4, <1>5, <3>1
      <3> QED BY <3>2 DEF Kept, Holding
    <2>2. CASE ~ \E u \in Tasks : job[u].on = s /\ Holding(job[u])
      BY <1>2, <1>6, <2>2 DEF Kept, Holding
    <2> QED BY <2>1, <2>2
  <1>7. Forsaken' \subseteq Forsaken
    BY <1>2, <1>6 DEF Forsaken
  <1>8. Completed' = Completed
    BY <1>2 DEF Completed
  <1> QED BY <1>1, <1>2, <1>7, <1>8, Quiet DEF Budget

\* The sessions that are up once a thread has succeeded were up, and it is not
\* the thread that logs them out; or the thread has just built them.
LEMMA UpAfter ==
  ASSUME TypeOK, NEW th, Effect(th), NEW s \in 1..Len(sess'), sess'[s] = "up"
  PROVE  \/ s \in 1..Len(sess) /\ sess[s] = "up" /\ (th.kind = "logout" => s # th.on)
         \/ th.kind = "build" /\ s = NewSession
  <1>1. sess \in Seq({"up", "out"}) /\ Len(sess) \in Nat
    BY DEF TypeOK
  <1>2. CASE th.kind = "build"
    <2>1. sess' = Append(sess, "up")
      BY <1>2 DEF Effect
    <2>2. Len(sess') = NewSession /\ \A i \in 1..Len(sess) : sess'[i] = sess[i]
      BY <1>1, <2>1 DEF NewSession
    <2> QED BY <1>1, <1>2, <2>2 DEF NewSession
  <1>3. CASE th.kind = "logout"
    <2>1. sess' = [sess EXCEPT ![th.on] = "out"]
      BY <1>3 DEF Effect
    <2>2. Len(sess') = Len(sess) /\ s \in 1..Len(sess)
      BY <1>1, <2>1
    <2> QED BY <1>1, <1>3, <2>1, <2>2
  <1>4. CASE th.kind \notin {"build", "logout"}
    BY <1>4 DEF Effect
  <1> QED BY <1>2, <1>3, <1>4

LEMMA FinishBudget == ASSUME IInv, IInv', Budget, NEW t \in Tasks, Finish(t) PROVE Budget'
  <1>1. TypeOK /\ faults \in Nat
    BY IpmiAssumption DEF IInv, TypeOK
  <1>2. /\ job[t] \in [kind : Kinds, on : 0..Len(sess), st : Steps] /\ job[t].st = "running"
        /\ UNCHANGED <<cmd, lock, pc, orphans, usable, opens, cancels>>
    BY <1>1 DEF Finish, Succeeds, Fails, TypeOK
  <1>3. PICK st \in {"done", "failed"} :
          /\ job' = [job EXCEPT ![t] = Result(job[t], st)]
          /\ IF st = "done" THEN Succeeds(job[t]) ELSE Fails(job[t])
    BY DEF Finish
  <1>4. job'[t] = Result(job[t], st) /\ \A u \in Tasks \ {t} : job'[u] = job[u]
    BY <1>1, <1>3 DEF TypeOK
  <1>5. /\ job'[t].kind = job[t].kind /\ job'[t].st = st
        /\ st = "done" /\ job[t].kind = "build" => job'[t].on = NewSession
    <2>1. job[t] \in [kind : Kinds, on : Nat, st : Steps] /\ st \in Steps
      BY <1>1, <1>2 DEF Steps, TypeOK
    <2> QED BY <1>4, <2>1, ResultIs
  <1>6. Completed' = Completed
    BY <1>2 DEF Completed
  <1>7. ASSUME NEW s, Kept(s), ~ Kept(s)' PROVE job[t].kind = "logout" /\ s = job[t].on
    <2>1. PICK u \in Tasks : job[u].on = s /\ Holding(job[u]) /\ u = t
      BY <1>2, <1>4, <1>7 DEF Kept, Holding
    <2> QED BY <1>2, <2>1 DEF Holding
  <1>8. CASE st = "done"
    <2>1. Effect(job[t]) /\ UNCHANGED faults
      BY <1>3, <1>8 DEF Succeeds
    <2>2. ASSUME NEW s \in Forsaken' PROVE s \in Forsaken
      <3>1. s \in 1..Len(sess') /\ sess'[s] = "up" /\ ~ Kept(s)'
        BY DEF Forsaken
      <3>2. \/ s \in 1..Len(sess) /\ sess[s] = "up" /\ (job[t].kind = "logout" => s # job[t].on)
            \/ job[t].kind = "build" /\ s = NewSession
        BY <1>1, <2>1, <3>1, UpAfter
      <3>3. ~ (job[t].kind = "build" /\ s = NewSession)
        BY <1>5, <1>8, <3>1 DEF Kept, Holding
      <3> QED BY <1>7, <3>1, <3>2, <3>3 DEF Forsaken
    <2>3. Forsaken' \subseteq Forsaken
      BY <2>2
    <2> QED BY <1>1, <1>2, <1>6, <2>1, <2>3, Quiet DEF Budget
  <1>9. CASE st = "failed"
    <2>1. Fails(job[t]) /\ UNCHANGED sess
      BY <1>3, <1>9 DEF Fails
    <2>2. CASE job[t].kind = "logout"
      <3>1. faults' > faults
        BY <1>1, <2>1, <2>2 DEF Fails, Dead
      <3>2. Forsaken' \subseteq Forsaken \cup {job[t].on}
        BY <1>7, <2>1 DEF Forsaken
      <3>3. cancels <= cancels' /\ faults <= faults'
        BY <1>1, <1>2, <2>1, IpmiAssumption DEF Fails, TypeOK
      <3>4. Completed' \in Nat /\ Completed <= Completed'
        BY <1>6 DEF Budget
      <3>5. cmd' \in {cmd, 0} /\ orphans' \subseteq orphans
        BY <1>2
      <3> QED BY <3>1, <3>2, <3>3, <3>4, <3>5, Pays
    <2>3. CASE job[t].kind # "logout"
      <3>1. Forsaken' \subseteq Forsaken
        BY <1>7, <2>1, <2>3 DEF Forsaken
      <3>2. faults <= faults'
        BY <1>1, <2>1 DEF Fails
      <3> QED BY <1>2, <1>6, <3>1, <3>2, Quiet DEF Budget
    <2> QED BY <2>2, <2>3
  <1> QED BY <1>8, <1>9

LEMMA OrphanEndsBudget == ASSUME IInv, IInv', Budget, NEW o \in orphans, OrphanEnds(o) PROVE Budget'
  <1>1. TypeOK /\ faults \in Nat /\ o.thread.st = "running"
    BY IpmiAssumption DEF IInv, TypeOK
  <1>2. orphans' = orphans \ {o} /\ UNCHANGED <<cmd, lock, pc, job, usable, opens, cancels>>
    BY DEF OrphanEnds
  <1>3. Completed' = Completed
    BY <1>2 DEF Completed
  <1>4. ASSUME NEW s, Kept(s), ~ Kept(s)' PROVE o.thread.kind = "logout" /\ s = o.thread.on
    <2>1. PICK q \in orphans : q.thread.on = s /\ Holding(q.thread) /\ q = o
      BY <1>2, <1>4 DEF Kept, Holding
    <2> QED BY <1>1, <2>1 DEF Holding
  <1>5. CASE Succeeds(o.thread)
    <2>1. Effect(o.thread) /\ UNCHANGED faults
      BY <1>5 DEF Succeeds
    <2>2. ASSUME NEW s \in Forsaken'
          PROVE  s \in Forsaken \/ (o.thread.kind = "build" /\ s = NewSession)
      <3>1. s \in 1..Len(sess') /\ sess'[s] = "up" /\ ~ Kept(s)'
        BY DEF Forsaken
      <3>2. \/ s \in 1..Len(sess) /\ sess[s] = "up" /\ (o.thread.kind = "logout" => s # o.thread.on)
            \/ o.thread.kind = "build" /\ s = NewSession
        BY <1>1, <2>1, <3>1, UpAfter
      <3> QED BY <1>4, <3>1, <3>2 DEF Forsaken
    <2>3. CASE o.thread.kind = "build"
      <3>1. o \in Building /\ Forsaken' \subseteq Forsaken \cup {NewSession}
        BY <2>2, <2>3 DEF Building
      <3> QED BY <1>2, <2>1, <3>1, OrphanBuilt
    <2>4. CASE o.thread.kind # "build"
      <3>1. Forsaken' \subseteq Forsaken
        BY <2>2, <2>4
      <3> QED BY <1>1, <1>2, <1>3, <2>1, <3>1, Quiet DEF Budget
    <2> QED BY <2>3, <2>4
  <1>6. CASE Fails(o.thread)
    <2>1. UNCHANGED sess /\ faults <= faults'
      BY <1>1, <1>6 DEF Fails
    <2>2. CASE o.thread.kind = "logout"
      <3>1. faults' > faults /\ cancels <= cancels'
        BY <1>1, <1>2, <1>6, <2>2, IpmiAssumption DEF Fails, Dead, TypeOK
      <3>2. Forsaken' \subseteq Forsaken \cup {o.thread.on}
        BY <1>4, <2>1 DEF Forsaken
      <3>3. Forsaken' \subseteq Forsaken \cup {o.thread.on} /\ orphans' \subseteq orphans
        BY <1>2, <3>2
      <3>4. Completed' \in Nat /\ Completed <= Completed' /\ cmd' \in {cmd, 0}
        BY <1>2, <1>3 DEF Budget
      <3> QED BY <2>1, <3>1, <3>3, <3>4, Pays
    <2>3. CASE o.thread.kind # "logout"
      <3>1. Forsaken' \subseteq Forsaken
        BY <1>4, <2>1, <2>3 DEF Forsaken
      <3> QED BY <1>2, <1>3, <2>1, <3>1, Quiet DEF Budget
    <2> QED BY <2>2, <2>3
  <1> QED BY <1>5, <1>6 DEF OrphanEnds

\* The thread of a cancelled task goes on as an orphan, or its session is lost.
LEMMA CancelBudget == ASSUME IInv, IInv', Budget, NEW t \in Tasks, Cancel(t) PROVE Budget'
  <1>1. TypeOK /\ cancels \in Nat /\ faults \in Nat
    BY IpmiAssumption DEF IInv, TypeOK
  <1>2. /\ Goto(t, "idle", NoThread) /\ UNCHANGED <<cmd, sess, usable, opens, faults>>
        /\ cancels' = cancels + 1 /\ "idle" \in Pcs
        /\ orphans' = IF job[t].st = "running"
                      THEN orphans \cup {[id |-> cancels, thread |-> job[t]]} ELSE orphans
    BY DEF Cancel, Back, Pcs
  <1>3. Completed' \in Nat /\ Completed <= Completed'
    BY <1>2, GoesOn DEF Budget
  <1>4. /\ Forsaken' \subseteq Forsaken \cup {job[t].on}
    BY <1>1, <1>2, LetsGo
  <1>5. CASE job[t].st # "running"
    BY <1>1, <1>2, <1>3, <1>4, <1>5, Pays
  <1>6. CASE job[t].st = "running"
    <2> DEFINE o == [id |-> cancels, thread |-> job[t]]
    <2>1. orphans' = orphans \cup {o}
      BY <1>2, <1>6
    <2>2. \A u \in Tasks \ {t} : job'[u] = job[u]
      BY <1>1, <1>2 DEF TypeOK, Goto
    <2>3. ASSUME NEW s, Kept(s), ~ Kept(s)' PROVE FALSE
      <3>1. PICK u \in Tasks : job[u].on = s /\ Holding(job[u]) /\ u = t
        BY <1>2, <2>1, <2>2, <2>3 DEF Kept, Holding
      <3>2. o.thread.on = s /\ Holding(o.thread) /\ o \in orphans'
        BY <2>1, <3>1
      <3>3. Kept(s)'
        BY <3>2 DEF Kept, Holding
      <3> QED BY <2>3, <3>3
    <2>4. Forsaken' \subseteq Forsaken
      BY <1>2, <2>3 DEF Forsaken
    <2> HIDE DEF o
    <2> QED BY <1>1, <1>2, <1>3, <2>1, <2>4, Pays
  <1> QED BY <1>5, <1>6

LEMMA BudgetStep == ASSUME IInv, IInv', Budget, [Next]_vars PROVE Budget'
  <1>1. CASE UNCHANGED vars
    BY <1>1 DEF vars, Budget, Forsaken, Building, Kept, Holding, Completed, Spare
  <1>2. CASE Next
    BY <1>2, OpenBudget, BuiltBudget, IdleBudget, LockCloseBudget, StartBudget, FinishBudget,
       OrphanEndsBudget, CancelBudget
       DEF Next
  <1> QED BY <1>1, <1>2

\* The lost sessions are among the forsaken, and every __aenter__ but the first
\* is one that is over or under way.
LEMMA BudgetSuffices == ASSUME IInv, Budget PROVE NoSessionLost
  <1> DEFINE L == {s \in 1..Len(sess) : sess[s] = "up" /\ s \notin Held}
  <1>1. TypeOK /\ cancels \in Nat /\ faults \in Nat /\ opens \in Nat
    BY IpmiAssumption DEF IInv, TypeOK
  <1>2. IsFiniteSet(Forsaken) /\ IsFiniteSet(Building)
    BY <1>1, BothFinite DEF Budget
  <1>3. ASSUME NEW s, Kept(s) PROVE s \in Held
    BY <1>3 DEF Kept, Held, Threads, Holding
  <1>4. L \subseteq Forsaken
    BY <1>3 DEF Forsaken
  <1>5. /\ Cardinality(L) \in Nat /\ Cardinality(Forsaken) \in Nat /\ Cardinality(L) <= Cardinality(Forsaken)
        /\ Cardinality(Building) \in Nat
    BY <1>2, <1>4, Shrinks, FS_CardinalityType
  <1>6. Completed \in Nat /\ Completed <= opens
    BY <1>1 DEF Budget, Completed
  <1>7. Spare \in Nat /\ Spare <= (IF opens > 0 THEN opens - 1 ELSE 0)
    <2> HIDE DEF Completed
    <2> QED BY <1>1, <1>6 DEF Spare
  <1>8. Cardinality(Forsaken) + Cardinality(Building) <= cancels + faults + Spare
    BY DEF Budget
  <1> DEFINE n == Cardinality(L)  f == Cardinality(Forsaken)  b == Cardinality(Building)
             e == IF opens > 0 THEN opens - 1 ELSE 0
  <1>9. e \in Nat
    BY <1>1
  <1>10. n <= cancels + faults + e
    <2> HIDE DEF n, f, b, e, Spare
    <2> QED BY <1>1, <1>5, <1>7, <1>8, <1>9 DEF n, f, b, e
  <1> QED BY <1>10 DEF NoSessionLost

\* NoSessionLost: a session that the client has lost without logging it out is
\* due to a cancellation, a failure, or an __aenter__ of a client that had one
\* (__aenter__, aclose()).
THEOREM NoSessionLostHolds == Spec => []NoSessionLost
  <1> DEFINE Inv == IInv /\ Budget
  <1>1. Init => Inv
    BY IInvInit, BudgetInit
  <1>2. Inv /\ [Next]_vars => Inv'
    BY IInvStep, BudgetStep
  <1>3. Inv => NoSessionLost
    BY BudgetSuffices
  <1> QED BY <1>1, <1>2, <1>3, PTL DEF Spec
=============================================================================
