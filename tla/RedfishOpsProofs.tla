-------------------------- MODULE RedfishOpsProofs --------------------------
(***************************************************************************)
(* Proofs about RedfishOps: its type invariant, that of the event logs the *)
(* first one that can be is used, that the virtual media are accounted     *)
(* for, and that an inventory has what it could read, for any tasks,       *)
(* resources, limits and BMCs.                                             *)
(***************************************************************************)
EXTENDS RedfishOps, FiniteSetTheorems, SequenceTheorems, TLAPS

-----------------------------------------------------------------------------
(***************************************************************************)
(* Types.                                                                  *)
(***************************************************************************)
Step    == DOMAIN RootOf \cup Int
Node    == Seq(Step)
Nodes   == Seq(Node)
Limit   == Nat \cup {None}
Image   == Images \cup {None}
Slot    == Slots \cup {0}
Route   == Seq(Roots)
Epochs(e) == 0..e
Paths(e) == [Roots -> Epochs(e)]
Missed  == SUBSET Node
Some    == SUBSET Slots

CallType(e) ==
  [pc : Pcs, kind : Kinds, top : Node, limit : Limit, image : Image, roots : Route, answer : Epochs(e),
   path : Paths(e), todo : Nodes, out : Nodes, slot : Slot, busy : BOOLEAN, result : Results,
   missed : Missed, failed : Some, foreign : Some]

Logs == {<<"Sel">>, <<"Log">>, <<"Lclog">>, <<"IML">>}

DeviceInv ==
  /\ bmc \in Bmcs /\ epoch \in 1..(MaxRenames + 1)
  /\ DOMAIN width = DOMAIN Shape /\ \A n \in DOMAIN width : width[n] \in {0, Shape[n]}
  /\ width[Media] = Shape[Media]
  /\ mounted \in [Slots -> Image]
  /\ cache \in [Roots -> 0..epoch]
  /\ faults \in 0..MaxFaults

-----------------------------------------------------------------------------
(***************************************************************************)
(* The inductive invariant, by the kind of the call.  It says where a call *)
(* may wait, what is left to be read, and of what is not left why.         *)
(***************************************************************************)
\* The last slots are left.
SlotsLeft(s) ==
  /\ Len(s) <= Shape[Media]
  /\ \A j \in 1..Len(s) : s[j] = <<"VirtualMedia", Shape[Media] - Len(s) + j>>
Before(s) == 1..(Shape[Media] - Len(s))

Chosen == IF bmc.cd = {} THEN {1} ELSE bmc.cd

InsertInv(c) ==
  /\ c.pc \in {"managers", "walk", "preEject", "insert", "returned"}
  /\ c.pc = "managers" => c.todo = <<Media>> /\ c.slot = 0
  /\ c.pc = "walk" =>
       \/ c.todo = <<Media>> /\ c.slot = 0
       \/ /\ SlotsLeft(c.todo) /\ c.todo # <<>>
          /\ c.slot = IF Len(c.todo) = Shape[Media] THEN 0 ELSE 1
          /\ \A i \in Before(c.todo) : i \notin bmc.cd
  /\ c.pc \in {"preEject", "insert"} => c.slot \in Chosen \cap Slots
  /\ c.result \in {"none", "inserted", "RedfishError", "HTTPError"}
  /\ c.result = "inserted" =>
       /\ c.slot \in c.foreign \/ mounted[c.slot] = c.image
       /\ c.slot \in Chosen \cap Slots

Emptied(c, S) == \A i \in S : mounted[i] = None \/ i \in c.failed \cup c.foreign

EjectInv(c) ==
  /\ c.pc \in {"managers", "walk", "eject", "returned"}
  /\ c.pc = "managers" => c.todo = <<Media>>
  /\ c.pc = "walk" => c.todo = <<Media>> \/ (SlotsLeft(c.todo) /\ Emptied(c, Before(c.todo)))
  /\ c.pc = "eject" => /\ SlotsLeft(c.todo) /\ c.todo # <<>> /\ Emptied(c, Before(c.todo))
                       /\ c.slot = Shape[Media] - Len(c.todo) + 1
  /\ c.result \in {"none", "ejected", "RedfishError", "HTTPError"}
  /\ c.result = "ejected" => Emptied(c, Slots)

\* The logs that are left, in order.
LogTodos == {<<>>, <<<<"IML">>>>, <<<<"Lclog">>, <<"IML">>>>, <<<<"Log">>, <<"Lclog">>, <<"IML">>>>,
             <<<<"Sel">>, <<"Log">>, <<"Lclog">>, <<"IML">>>>, <<<<"Log">>>>, <<<<"Sel">>, <<"Log">>>>}

\* Log l is not the one to be used.
Useless(c, l) == l \in c.missed \/ (IF c.kind = "sel" THEN width[l] = 0 ELSE l \notin bmc.clearable)

\* While it looks for the roots.
Looking(c) ==
  /\ c.missed \subseteq Logs /\ c.out = <<>>
  /\ \/ c.roots = <<"system", "manager">> /\ c.todo = <<>>
     \/ /\ c.roots = <<"manager">>
        /\ \/ c.todo = LogsOf["system"]
           \/ c.todo = <<>> /\ Useless(c, <<"Sel">>) /\ Useless(c, <<"Log">>)

\* While it looks for a log.
Choosing(c) ==
  /\ c.missed \subseteq Logs /\ c.out = <<>>
  /\ c.todo \in LogTodos
  /\ \A l \in Logs : l \in ToSet(c.todo) \/ Useless(c, l)

\* When it has found log u: the entries left, read or not to be read are its.
Entries(c) == (IF c.pc = "walk" THEN ToSet(c.todo) ELSE {}) \cup ToSet(c.out) \cup (c.missed \ Logs)

OfLog(c, u) ==
  /\ \A l \in Logs : Pos(l) < Pos(u) => Useless(c, l)
  /\ Entries(c) # {} /\ \A n \in Entries(c) : Len(n) = 2 /\ Front(n) = u

SelInv(c) ==
  /\ c.pc \in {"path", "store", "walk", "returned"}
  /\ c.pc \in {"path", "store"} => Looking(c)
  /\ c.pc = "walk" => Choosing(c) \/ \E u \in Logs : OfLog(c, u)
  /\ c.result = "listed" => (Choosing(c) /\ c.todo = <<>>) \/ \E u \in Logs : OfLog(c, u)
  /\ c.result \in {"none", "listed", "RedfishError", "HTTPError"}

ClearInv(c) ==
  /\ c.pc \in {"path", "store", "walk", "clear", "returned"}
  /\ c.pc \in {"path", "store"} => Looking(c)
  /\ c.pc \in {"walk", "clear"} \/ c.result = "cleared" => Choosing(c)
  /\ c.pc = "clear" \/ c.result = "cleared" => c.todo # <<>> /\ Head(c.todo) \in bmc.clearable
  /\ c.result = "cleared" => width[Head(c.todo)] = 0
  /\ c.result \in {"none", "cleared", "RedfishError", "HTTPError"}

ListInv(c) ==
  /\ c.pc \in {"idle", "path", "store", "walk", "returned"}
  /\ c.result \in {"none", "listed", "RedfishError", "HTTPError"}

KindInv(c) ==
  /\ c.pc \in {"path", "store"} => c.roots # <<>>
  /\ c.pc = "returned" <=> c.result # "none"
  /\ c.kind = "insert" => InsertInv(c)
  /\ c.kind = "eject"  => EjectInv(c)
  /\ c.kind = "sel"    => SelInv(c)
  /\ c.kind = "clear"  => ClearInv(c)
  /\ c.kind = "list"   => ListInv(c)

OpsInv ==
  /\ DeviceInv
  /\ call \in [Tasks -> CallType(epoch)]
  /\ \A t \in Tasks : KindInv(call[t])

-----------------------------------------------------------------------------
(***************************************************************************)
(* Logs, resources and their members.                                      *)
(***************************************************************************)
LEMMA FunctionIsSeq ==
  ASSUME NEW S, NEW k \in Nat, NEW f \in [1..k -> S]
  PROVE  f \in Seq(S) /\ Len(f) = k
OBVIOUS

LEMMA TailIs ==
  ASSUME NEW S, NEW s \in Seq(S), s # <<>>
  PROVE  /\ Head(s) = s[1] /\ s[1] \in S /\ Len(s) \in Nat \ {0}
         /\ Tail(s) \in Seq(S) /\ Len(Tail(s)) = Len(s) - 1
         /\ \A j \in 1..(Len(s) - 1) : Tail(s)[j] = s[j + 1]
         /\ Len(s) = 1 <=> Tail(s) = <<>>
<1> DEFINE q == Tail(s)
<1>1. Head(s) = s[1] /\ s[1] \in S /\ Len(s) \in Nat \ {0}
  OBVIOUS
<1>2. q \in Seq(S) /\ Len(q) = Len(s) - 1 /\ \A j \in 1..(Len(s) - 1) : q[j] = s[j + 1]
  BY HeadTailProperties
<1> HIDE DEF q
<1>3. Len(q) = 0 <=> q = <<>>
  BY <1>2, EmptySeq
<1>4. Len(s) = 1 <=> q = <<>>
  BY <1>1, <1>2, <1>3
<1> QED BY <1>1, <1>2, <1>4 DEF q

LEMMA PairIs ==
  ASSUME NEW S, NEW a \in S, NEW b \in S
  PROVE  ToSet(<<a, b>>) = {a, b} /\ <<a, b>> \in Seq(S)
<1>1. DOMAIN <<a, b>> = {1, 2}
  OBVIOUS
<1>2. ToSet(<<a, b>>) = {a, b}
  BY <1>1 DEF ToSet
<1>3. <<a, b>> \in Seq(S)
  OBVIOUS
<1> QED BY <1>2, <1>3

LEMMA PairsMake ==
  ASSUME NEW S, NEW a \in S, NEW b \in S, NEW c \in S, NEW d \in S
  PROVE  <<a, b>> \o <<c, d>> = <<a, b, c, d>>
<1> DEFINE s == <<a, b>>
           r == <<c, d>>
           q == <<a, b, c, d>>
<1>1. s \in Seq(S) /\ r \in Seq(S) /\ q \in Seq(S) /\ Len(s) = 2 /\ Len(r) = 2 /\ Len(q) = 4
  OBVIOUS
<1>2. q[1] = s[1] /\ q[2] = s[2] /\ q[3] = r[1] /\ q[4] = r[2]
  OBVIOUS
<1> HIDE DEF s, r, q
<1> DEFINE h == s \o r
<1>3. /\ h \in Seq(S) /\ Len(h) = 4
      /\ \A i \in 1..4 : h[i] = IF i <= 2 THEN s[i] ELSE r[i - 2]
  <2>1. /\ h \in Seq(S) /\ Len(h) = Len(s) + Len(r)
        /\ \A i \in 1..(Len(s) + Len(r)) : h[i] = IF i <= Len(s) THEN s[i] ELSE r[i - Len(s)]
    BY <1>1, ConcatProperties
  <2> HIDE DEF h
  <2> QED BY <1>1, <2>1
<1> HIDE DEF h
<1>5. \A i \in 1..4 : h[i] = q[i]
  BY <1>2, <1>3
<1>6. h = q
  BY <1>1, <1>3, <1>5, SeqEqual
<1>7. s \o r = q
  BY <1>6 DEF h
<1> QED BY <1>7, Zenon DEF s, r, q

LEMMA StepIsNode ==
  ASSUME NEW x \in Step
  PROVE  <<x>> \in Node /\ Len(<<x>>) = 1
BY DEF Node

LEMMA LogsAre ==
  /\ ToSet(LogOrder) = Logs
  /\ Logs \subseteq DOMAIN Shape /\ Media \in DOMAIN Shape /\ Media \notin Logs
  /\ Shape[Media] \in Nat
  /\ \A l \in Logs : l \in Node /\ Len(l) = 1
<1>1. ToSet(LogOrder) = Logs
  BY DEF ToSet, LogOrder, Logs
<1>2. Logs \subseteq DOMAIN Shape /\ Media \in DOMAIN Shape /\ Shape[Media] \in Nat
  BY <1>1, OpsAssumption
<1>3. Media \notin Logs
  BY DEF Media, Logs
<1>4. \A l \in Logs : l \in Node /\ Len(l) = 1
  <2>0. {"Sel", "Log", "Lclog", "IML"} \subseteq DOMAIN RootOf
    BY DEF RootOf
  <2>1. "Sel" \in Step /\ "Log" \in Step /\ "Lclog" \in Step /\ "IML" \in Step
    BY <2>0, Zenon DEF Step
  <2>2. ASSUME NEW l \in Logs
        PROVE  \E x \in Step : l = <<x>>
    BY <2>1 DEF Logs
  <2> QED BY <2>2, StepIsNode
<1> QED BY <1>1, <1>2, <1>3, <1>4

LEMMA ShapeIs ==
  ASSUME NEW n \in DOMAIN Shape
  PROVE  /\ Shape[n] \in Nat /\ n \in Node /\ Len(n) \in Nat \ {0}
         /\ \A k \in 1..(Len(n) - 1) :
              /\ SubSeq(n, 1, k) \in DOMAIN Shape /\ SubSeq(n, 1, k) \notin Logs
              /\ n[k + 1] \in 1..Shape[SubSeq(n, 1, k)]
<1> DEFINE x == n[1]
           r == Tail(n)
<1>1. x \in DOMAIN RootOf /\ r \in Seq(Nat) /\ n = <<x>> \o r /\ Shape[n] \in Nat
  BY OpsAssumption
<1> HIDE DEF x, r
<1>2. <<x>> \in Node /\ Len(<<x>>) = 1 /\ x \in Step
  BY <1>1, StepIsNode DEF Step
<1>3. r \in Node
  BY <1>1 DEF Node, Step
<1>4. n \in Node /\ Len(n) \in Nat \ {0}
  BY <1>1, <1>2, <1>3, ConcatProperties DEF Node
<1>5. \A k \in 1..(Len(n) - 1) :
        LET m == SubSeq(n, 1, k) IN m \in DOMAIN Shape \ ToSet(LogOrder) /\ n[k + 1] \in 1..Shape[m]
  BY OpsAssumption
<1> QED BY <1>1, <1>4, <1>5, LogsAre

LEMMA PosIs ==
  Pos(<<"Sel">>) = 1 /\ Pos(<<"Log">>) = 2 /\ Pos(<<"Lclog">>) = 3 /\ Pos(<<"IML">>) = 4
<1>1. Len(LogOrder) = 4 /\ LogOrder[1] = <<"Sel">> /\ LogOrder[2] = <<"Log">>
      /\ LogOrder[3] = <<"Lclog">> /\ LogOrder[4] = <<"IML">>
  BY DEF LogOrder
<1>2. ASSUME NEW k \in 1..4
      PROVE  Pos(LogOrder[k]) = k
  <2>1. \A i \in 1..4 : LogOrder[i] = LogOrder[k] => i = k
    BY <1>1
  <2> QED BY <1>1, <2>1 DEF Pos
<1> QED BY <1>1, <1>2

\* Where the order of the code and that of its docstring agree.
LEMMA AgreedIs ==
  ASSUME NEW l \in Logs, NEW u \in Logs, Agreed(l, u)
  PROVE  Pos(l) < Pos(u)
BY PosIs DEF Agreed, Logs

\* The members of a resource.
LEMMA KidsAre ==
  ASSUME NEW n \in Node, width[n] \in Nat
  PROVE  /\ Kids(n) \in Nodes /\ Len(Kids(n)) = width[n]
         /\ \A i \in 1..width[n] : Kids(n)[i] = Append(n, i)
<1>1. \A i \in 1..width[n] : Append(n, i) \in Node
  BY DEF Node, Step
<1>2. Kids(n) \in [1..width[n] -> Node]
  BY <1>1 DEF Kids
<1>3. \A i \in 1..width[n] : Kids(n)[i] = Append(n, i)
  BY DEF Kids
<1> DEFINE f == Kids(n)
           k == width[n]
<1>4. f \in [1..k -> Node] /\ k \in Nat
  BY <1>2
<1> HIDE DEF f, k
<1>5. f \in Nodes /\ Len(f) = k
  BY <1>4, FunctionIsSeq DEF Nodes
<1> QED BY <1>3, <1>5 DEF f, k

LEMMA IdleTyped ==
  ASSUME NEW e \in Nat
  PROVE  Idle \in CallType(e)
<1>1. [r \in Roots |-> 0] \in Paths(e) /\ 0 \in Epochs(e)
  BY DEF Paths, Epochs
<1>2. <<>> \in Node /\ <<>> \in Nodes /\ <<>> \in Route /\ None \in Limit /\ None \in Image /\ 0 \in Slot
      /\ {} \in Missed /\ {} \in Some
  BY DEF Node, Nodes, Route, Limit, Image, Slot, Missed, Some
<1>3. "idle" \in Pcs /\ "list" \in Kinds /\ "none" \in Results
  BY DEF Pcs, Kinds, Results
<1> QED BY <1>1, <1>2, <1>3 DEF Idle, CallType

\* The call returns or raises.
LEMMA EndedIs ==
  ASSUME NEW e \in Nat, NEW c \in CallType(e), NEW r \in Results, r # "none"
  PROVE  /\ Ended(c, r) \in CallType(e)
         /\ Ended(c, r).pc = "returned" /\ Ended(c, r).result = r /\ Ended(c, r).kind = c.kind
         /\ r \notin {"RedfishError", "HTTPError"} =>
              /\ Ended(c, r).todo = c.todo /\ Ended(c, r).out = c.out /\ Ended(c, r).missed = c.missed
              /\ Ended(c, r).slot = c.slot /\ Ended(c, r).image = c.image
              /\ Ended(c, r).failed = c.failed /\ Ended(c, r).foreign = c.foreign
              /\ Ended(c, r).top = c.top /\ Ended(c, r).limit = c.limit
<1> DEFINE b == IF r \in {"RedfishError", "HTTPError"} THEN [Idle EXCEPT !.kind = c.kind] ELSE c
           p == Idle.path
<1>1. b \in CallType(e) /\ b.kind = c.kind /\ (r \notin {"RedfishError", "HTTPError"} => b = c)
  BY IdleTyped DEF CallType
<1>2. p \in Paths(e) /\ Idle.answer = 0 /\ Idle.busy = FALSE /\ 0 \in Epochs(e) /\ "returned" \in Pcs
  BY IdleTyped DEF CallType, Idle, Epochs, Pcs
<1>3. Ended(c, r) = [b EXCEPT !.pc = "returned", !.result = r, !.path = p, !.answer = 0, !.busy = FALSE]
  BY <1>2 DEF Ended, Errors
<1> HIDE DEF b, p
<1>4. Ended(c, r) \in CallType(e)
  BY <1>1, <1>2, <1>3 DEF CallType
<1> QED BY <1>1, <1>3, <1>4 DEF CallType

\* A call that raised owes nothing.
LEMMA RaisedOK ==
  ASSUME NEW c, c.pc = "returned", c.result \in {"RedfishError", "HTTPError"}
  PROVE  KindInv(c)
BY DEF KindInv, InsertInv, EjectInv, SelInv, ClearInv, ListInv

-----------------------------------------------------------------------------
(***************************************************************************)
(* What the steps of a call keep.                                          *)
(***************************************************************************)
\* A step of task t that leaves the BMC alone.
LEMMA StepKeeps ==
  ASSUME OpsInv, DeviceInv', UNCHANGED <<bmc, width, epoch, mounted>>, NEW t \in Tasks,
         NEW n \in CallType(epoch), Become(t, n), KindInv(n)
  PROVE  OpsInv'
<1>1. call' = [call EXCEPT ![t] = n] /\ call \in [Tasks -> CallType(epoch)]
  BY DEF Become, OpsInv
<1>2. call' \in [Tasks -> CallType(epoch')]
  BY <1>1
<1>3. ASSUME NEW m, KindInv(m)
      PROVE  KindInv(m)'
  BY <1>3 DEF KindInv, InsertInv, EjectInv, SelInv, ClearInv, ListInv, Looking, Choosing, OfLog, Entries,
              Useless, Emptied, Chosen, Before, SlotsLeft
<1>4. ASSUME NEW u \in Tasks
      PROVE  KindInv(call[u])'
  <2>1. PICK m : m = call'[u]
    OBVIOUS
  <2>2. KindInv(m)
    BY <1>1, <2>1 DEF OpsInv
  <2>3. KindInv(m)'
    BY <1>3, <2>2
  <2> QED BY <2>1, <2>3
<1> QED BY <1>2, <1>4 DEF OpsInv

LEMMA SameDevice ==
  ASSUME DeviceInv, UNCHANGED <<device, mounted, cache, faults>>
  PROVE  DeviceInv' /\ UNCHANGED <<bmc, width, epoch, mounted>>
BY DEF DeviceInv, device

\* The calls begin and are over.
LEMMA BeginKeeps ==
  ASSUME OpsInv, NEW t \in Tasks, NEW n \in CallType(epoch), KindInv(n), Begin(t, n)
  PROVE  OpsInv'
BY SameDevice, StepKeeps DEF Begin, OpsInv

LEMMA CallsKeep ==
  ASSUME OpsInv, NEW t \in Tasks, Calls(t)
  PROVE  OpsInv'
<1>1. epoch \in Nat
  BY DEF OpsInv, DeviceInv
<1>2. Idle \in CallType(epoch) /\ Idle.out = <<>> /\ Idle.missed = {} /\ Idle.slot = 0 /\ Idle.result = "none"
      /\ Idle.todo = <<>>
  BY <1>1, IdleTyped DEF Idle
<1>3. /\ {"path", "managers", "walk"} \subseteq Pcs /\ {"list", "sel", "clear", "insert", "eject"} \subseteq Kinds
      /\ <<"system", "manager">> \in Route /\ Media \in Node /\ <<Media>> \in Nodes
  <2>1. "VirtualMedia" \in Step
    BY DEF Step, RootOf
  <2>2. Media \in Node
    BY <2>1, StepIsNode DEF Media
  <2>3. <<Media>> \in Nodes
    BY <2>2 DEF Nodes
  <2>4. <<"system", "manager">> \in Route
    BY DEF Route, Roots
  <2> QED BY <2>2, <2>3, <2>4 DEF Pcs, Kinds
<1>4. ASSUME NEW l \in Lists, CallList(t, l)
      PROVE  OpsInv'
  <2>1. PICK x \in DOMAIN RootOf : l.top = <<x>>
    BY OpsAssumption
  <2>2. l.limit \in Limit
    BY OpsAssumption DEF Limit
  <2>3. l.top \in Node /\ l.top[1] = x
    BY <2>1, StepIsNode DEF Step
  <2> DEFINE rs == IF RootOf[x] \in Roots THEN <<RootOf[x]>> ELSE <<>>
             pc == IF RootOf[x] \in Roots THEN "path" ELSE "walk"
             td == <<l.top>>
             n  == [Idle EXCEPT !.kind = "list", !.top = l.top, !.limit = l.limit, !.todo = td,
                                !.roots = rs, !.pc = pc]
  <2>4. rs \in Route /\ pc \in {"path", "walk"} /\ (pc = "path" => rs # <<>>)
    BY DEF Route
  <2>5. td \in Nodes
    BY <2>3 DEF Nodes
  <2>6. Begin(t, n)
    BY <1>4, <2>3 DEF CallList
  <2> HIDE DEF rs, pc, td
  <2>7. n \in CallType(epoch)
    BY <1>2, <1>3, <2>2, <2>3, <2>4, <2>5 DEF CallType
  <2>8. n.kind = "list" /\ n.pc = pc /\ n.roots = rs /\ n.result = "none"
    BY <1>2 DEF CallType
  <2> HIDE DEF n
  <2>9. KindInv(n)
    BY <2>4, <2>8 DEF KindInv, ListInv
  <2> QED BY <2>6, <2>7, <2>9, BeginKeeps
<1>5. ASSUME NEW k \in {"sel", "clear"}, NEW limit \in Limit,
             Begin(t, [Idle EXCEPT !.kind = k, !.limit = limit, !.roots = <<"system", "manager">>, !.pc = "path"])
      PROVE  OpsInv'
  <2> DEFINE rs == <<"system", "manager">>
             n  == [Idle EXCEPT !.kind = k, !.limit = limit, !.roots = rs, !.pc = "path"]
  <2>1. rs \in Route /\ rs # <<>>
    BY <1>3
  <2> HIDE DEF rs
  <2>2. n \in CallType(epoch)
    BY <1>2, <1>3, <2>1 DEF CallType
  <2>3. n.kind = k /\ n.pc = "path" /\ n.roots = rs /\ n.todo = <<>> /\ n.out = <<>> /\ n.missed = {}
        /\ n.result = "none"
    BY <1>2 DEF CallType
  <2>4. Begin(t, n)
    BY <1>5 DEF rs
  <2> HIDE DEF n
  <2>5. KindInv(n)
    BY <2>1, <2>3 DEF KindInv, SelInv, ClearInv, Looking, rs
  <2> QED BY <2>2, <2>4, <2>5, BeginKeeps
<1>6. ASSUME NEW k \in {"insert", "eject"}, NEW n \in CallType(epoch), Begin(t, n), n.kind = k, n.pc = "managers",
             n.todo = <<Media>>, n.slot = 0, n.result = "none"
      PROVE  OpsInv'
  <2>1. KindInv(n)
    BY <1>6 DEF KindInv, InsertInv, EjectInv
  <2> QED BY <1>6, <2>1, BeginKeeps
<1>7. ASSUME NEW limit \in Limits, CallSel(t, limit)
      PROVE  OpsInv'
  <2>1. limit \in Limit
    BY OpsAssumption DEF Limit
  <2> QED BY <1>5, <1>7, <2>1 DEF CallSel
<1>8. CASE CallClear(t)
  <2>1. None \in Limit /\ Idle.limit = None
    BY DEF Limit, Idle
  <2>2. [Idle EXCEPT !.kind = "clear", !.roots = <<"system", "manager">>, !.pc = "path"]
          = [Idle EXCEPT !.kind = "clear", !.limit = None, !.roots = <<"system", "manager">>, !.pc = "path"]
    BY <2>1 DEF Idle
  <2> QED BY <1>5, <1>8, <2>1, <2>2 DEF CallClear
<1>9. ASSUME NEW image \in Images, CallInsert(t, image)
      PROVE  OpsInv'
  <2> DEFINE td == <<Media>>
             n  == [Idle EXCEPT !.kind = "insert", !.image = image, !.todo = td, !.pc = "managers"]
  <2>1. td \in Nodes /\ image \in Image
    BY <1>3 DEF Image
  <2> HIDE DEF td
  <2>2. n \in CallType(epoch) /\ n.kind = "insert" /\ n.pc = "managers" /\ n.todo = td /\ n.slot = 0 /\ n.result = "none"
    BY <1>2, <1>3, <2>1 DEF CallType
  <2>3. Begin(t, n)
    BY <1>9 DEF CallInsert, td
  <2> HIDE DEF n
  <2> QED BY <1>6, <2>2, <2>3 DEF td
<1>10. CASE CallEject(t)
  <2> DEFINE td == <<Media>>
             n  == [Idle EXCEPT !.kind = "eject", !.todo = td, !.pc = "managers"]
  <2>1. td \in Nodes
    BY <1>3
  <2> HIDE DEF td
  <2>2. n \in CallType(epoch) /\ n.kind = "eject" /\ n.pc = "managers" /\ n.todo = td /\ n.slot = 0 /\ n.result = "none"
    BY <1>2, <1>3, <2>1 DEF CallType
  <2>3. Begin(t, n)
    BY <1>10 DEF CallEject, td
  <2> HIDE DEF n
  <2> QED BY <1>6, <2>2, <2>3 DEF td
<1> QED BY <1>4, <1>7, <1>8, <1>9, <1>10 DEF Calls

LEMMA TakeKeeps ==
  ASSUME OpsInv, NEW t \in Tasks, Take(t)
  PROVE  OpsInv'
<1>1. epoch \in Nat
  BY DEF OpsInv, DeviceInv
<1>2. Idle \in CallType(epoch) /\ Idle.kind = "list" /\ Idle.pc = "idle" /\ Idle.result = "none"
  BY <1>1, IdleTyped DEF Idle
<1>3. KindInv(Idle)
  BY <1>2 DEF KindInv, ListInv
<1> QED BY <1>2, <1>3, SameDevice, StepKeeps DEF Take, OpsInv

-----------------------------------------------------------------------------
(***************************************************************************)
(* The paths of the roots.                                                 *)
(***************************************************************************)
LEMMA LogsOfAre ==
  /\ LogsOf["system"] = <<<<"Sel">>, <<"Log">>>> /\ LogsOf["manager"] = <<<<"Lclog">>, <<"IML">>>>
  /\ ToSet(LogsOf["system"]) = {<<"Sel">>, <<"Log">>} /\ ToSet(LogsOf["manager"]) = {<<"Lclog">>, <<"IML">>}
  /\ LogsOf["system"] \o LogsOf["manager"] = <<<<"Sel">>, <<"Log">>, <<"Lclog">>, <<"IML">>>>
  /\ LogsOf["system"] \in Nodes /\ LogsOf["manager"] \in Nodes
<1>1. LogsOf["system"] = <<<<"Sel">>, <<"Log">>>> /\ LogsOf["manager"] = <<<<"Lclog">>, <<"IML">>>>
  BY DEF LogsOf
<1>4. <<"Sel">> \in Node /\ <<"Log">> \in Node /\ <<"Lclog">> \in Node /\ <<"IML">> \in Node
  BY LogsAre DEF Logs
<1> QED BY <1>1, <1>4, PairIs, PairsMake DEF Nodes

LEMMA LookingRoots ==
  ASSUME NEW c, KindInv(c), c.pc \in {"path", "store"}, c.kind \in {"sel", "clear"}
  PROVE  Head(c.roots) \in {"system", "manager"}
<1>1. Looking(c)
  BY DEF KindInv, SelInv, ClearInv
<1> QED BY <1>1 DEF Looking

\* The call when a root is found.
LEMMA FoundIs ==
  ASSUME NEW e \in Nat, NEW c \in CallType(e), c.roots # <<>>, NEW k \in Epochs(e),
         c.kind \in {"sel", "clear"} => Head(c.roots) \in {"system", "manager"}
  PROVE  /\ Found(c, k) \in CallType(e)
         /\ Found(c, k).roots = Tail(c.roots) /\ Found(c, k).pc = NextPath(c)
         /\ Found(c, k).todo = IF c.kind \in {"sel", "clear"} THEN c.todo \o LogsOf[Head(c.roots)] ELSE c.todo
         /\ Found(c, k).missed = c.missed /\ Found(c, k).out = c.out
         /\ Found(c, k).kind = c.kind /\ Found(c, k).result = c.result
         /\ Found(c, k).top = c.top /\ Found(c, k).limit = c.limit
<1> DEFINE rs == Tail(c.roots)
           pc == NextPath(c)
           p  == [c.path EXCEPT ![Head(c.roots)] = k]
           td == IF c.kind \in {"sel", "clear"} THEN c.todo \o LogsOf[Head(c.roots)] ELSE c.todo
           n  == [c EXCEPT !.path = p, !.roots = rs, !.answer = 0, !.todo = td, !.pc = pc]
<1>1. Head(c.roots) \in Roots /\ rs \in Route /\ 0 \in Epochs(e)
  BY TailIs DEF CallType, Route, Epochs
<1>2. pc \in Pcs
  BY DEF NextPath, Pcs
<1>3. p \in Paths(e)
  BY <1>1 DEF CallType, Paths
<1>4. td \in Nodes
  <2>1. \A s, r \in Nodes : s \o r \in Nodes
    BY ConcatProperties DEF Nodes
  <2>2. c.kind \in {"sel", "clear"} => LogsOf[Head(c.roots)] \in Nodes
    BY LogsOfAre
  <2> QED BY <2>1, <2>2 DEF CallType
<1>5. Found(c, k) = n
  BY DEF Found
<1> HIDE DEF rs, pc, p, td
<1>6. n \in CallType(e)
  BY <1>1, <1>2, <1>3, <1>4 DEF CallType
<1>7. n.roots = rs /\ n.todo = td /\ n.missed = c.missed /\ n.out = c.out /\ n.kind = c.kind
      /\ n.result = c.result /\ n.pc = pc
  BY DEF CallType
<1> QED BY <1>5, <1>6, <1>7 DEF rs, pc, td

LEMMA RootedOK ==
  ASSUME OpsInv, NEW c \in CallType(epoch), KindInv(c), c.pc \in {"path", "store"},
         NEW n \in CallType(epoch), n.roots = Tail(c.roots), n.pc = NextPath(c), n.out = c.out,
         n.kind = c.kind, n.result = c.result,
         \/ c.kind = "list"
         \/ n.todo = c.todo \o LogsOf[Head(c.roots)] /\ n.missed = c.missed
         \/ n.todo = c.todo /\ n.missed = c.missed \cup ToSet(LogsOf[Head(c.roots)])
  PROVE  KindInv(n)
<1> DEFINE td == n.todo
           ms == n.missed
<1>1. epoch \in Nat /\ c.roots # <<>> /\ c.result = "none" /\ c.roots \in Seq(Roots)
  BY DEF OpsInv, DeviceInv, KindInv, CallType, Route
<1>2. /\ n.roots = Tail(c.roots) /\ n.todo = td /\ n.missed = ms /\ n.out = c.out
      /\ n.kind = c.kind /\ n.result = c.result
      /\ n.pc = IF Len(c.roots) = 1 THEN "walk" ELSE "path"
  BY DEF NextPath
<1>9. \/ c.kind = "list"
      \/ td = c.todo \o LogsOf[Head(c.roots)] /\ ms = c.missed
      \/ td = c.todo /\ ms = c.missed \cup ToSet(LogsOf[Head(c.roots)])
  OBVIOUS
<1> HIDE DEF td, ms
<1>3. n.pc \in {"path", "walk"} /\ (n.pc = "path" => n.roots # <<>>)
  BY <1>1, <1>2, TailIs
<1>4. CASE c.kind = "list"
  <2>1. n.kind = "list" /\ n.result = "none"
    BY <1>1, <1>2, <1>4
  <2> QED BY <1>2, <1>3, <2>1 DEF KindInv, ListInv
<1>5. CASE c.kind \in {"sel", "clear"}
  <2>1. Looking(c)
    BY <1>5 DEF KindInv, SelInv, ClearInv
  <2>2. CASE c.roots = <<"system", "manager">>
    <3>1. Head(c.roots) = "system" /\ Tail(c.roots) = <<"manager">> /\ Len(c.roots) = 2
      BY <2>2
    <3>2. c.todo = <<>> /\ c.missed \subseteq Logs /\ c.out = <<>>
      BY <2>1, <2>2 DEF Looking
    <3>3. \/ td = LogsOf["system"] /\ ms = c.missed
          \/ td = <<>> /\ ms = c.missed \cup {<<"Sel">>, <<"Log">>}
      <4>1. <<>> \o LogsOf["system"] = LogsOf["system"]
        BY LogsOfAre DEF Nodes
      <4> QED BY <1>5, <1>9, <3>1, <3>2, <4>1, LogsOfAre
    <3>4. Looking(n)
      BY <1>2, <3>1, <3>2, <3>3 DEF Looking, Useless, Logs
    <3>5. n.pc = "path" /\ n.kind = c.kind /\ n.result = "none"
      BY <1>1, <1>2, <3>1
    <3> QED BY <1>2, <1>3, <1>5, <3>4, <3>5 DEF KindInv, SelInv, ClearInv
  <2>3. CASE c.roots = <<"manager">>
    <3>1. Head(c.roots) = "manager" /\ Len(c.roots) = 1
      BY <2>3
    <3>2. c.missed \subseteq Logs /\ c.out = <<>>
          /\ \/ c.todo = LogsOf["system"]
             \/ c.todo = <<>> /\ Useless(c, <<"Sel">>) /\ Useless(c, <<"Log">>)
      <4>1. <<"manager">> # <<"system", "manager">>
        OBVIOUS
      <4> QED BY <2>1, <2>3, <4>1 DEF Looking
    <3>3. \/ td = c.todo \o LogsOf["manager"] /\ ms = c.missed
          \/ td = c.todo /\ ms = c.missed \cup {<<"Lclog">>, <<"IML">>}
      BY <1>5, <1>9, <3>1, LogsOfAre
    <3>4. <<>> \o LogsOf["manager"] = LogsOf["manager"]
      BY LogsOfAre DEF Nodes
    <3>5. \/ td = <<<<"Sel">>, <<"Log">>, <<"Lclog">>, <<"IML">>>>
          \/ td = <<<<"Lclog">>, <<"IML">>>> /\ Useless(n, <<"Sel">>) /\ Useless(n, <<"Log">>)
          \/ td = <<<<"Sel">>, <<"Log">>>> /\ Useless(n, <<"Lclog">>) /\ Useless(n, <<"IML">>)
          \/ td = <<>> /\ \A l \in Logs : Useless(n, l)
      BY <1>2, <3>2, <3>3, <3>4, LogsOfAre DEF Useless, Logs
    <3>6. Choosing(n)
      <4>1. ToSet(<<<<"Sel">>, <<"Log">>, <<"Lclog">>, <<"IML">>>>) = Logs
            /\ ToSet(<<<<"Lclog">>, <<"IML">>>>) = {<<"Lclog">>, <<"IML">>}
            /\ ToSet(<<<<"Sel">>, <<"Log">>>>) = {<<"Sel">>, <<"Log">>}
        BY LogsAre, LogsOfAre DEF LogOrder
      <4>2. n.missed \subseteq Logs /\ n.out = <<>>
        BY <1>2, <3>2, <3>3 DEF Logs
      <4>3. n.todo \in LogTodos
        BY <1>2, <3>5 DEF LogTodos
      <4>4. \A l \in Logs : l \in ToSet(n.todo) \/ Useless(n, l)
        BY <1>2, <3>5, <4>1 DEF Logs
      <4> QED BY <4>2, <4>3, <4>4 DEF Choosing
    <3>7. n.pc = "walk" /\ n.kind = c.kind /\ n.result = "none"
      BY <1>1, <1>2, <3>1
    <3> QED BY <1>2, <1>3, <1>5, <3>6, <3>7 DEF KindInv, SelInv, ClearInv
  <2> QED BY <2>1, <2>2, <2>3 DEF Looking
<1>6. c.kind \notin {"insert", "eject"} /\ c.kind \in Kinds
  BY DEF KindInv, InsertInv, EjectInv, CallType
<1> QED BY <1>2, <1>4, <1>5, <1>6 DEF Kinds

\* Of the actions that find a path, or do not.
LEMMA CallIs ==
  ASSUME OpsInv, NEW t \in Tasks
  PROVE  epoch \in Nat /\ call[t] \in CallType(epoch) /\ KindInv(call[t])
BY DEF OpsInv, DeviceInv

LEMMA FoundKeeps ==
  ASSUME OpsInv, NEW t \in Tasks, NEW k \in Epochs(epoch), call[t].pc \in {"path", "store"},
         Become(t, Found(call[t], k)), DeviceInv', UNCHANGED <<bmc, width, epoch, mounted>>
  PROVE  OpsInv'
<1> PICK c : c = call[t]
  OBVIOUS
<1>1. epoch \in Nat /\ c \in CallType(epoch) /\ KindInv(c) /\ c.pc \in {"path", "store"}
  BY CallIs
<1>2. c.roots # <<>> /\ (c.kind \in {"sel", "clear"} => Head(c.roots) \in {"system", "manager"})
  BY <1>1, LookingRoots DEF KindInv
<1> DEFINE n == Found(c, k)
<1>3. /\ n \in CallType(epoch) /\ n.roots = Tail(c.roots) /\ n.pc = NextPath(c) /\ n.out = c.out
      /\ n.kind = c.kind /\ n.result = c.result /\ n.missed = c.missed
      /\ n.todo = IF c.kind \in {"sel", "clear"} THEN c.todo \o LogsOf[Head(c.roots)] ELSE c.todo
  BY <1>1, <1>2, FoundIs
<1>4. Become(t, n)
  OBVIOUS
<1> HIDE DEF n
<1>5. c.kind \in {"list", "sel", "clear"}
  BY <1>1 DEF KindInv, InsertInv, EjectInv, CallType, Kinds
<1>6. KindInv(n)
  BY <1>1, <1>3, <1>5, RootedOK
<1> QED BY <1>3, <1>4, <1>6, StepKeeps

\* A call that raises, from wherever it waits.
LEMMA RaiseKeeps ==
  ASSUME OpsInv, NEW t \in Tasks, NEW r \in {"RedfishError", "HTTPError"}, Become(t, Ended(call[t], r)),
         DeviceInv', UNCHANGED <<bmc, width, epoch, mounted>>
  PROVE  OpsInv'
<1> PICK c : c = call[t]
  OBVIOUS
<1>1. epoch \in Nat /\ c \in CallType(epoch)
  BY CallIs
<1> DEFINE n == Ended(c, r)
<1>2. r \in Results /\ r # "none"
  BY DEF Results
<1>3. n \in CallType(epoch) /\ n.pc = "returned" /\ n.result = r
  BY <1>1, <1>2, EndedIs
<1>4. Become(t, n)
  OBVIOUS
<1> HIDE DEF n
<1>5. KindInv(n)
  BY <1>3, RaisedOK
<1> QED BY <1>3, <1>4, <1>5, StepKeeps

LEMMA PathsKeep ==
  ASSUME OpsInv, NEW t \in Tasks, CachedPath(t) \/ AnswerPath(t) \/ StorePath(t) \/ PathFails(t)
  PROVE  OpsInv'
<1> PICK c : c = call[t]
  OBVIOUS
<1>1. epoch \in Nat /\ c \in CallType(epoch) /\ KindInv(c)
  BY CallIs
<1>2. DeviceInv
  BY DEF OpsInv
<1>3. ASSUME c.pc \in {"path", "store"}
      PROVE  Head(c.roots) \in Roots /\ cache[Head(c.roots)] \in Epochs(epoch)
  <2>1. c.roots \in Seq(Roots) /\ c.roots # <<>>
    BY <1>1, <1>3 DEF KindInv, CallType, Route
  <2> QED BY <1>2, <2>1, TailIs DEF DeviceInv, Epochs
<1>4. CASE CachedPath(t)
  BY <1>2, <1>3, <1>4, SameDevice, FoundKeeps DEF CachedPath
<1>5. CASE AnswerPath(t)
  <2> DEFINE n == [c EXCEPT !.pc = "store", !.answer = epoch]
  <2>1. epoch \in Epochs(epoch) /\ "store" \in Pcs
    BY <1>1 DEF Epochs, Pcs
  <2>2. n \in CallType(epoch)
    BY <1>1, <2>1 DEF CallType
  <2>3. n.pc = "store" /\ n.roots = c.roots /\ n.kind = c.kind /\ n.result = c.result /\ n.todo = c.todo
        /\ n.missed = c.missed /\ n.out = c.out
    BY <1>1 DEF CallType
  <2>4. Become(t, n) /\ c.pc = "path"
    BY <1>5 DEF AnswerPath
  <2> HIDE DEF n
  <2>5. KindInv(n)
    <3>1. c.kind \in {"list", "sel", "clear"} /\ c.roots # <<>> /\ c.result = "none"
      BY <1>1, <2>4 DEF KindInv, InsertInv, EjectInv, CallType, Kinds
    <3>2. c.kind \in {"sel", "clear"} => Looking(n)
      BY <1>1, <2>3, <2>4 DEF KindInv, SelInv, ClearInv, Looking, Useless
    <3> QED BY <2>3, <3>1, <3>2 DEF KindInv, ListInv, SelInv, ClearInv
  <2> QED BY <1>2, <1>5, <2>2, <2>4, <2>5, SameDevice, StepKeeps DEF AnswerPath
<1>6. CASE StorePath(t)
  <2>1. c.pc = "store" /\ c.answer \in Epochs(epoch)
    BY <1>1, <1>6 DEF StorePath, CallType
  <2>2. cache' = [cache EXCEPT ![Head(c.roots)] = c.answer]
    BY <1>6 DEF StorePath
  <2>3. UNCHANGED <<bmc, width, epoch, mounted, faults>> /\ Become(t, Found(c, c.answer))
    BY <1>6 DEF StorePath, device
  <2>4. DeviceInv'
    BY <1>2, <2>1, <2>2, <2>3 DEF DeviceInv, Epochs
  <2> QED BY <2>1, <2>3, <2>4, FoundKeeps
<1>7. CASE PathFails(t)
  <2>1. c.pc = "path" /\ UNCHANGED <<bmc, width, epoch, mounted, cache>> /\ Fault
    BY <1>7 DEF PathFails, device
  <2>2. DeviceInv'
    BY <1>2, <2>1, OpsAssumption DEF DeviceInv, Fault
  <2>3. CASE \E r \in {"RedfishError", "HTTPError"} : Become(t, Ended(c, r))
    BY <2>1, <2>2, <2>3, RaiseKeeps
  <2>4. CASE c.kind # "list" /\ ~ Become(t, Ended(c, "HTTPError"))
    <3>1. c.kind \in {"sel", "clear"} /\ Head(c.roots) \in {"system", "manager"} /\ c.roots # <<>>
      BY <1>1, <2>1, <2>4, LookingRoots DEF KindInv, InsertInv, EjectInv, CallType, Kinds
    <3> DEFINE f  == Found(c, 0)
               ms == f.missed \cup ToSet(LogsOf[Head(c.roots)])
               td == c.todo
               n  == [f EXCEPT !.todo = td, !.missed = ms]
    <3>2. f \in CallType(epoch) /\ f.roots = Tail(c.roots) /\ f.pc = NextPath(c) /\ f.out = c.out
          /\ f.kind = c.kind /\ f.result = c.result /\ f.missed = c.missed
      BY <1>1, <3>1, FoundIs DEF Epochs
    <3>3. Become(t, n)
      BY <1>7, <2>1, <2>4 DEF PathFails
    <3> HIDE DEF f
    <3>4. ToSet(LogsOf[Head(c.roots)]) \subseteq Node
      BY <3>1, LogsOfAre, LogsAre DEF Logs
    <3>5. ms \in Missed /\ td \in Nodes
      BY <1>1, <3>2, <3>4 DEF Missed, CallType
    <3>6. ms = c.missed \cup ToSet(LogsOf[Head(c.roots)])
      BY <3>2
    <3> HIDE DEF ms, td
    <3>7. n \in CallType(epoch)
      BY <3>2, <3>5 DEF CallType
    <3>8. n.roots = Tail(c.roots) /\ n.pc = NextPath(c) /\ n.out = c.out /\ n.kind = c.kind
          /\ n.result = c.result /\ n.todo = td /\ n.missed = ms
      BY <3>2 DEF CallType
    <3> HIDE DEF n
    <3>9. KindInv(n)
      BY <1>1, <2>1, <3>1, <3>6, <3>7, <3>8, RootedOK DEF td
    <3> QED BY <2>1, <2>2, <3>3, <3>7, <3>9, StepKeeps
  <2>5. c.kind = "list" => \E r \in {"RedfishError", "HTTPError"} : Become(t, Ended(c, r))
    BY <1>7 DEF PathFails
  <2> QED BY <2>3, <2>4, <2>5
<1> QED BY <1>4, <1>5, <1>6, <1>7

-----------------------------------------------------------------------------
(***************************************************************************)
(* The walk.                                                               *)
(***************************************************************************)
LEMMA FaultKeeps ==
  ASSUME DeviceInv, UNCHANGED <<device, mounted, cache>>, Fault \/ UNCHANGED faults
  PROVE  DeviceInv' /\ UNCHANGED <<bmc, width, epoch, mounted>>
BY OpsAssumption DEF DeviceInv, device, Fault

LEMMA TailSet ==
  ASSUME NEW S, NEW s \in Seq(S), s # <<>>
  PROVE  ToSet(s) = {Head(s)} \cup ToSet(Tail(s))
<1> DEFINE q == Tail(s)
<1>1. /\ Head(s) = s[1] /\ Len(s) \in Nat \ {0} /\ q \in Seq(S) /\ Len(q) = Len(s) - 1
      /\ \A j \in 1..(Len(s) - 1) : q[j] = s[j + 1]
  BY TailIs
<1> HIDE DEF q
<1>2. DOMAIN s = 1..Len(s) /\ DOMAIN q = 1..(Len(s) - 1)
  BY <1>1
<1>3. ASSUME NEW i \in 1..Len(s)
      PROVE  s[i] \in {Head(s)} \cup ToSet(q)
  <2>1. CASE i = 1
    BY <1>1, <2>1
  <2>2. CASE i # 1
    <3>1. i - 1 \in 1..(Len(s) - 1) /\ (i - 1) + 1 = i
      BY <1>1, <2>2
    <3>2. q[i - 1] = s[i]
      BY <1>1, <3>1
    <3> QED BY <1>2, <3>1, <3>2 DEF ToSet
  <2> QED BY <2>1, <2>2
<1>4. ASSUME NEW j \in 1..(Len(s) - 1)
      PROVE  q[j] \in ToSet(s)
  <2>1. j + 1 \in 1..Len(s) /\ q[j] = s[j + 1]
    BY <1>1
  <2> QED BY <1>2, <2>1 DEF ToSet
<1>5. Head(s) \in ToSet(s)
  BY <1>1, <1>2 DEF ToSet
<1>6. ToSet(s) \subseteq {Head(s)} \cup ToSet(q)
  BY <1>2, <1>3 DEF ToSet
<1>7. ToSet(q) \subseteq ToSet(s)
  BY <1>2, <1>4 DEF ToSet
<1> QED BY <1>5, <1>6, <1>7 DEF q

LEMMA ShortSets ==
  ASSUME NEW a
  PROVE  ToSet(<<>>) = {} /\ ToSet(<<a>>) = {a}
<1>1. ToSet(<<>>) = {}
  BY DEF ToSet
<1>2. DOMAIN <<a>> = {1}
  OBVIOUS
<1>3. ToSet(<<a>>) = {a}
  BY <1>2 DEF ToSet
<1> QED BY <1>1, <1>3

\* The tail of a sequence, of which each element is known.
LEMMA TailMakes ==
  ASSUME NEW S, NEW s \in Seq(S), s # <<>>, NEW r \in Seq(S), Len(r) = Len(s) - 1,
         \A i \in 1..Len(r) : r[i] = s[i + 1]
  PROVE  Tail(s) = r
<1> DEFINE q == Tail(s)
<1>1. q \in Seq(S) /\ Len(q) = Len(s) - 1 /\ \A i \in 1..Len(q) : q[i] = s[i + 1]
  BY HeadTailProperties
<1> HIDE DEF q
<1>2. q = r
  BY <1>1, SeqEqual
<1> QED BY <1>2 DEF q

LEMMA ShortTails ==
  ASSUME NEW a, NEW b, NEW c, NEW d
  PROVE  /\ Head(<<a>>) = a /\ Tail(<<a>>) = <<>>
         /\ Head(<<a, b>>) = a /\ Tail(<<a, b>>) = <<b>>
         /\ Head(<<a, b, c>>) = a /\ Tail(<<a, b, c>>) = <<b, c>>
         /\ Head(<<a, b, c, d>>) = a /\ Tail(<<a, b, c, d>>) = <<b, c, d>>
<1>1. Head(<<a>>) = a /\ Head(<<a, b>>) = a /\ Head(<<a, b, c>>) = a /\ Head(<<a, b, c, d>>) = a
  OBVIOUS
<1>2. Tail(<<a>>) = <<>>
  OBVIOUS
<1>3. Tail(<<a, b>>) = <<b>>
  OBVIOUS
<1>4. Tail(<<a, b, c>>) = <<b, c>>
  <2> DEFINE S == {a, b, c}
             s == <<a, b, c>>
             r == <<b, c>>
  <2>1. s \in Seq(S) /\ s # <<>> /\ Len(s) = 3 /\ s[2] = b /\ s[3] = c
    OBVIOUS
  <2>2. r \in Seq(S) /\ Len(r) = 2 /\ r[1] = b /\ r[2] = c
    OBVIOUS
  <2> HIDE DEF S, s, r
  <2>3. Len(r) = Len(s) - 1 /\ \A i \in 1..Len(r) : r[i] = s[i + 1]
    BY <2>1, <2>2
  <2>4. Tail(s) = r
    BY <2>1, <2>2, <2>3, TailMakes, Zenon
  <2> QED BY <2>4, Zenon DEF s, r
<1>5. Tail(<<a, b, c, d>>) = <<b, c, d>>
  <2> DEFINE S == {a, b, c, d}
             s == <<a, b, c, d>>
             r == <<b, c, d>>
  <2>1. s \in Seq(S) /\ s # <<>> /\ Len(s) = 4 /\ s[2] = b /\ s[3] = c /\ s[4] = d
    OBVIOUS
  <2>2. r \in Seq(S) /\ Len(r) = 3 /\ r[1] = b /\ r[2] = c /\ r[3] = d
    OBVIOUS
  <2> HIDE DEF S, s, r
  <2>3. Len(r) = Len(s) - 1 /\ \A i \in 1..Len(r) : r[i] = s[i + 1]
    BY <2>1, <2>2
  <2>4. Tail(s) = r
    BY <2>1, <2>2, <2>3, TailMakes, Zenon
  <2> QED BY <2>4, Zenon DEF s, r
<1> QED BY <1>1, <1>2, <1>3, <1>4, <1>5

\* Of the logs that are left.
LEMMA LogTail ==
  ASSUME NEW s \in LogTodos, s # <<>>
  PROVE  /\ Head(s) \in Logs /\ Tail(s) \in LogTodos
         /\ ToSet(s) = {Head(s)} \cup ToSet(Tail(s))
         /\ \A l \in ToSet(Tail(s)) : Pos(Head(s)) < Pos(l)
         /\ \A l \in ToSet(s) : ~ (Pos(l) < Pos(Head(s)))
<1> DEFINE a == <<"Sel">>
           b == <<"Log">>
           c == <<"Lclog">>
           d == <<"IML">>
<1>1. a \in Logs /\ b \in Logs /\ c \in Logs /\ d \in Logs
  BY DEF Logs
<1>2. Pos(a) = 1 /\ Pos(b) = 2 /\ Pos(c) = 3 /\ Pos(d) = 4
  BY PosIs
<1>3. LogTodos = {<<>>, <<d>>, <<c, d>>, <<b, c, d>>, <<a, b, c, d>>, <<b>>, <<a, b>>}
  BY DEF LogTodos
<1> HIDE DEF a, b, c, d
<1>4. /\ ToSet(<<>>) = {} /\ ToSet(<<d>>) = {d} /\ ToSet(<<c, d>>) = {c, d} /\ ToSet(<<b, c, d>>) = {b, c, d}
      /\ ToSet(<<a, b, c, d>>) = {a, b, c, d} /\ ToSet(<<b>>) = {b} /\ ToSet(<<a, b>>) = {a, b}
  <2>1. ToSet(<<>>) = {} /\ ToSet(<<d>>) = {d} /\ ToSet(<<b>>) = {b}
    BY ShortSets
  <2>2. ToSet(<<c, d>>) = {c, d} /\ ToSet(<<a, b>>) = {a, b}
    BY <1>1, PairIs
  <2>3. ToSet(<<b, c, d>>) = {b, c, d}
    <3>1. DOMAIN <<b, c, d>> = {1, 2, 3}
      OBVIOUS
    <3> QED BY <3>1 DEF ToSet
  <2>4. ToSet(<<a, b, c, d>>) = {a, b, c, d}
    <3>1. DOMAIN <<a, b, c, d>> = {1, 2, 3, 4}
      OBVIOUS
    <3> QED BY <3>1 DEF ToSet
  <2> QED BY <2>1, <2>2, <2>3, <2>4
<1>5. CASE s = <<d>>
  <2>1. Head(s) = d /\ Tail(s) = <<>>
    BY <1>5, ShortTails
  <2> QED BY <1>1, <1>2, <1>3, <1>4, <1>5, <2>1
<1>6. CASE s = <<c, d>>
  <2>1. Head(s) = c /\ Tail(s) = <<d>>
    BY <1>6, ShortTails
  <2> QED BY <1>1, <1>2, <1>3, <1>4, <1>6, <2>1
<1>7. CASE s = <<b, c, d>>
  <2>1. Head(s) = b /\ Tail(s) = <<c, d>>
    BY <1>7, ShortTails
  <2> QED BY <1>1, <1>2, <1>3, <1>4, <1>7, <2>1
<1>8. CASE s = <<a, b, c, d>>
  <2>1. Head(s) = a /\ Tail(s) = <<b, c, d>>
    BY <1>8, ShortTails
  <2> QED BY <1>1, <1>2, <1>3, <1>4, <1>8, <2>1
<1>9. CASE s = <<b>>
  <2>1. Head(s) = b /\ Tail(s) = <<>>
    BY <1>9, ShortTails
  <2> QED BY <1>1, <1>2, <1>3, <1>4, <1>9, <2>1
<1>10. CASE s = <<a, b>>
  <2>1. Head(s) = a /\ Tail(s) = <<b>>
    BY <1>10, ShortTails
  <2> QED BY <1>1, <1>2, <1>3, <1>4, <1>10, <2>1
<1> QED BY <1>3, <1>5, <1>6, <1>7, <1>8, <1>9, <1>10

LEMMA WalkTarget ==
  ASSUME OpsInv, NEW c \in CallType(epoch), c.todo # <<>>
  PROVE  /\ Head(c.todo) \in Node /\ Tail(c.todo) \in Nodes
         /\ ToSet(c.todo) = {Head(c.todo)} \cup ToSet(Tail(c.todo))
<1>1. c.todo \in Seq(Node)
  BY DEF CallType, Nodes
<1> QED BY <1>1, TailIs, TailSet DEF Nodes

\* A log passed over for a reason leaves the choice of the others.
LEMMA ChoosingOn ==
  ASSUME NEW c, NEW n, Choosing(c), c.todo # <<>>, n.todo = Tail(c.todo), n.kind = c.kind, n.out = c.out,
         c.missed \subseteq n.missed, n.missed \subseteq c.missed \cup {Head(c.todo)}, Useless(n, Head(c.todo))
  PROVE  Choosing(n)
<1>1. Head(c.todo) \in Logs /\ Tail(c.todo) \in LogTodos /\ ToSet(c.todo) = {Head(c.todo)} \cup ToSet(Tail(c.todo))
  BY LogTail DEF Choosing
<1>2. \A l \in Logs : Useless(c, l) => Useless(n, l)
  BY DEF Useless
<1> QED BY <1>1, <1>2 DEF Choosing

\* Of the entries of a log.
LEMMA OfLogOn ==
  ASSUME NEW c, NEW n, NEW u, OfLog(c, u), c.missed \subseteq n.missed, n.kind = c.kind,
         Entries(n) \subseteq Entries(c), Entries(n) # {}
  PROVE  OfLog(n, u)
BY DEF OfLog, Useless

LEMMA EntryIsNoLog ==
  ASSUME OpsInv, NEW c, NEW u \in Logs, OfLog(c, u), NEW n \in Entries(c)
  PROVE  n \notin Logs /\ n \notin DOMAIN width
<1>1. Len(n) = 2 /\ Front(n) = u
  BY DEF OfLog
<1>2. n \notin Logs
  BY <1>1, LogsAre
<1>3. SubSeq(n, 1, 1) = u
  BY <1>1 DEF Front
<1>4. ASSUME n \in DOMAIN Shape
      PROVE  FALSE
  <2>1. \A k \in 1..(Len(n) - 1) : SubSeq(n, 1, k) \notin Logs
    BY <1>4, ShapeIs
  <2>2. 1 \in 1..(Len(n) - 1)
    BY <1>1
  <2> QED BY <1>3, <2>1, <2>2
<1> QED BY <1>2, <1>4 DEF OpsInv, DeviceInv

LEMMA AppendSet ==
  ASSUME NEW S, NEW s \in Seq(S), NEW x \in S
  PROVE  Append(s, x) \in Seq(S) /\ ToSet(Append(s, x)) = ToSet(s) \cup {x}
<1> DEFINE q == Append(s, x)
<1>1. /\ q \in Seq(S) /\ Len(q) = Len(s) + 1 /\ \A i \in 1..Len(s) : q[i] = s[i]
      /\ q[Len(s) + 1] = x
  BY AppendProperties
<1> HIDE DEF q
<1>2. Len(s) \in Nat /\ DOMAIN s = 1..Len(s) /\ DOMAIN q = 1..(Len(s) + 1)
  BY <1>1
<1>3. ASSUME NEW i \in DOMAIN q
      PROVE  q[i] \in ToSet(s) \cup {x}
  <2>1. i \in 1..Len(s) \/ i = Len(s) + 1
    BY <1>2
  <2> QED BY <1>1, <1>2, <2>1 DEF ToSet
<1>4. ASSUME NEW i \in DOMAIN s
      PROVE  s[i] \in ToSet(q)
  <2>1. i \in DOMAIN q /\ q[i] = s[i]
    BY <1>1, <1>2
  <2> QED BY <2>1 DEF ToSet
<1>5. x \in ToSet(q)
  BY <1>1, <1>2 DEF ToSet
<1>6. ToSet(q) \subseteq ToSet(s) \cup {x}
  BY <1>3 DEF ToSet
<1>7. ToSet(s) \subseteq ToSet(q)
  BY <1>4 DEF ToSet
<1> QED BY <1>1, <1>5, <1>6, <1>7 DEF q

LEMMA MemberIs ==
  ASSUME NEW S, NEW s \in Seq(S), Len(s) = 1, NEW x \in S
  PROVE  Len(Append(s, x)) = 2 /\ Front(Append(s, x)) = s
<1> DEFINE q == Append(s, x)
           f == Front(q)
<1>1. q \in Seq(S) /\ Len(q) = 2 /\ q[1] = s[1]
  <2>1. q \in Seq(S) /\ Len(q) = Len(s) + 1
    OBVIOUS
  <2>2. \A i \in 1..Len(s) : q[i] = s[i]
    OBVIOUS
  <2> QED BY <2>1, <2>2
<1> HIDE DEF q
<1>2. f \in Seq(S) /\ Len(f) = 1 /\ f[1] = q[1]
  BY <1>1 DEF Front
<1> HIDE DEF f
<1>3. Len(f) = Len(s) /\ \A j \in 1..Len(f) : f[j] = s[j]
  BY <1>1, <1>2
<1>4. f = s
  BY <1>2, <1>3, SeqEqual
<1> QED BY <1>1, <1>4 DEF q, f

\* The members of a log, up to a point.
LEMMA KidsOfLog ==
  ASSUME NEW u \in Node, Len(u) = 1, width[u] \in Nat, NEW k \in 0..width[u]
  PROVE  LET s == SubSeq(Kids(u), 1, k)
         IN  /\ s \in Nodes /\ Len(s) = k
             /\ \A n \in ToSet(s) : Len(n) = 2 /\ Front(n) = u
             /\ k > 0 => ToSet(s) # {}
<1>1. /\ Kids(u) \in Nodes /\ Len(Kids(u)) = width[u] /\ \A i \in 1..width[u] : Kids(u)[i] = Append(u, i)
  BY KidsAre
<1> DEFINE g == Kids(u)
           s == SubSeq(g, 1, k)
<1>2. g \in Seq(Node) /\ Len(g) = width[u] /\ \A i \in 1..width[u] : g[i] = Append(u, i)
  BY <1>1 DEF Nodes
<1> HIDE DEF g
<1>3. s \in Seq(Node) /\ Len(s) = k /\ \A i \in 1..k : s[i] = g[i]
  <2>1. k <= Len(g) /\ k \in Int
    BY <1>2
  <2>2. s \in Seq(Node) /\ Len(s) = k
    BY <1>2, <2>1
  <2>3. \A i \in 1..k : s[i] = g[i]
    BY <1>2, <2>1
  <2> QED BY <2>2, <2>3
<1> HIDE DEF s
<1>4. ASSUME NEW i \in 1..width[u]
      PROVE  Len(Append(u, i)) = 2 /\ Front(Append(u, i)) = u
  <2>1. u \in Seq(Step) /\ i \in Step
    BY DEF Node, Step
  <2> QED BY <2>1, MemberIs
<1>5. DOMAIN s = 1..k
  BY <1>3
<1>6. \A n \in ToSet(s) : Len(n) = 2 /\ Front(n) = u
  <2>1. \A i \in 1..k : i \in 1..width[u]
    OBVIOUS
  <2>2. \A i \in 1..k : s[i] = Append(u, i)
    BY <1>2, <1>3, <2>1
  <2>3. \A i \in 1..k : Len(s[i]) = 2 /\ Front(s[i]) = u
    BY <1>4, <2>1, <2>2
  <2> QED BY <1>5, <2>3 DEF ToSet
<1>7. k > 0 => s[1] \in ToSet(s)
  BY <1>5 DEF ToSet
<1> QED BY <1>3, <1>6, <1>7 DEF s, g, Nodes

\* An entry is added to what was read.
LEMMA WithIs ==
  ASSUME NEW e \in Nat, NEW c \in CallType(e), NEW h \in Node
  PROVE  LET n == With(c, h)
         IN  /\ n \in CallType(e) /\ n.kind = c.kind /\ n.todo = c.todo /\ n.missed = c.missed
             /\ n.out = Append(c.out, h)
             /\ (n.pc = c.pc /\ n.result = c.result) \/ (n.pc = "returned" /\ n.result = "listed")
<1> DEFINE o == Append(c.out, h)
           d == [c EXCEPT !.out = o]
<1>1. o \in Nodes
  BY AppendSet DEF CallType, Nodes
<1>2. d \in CallType(e) /\ d.out = o /\ d.kind = c.kind /\ d.todo = c.todo /\ d.missed = c.missed
      /\ d.pc = c.pc /\ d.result = c.result
  <2> HIDE DEF o
  <2> QED BY <1>1 DEF CallType
<1>3. With(c, h) = IF AtLimit(d) THEN Ended(d, "listed") ELSE d
  BY DEF With
<1>4. "listed" \in Results
  BY DEF Results
<1> HIDE DEF d
<1>5. /\ Ended(d, "listed") \in CallType(e) /\ Ended(d, "listed").kind = d.kind
      /\ Ended(d, "listed").todo = d.todo /\ Ended(d, "listed").missed = d.missed
      /\ Ended(d, "listed").out = d.out
      /\ Ended(d, "listed").pc = "returned" /\ Ended(d, "listed").result = "listed"
  BY <1>2, <1>4, EndedIs
<1> HIDE DEF o
<1> QED BY <1>2, <1>3, <1>5 DEF o

\* A change of what is left and of what was read.
LEMMA LeftIs ==
  ASSUME NEW e \in Nat, NEW c \in CallType(e), NEW td \in Nodes
  PROVE  LET n == [c EXCEPT !.todo = td]
         IN  /\ n \in CallType(e) /\ n.kind = c.kind /\ n.todo = td /\ n.missed = c.missed /\ n.out = c.out
             /\ n.pc = c.pc /\ n.result = c.result /\ n.slot = c.slot /\ n.image = c.image
             /\ n.failed = c.failed /\ n.foreign = c.foreign /\ n.roots = c.roots
             /\ n.top = c.top /\ n.limit = c.limit
BY DEF CallType

\* A call that lists or reads a log goes on, or is over.
LEMMA ReadIs ==
  ASSUME OpsInv, NEW c \in CallType(epoch), c.pc = "walk", KindInv(c), c.todo # <<>>,
         c.kind \in {"list", "sel"}
  PROVE  LET h == Head(c.todo)
             n == Read(c, h)
         IN  /\ n \in CallType(epoch) /\ n.kind = c.kind /\ n.missed = c.missed
             /\ (n.pc = "walk" /\ n.result = "none") \/ (n.pc = "returned" /\ n.result = "listed")
             /\ h \notin DOMAIN width => n.todo = Tail(c.todo) /\ n.out = Append(c.out, h)
             /\ h \in DOMAIN width /\ IsLog(h) /\ width[h] = 0 =>
                  n.todo = Tail(c.todo) /\ n.out = c.out /\ n.pc = "walk"
             /\ h \in DOMAIN width /\ IsLog(h) /\ width[h] # 0 =>
                  \E k \in 1..width[h] :
                    \/ n.pc = "walk" /\ n.todo = SubSeq(Kids(h), 1, k) /\ n.out = c.out
                    \/ n.pc = "returned" /\ n.out = SubSeq(Kids(h), 1, k)
<1> DEFINE h == Head(c.todo)
           n == Read(c, h)
<1>1. epoch \in Nat /\ c.result = "none"
  BY DEF OpsInv, DeviceInv, KindInv
<1>2. h \in Node /\ Tail(c.todo) \in Nodes
  BY WalkTarget
<1>3. h \in DOMAIN width => width[h] \in Nat
  BY ShapeIs DEF OpsInv, DeviceInv
<1>4. h \in DOMAIN width => Kids(h) \in Nodes /\ Len(Kids(h)) = width[h]
  BY <1>2, <1>3, KidsAre
<1>5. CASE h \notin DOMAIN width
  <2> DEFINE td == Tail(c.todo)
             d  == [c EXCEPT !.todo = td]
  <2>2. n = With(d, h) /\ td \in Nodes
    BY <1>2, <1>5 DEF Read
  <2> HIDE DEF td, n, h
  <2>1. d \in CallType(epoch) /\ d.kind = c.kind /\ d.todo = td /\ d.missed = c.missed /\ d.out = c.out
        /\ d.pc = c.pc /\ d.result = c.result
    BY <1>1, <2>2, LeftIs
  <2> HIDE DEF d
  <2>3. /\ n \in CallType(epoch) /\ n.kind = d.kind /\ n.todo = d.todo /\ n.missed = d.missed
        /\ n.out = Append(d.out, h)
        /\ (n.pc = d.pc /\ n.result = d.result) \/ (n.pc = "returned" /\ n.result = "listed")
    BY <1>1, <1>2, <2>1, <2>2, WithIs
  <2> QED BY <1>1, <1>5, <2>1, <2>3 DEF n, h, td
<1>6. CASE h \in DOMAIN width /\ ~ IsLog(h)
  <2> DEFINE td == Kids(h) \o Tail(c.todo)
  <2>1. td \in Nodes
    BY <1>2, <1>4, <1>6, ConcatProperties DEF Nodes
  <2>2. n = [c EXCEPT !.todo = td]
    BY <1>6 DEF Read
  <2> HIDE DEF td, n, h
  <2>3. n \in CallType(epoch) /\ n.kind = c.kind /\ n.missed = c.missed /\ n.pc = c.pc /\ n.result = c.result
    BY <1>1, <2>1, <2>2, LeftIs
  <2> QED BY <1>1, <1>6, <2>3 DEF n, h
<1>7. CASE h \in DOMAIN width /\ IsLog(h) /\ width[h] = 0
  <2> DEFINE td == Tail(c.todo)
  <2>2. n = [c EXCEPT !.todo = td] /\ td \in Nodes
    BY <1>2, <1>7 DEF Read
  <2> HIDE DEF n, h, td
  <2>3. n \in CallType(epoch) /\ n.kind = c.kind /\ n.missed = c.missed /\ n.pc = c.pc /\ n.result = c.result
        /\ n.todo = td /\ n.out = c.out
    BY <1>1, <2>2, LeftIs
  <2> QED BY <1>1, <1>7, <2>3 DEF n, h, td
<1>8. CASE h \in DOMAIN width /\ IsLog(h) /\ width[h] # 0 /\ bmc.inline
  <2> DEFINE k == InlineCount(c, h)
             o == SubSeq(Kids(h), 1, k)
             d == [c EXCEPT !.out = o]
  <2>1. k \in 1..width[h]
    <3>1. c.limit \in Nat \cup {None} /\ width[h] \in Nat
      BY <1>3, <1>8 DEF CallType, Limit
    <3> QED BY <1>8, <3>1 DEF InlineCount
  <2>2. o \in Nodes
    <3>1. Len(h) = 1
      BY <1>8, LogsAre DEF IsLog
    <3>2. width[h] \in Nat /\ k \in 0..width[h]
      BY <1>3, <1>8, <2>1
    <3> QED BY <1>2, <3>1, <3>2, KidsOfLog
  <2>3. n = Ended(d, "listed")
    BY <1>8 DEF Read
  <2>4. d \in CallType(epoch) /\ d.out = o /\ d.kind = c.kind /\ d.missed = c.missed
    <3> HIDE DEF o
    <3> QED BY <1>1, <2>2 DEF CallType
  <2>5. "listed" \in Results
    BY DEF Results
  <2> HIDE DEF d, n, h, o, k
  <2>6. n \in CallType(epoch) /\ n.kind = d.kind /\ n.missed = d.missed /\ n.out = d.out /\ n.pc = "returned"
        /\ n.result = "listed"
    BY <1>1, <2>3, <2>4, <2>5, EndedIs
  <2>7. n.out = SubSeq(Kids(h), 1, k)
    BY <2>4, <2>6 DEF o
  <2> QED BY <1>8, <2>1, <2>4, <2>6, <2>7 DEF n, h
<1>9. CASE h \in DOMAIN width /\ IsLog(h) /\ width[h] # 0 /\ ~ bmc.inline
  <2>1. SubSeq(Kids(h), 1, width[h]) = Kids(h)
    BY <1>4, <1>9, SubSeqFull DEF Nodes
  <2>2. n = [c EXCEPT !.todo = Kids(h)] /\ Kids(h) \in Nodes
    BY <1>4, <1>9 DEF Read
  <2>3. width[h] \in 1..width[h]
    BY <1>3, <1>9
  <2> HIDE DEF n, h
  <2>4. n \in CallType(epoch) /\ n.kind = c.kind /\ n.missed = c.missed /\ n.pc = c.pc /\ n.result = c.result
        /\ n.todo = Kids(h) /\ n.out = c.out
    BY <1>1, <2>2, LeftIs
  <2> QED BY <1>1, <1>9, <2>1, <2>3, <2>4 DEF n, h
<1> QED BY <1>5, <1>6, <1>7, <1>8, <1>9

LEMMA ReadOK ==
  ASSUME OpsInv, NEW c \in CallType(epoch), c.pc = "walk", KindInv(c), c.todo # <<>>, c.kind \in {"list", "sel"}
  PROVE  Read(c, Head(c.todo)) \in CallType(epoch) /\ KindInv(Read(c, Head(c.todo)))
<1> DEFINE h == Head(c.todo)
           n == Read(c, h)
<1>1. /\ n \in CallType(epoch) /\ n.kind = c.kind /\ n.missed = c.missed
      /\ (n.pc = "walk" /\ n.result = "none") \/ (n.pc = "returned" /\ n.result = "listed")
      /\ h \notin DOMAIN width => n.todo = Tail(c.todo) /\ n.out = Append(c.out, h)
      /\ h \in DOMAIN width /\ IsLog(h) /\ width[h] = 0 =>
           n.todo = Tail(c.todo) /\ n.out = c.out /\ n.pc = "walk"
      /\ h \in DOMAIN width /\ IsLog(h) /\ width[h] # 0 =>
           \E k \in 1..width[h] :
             \/ n.pc = "walk" /\ n.todo = SubSeq(Kids(h), 1, k) /\ n.out = c.out
             \/ n.pc = "returned" /\ n.out = SubSeq(Kids(h), 1, k)
  BY ReadIs
<1>2. h \in Node /\ Tail(c.todo) \in Nodes /\ ToSet(c.todo) = {h} \cup ToSet(Tail(c.todo))
  BY WalkTarget
<1> SUFFICES KindInv(n)
  BY <1>1
<1> HIDE DEF n, h
<1>3. CASE c.kind = "list"
  BY <1>1, <1>3 DEF KindInv, ListInv
<1>4. ASSUME c.kind = "sel", NEW u \in Logs, OfLog(c, u)
      PROVE  OfLog(n, u)
  <2>1. h \in Entries(c)
    BY <1>2 DEF Entries
  <2>2. h \notin Logs /\ h \notin DOMAIN width
    BY <1>4, <2>1, EntryIsNoLog
  <2>3. ToSet(Append(c.out, h)) = ToSet(c.out) \cup {h}
    BY <1>2, AppendSet DEF CallType, Nodes
  <2>4. Entries(n) \subseteq Entries(c) /\ h \in Entries(n)
    BY <1>1, <1>2, <2>2, <2>3 DEF Entries
  <2> QED BY <1>1, <1>4, <2>4, OfLogOn
<1>5. ASSUME c.kind = "sel", Choosing(c)
      PROVE  (Choosing(n) /\ n.pc = "walk") \/ (OfLog(n, h) /\ h \in Logs)
  <2>1. h \in Logs /\ ToSet(c.todo) = {h} \cup ToSet(Tail(c.todo)) /\ \A l \in ToSet(c.todo) : ~ (Pos(l) < Pos(h))
    BY <1>5, LogTail DEF Choosing, h
  <2>2. h \in DOMAIN width /\ IsLog(h) /\ Len(h) = 1 /\ width[h] \in Nat
    BY <2>1, LogsAre, ShapeIs DEF IsLog, OpsInv, DeviceInv
  <2>3. CASE width[h] = 0
    <3>1. n.todo = Tail(c.todo) /\ n.out = c.out /\ n.pc = "walk" /\ n.kind = c.kind /\ n.missed = c.missed
      BY <1>1, <2>2, <2>3
    <3>2. Useless(n, h)
      BY <1>5, <2>3, <3>1 DEF Useless
    <3> QED BY <1>5, <3>1, <3>2, ChoosingOn DEF h
  <2>4. CASE width[h] # 0
    <3>1. PICK k \in 1..width[h] :
             \/ n.pc = "walk" /\ n.todo = SubSeq(Kids(h), 1, k) /\ n.out = c.out
             \/ n.pc = "returned" /\ n.out = SubSeq(Kids(h), 1, k)
      BY <1>1, <2>2, <2>4
    <3> DEFINE s == SubSeq(Kids(h), 1, k)
    <3>2. s \in Nodes /\ ToSet(s) # {} /\ \A m \in ToSet(s) : Len(m) = 2 /\ Front(m) = h
      <4>1. k \in 0..width[h] /\ k > 0
        BY <2>2
      <4> QED BY <1>2, <2>2, <4>1, KidsOfLog
    <3>3. c.out = <<>> /\ ToSet(<<>>) = {} /\ c.missed \ Logs = {}
      BY <1>5, ShortSets DEF Choosing
    <3>4. Entries(n) = ToSet(s)
      BY <1>1, <3>1, <3>3 DEF Entries
    <3> HIDE DEF s
    <3>5. \A l \in Logs : Pos(l) < Pos(h) => Useless(n, l)
      BY <1>1, <1>5, <2>1 DEF Choosing, Useless
    <3> QED BY <2>1, <3>2, <3>4, <3>5 DEF OfLog
  <2> QED BY <2>3, <2>4
<1>6. CASE c.kind = "sel"
  <2>1. Choosing(c) \/ \E u \in Logs : OfLog(c, u)
    BY <1>6 DEF KindInv, SelInv
  <2>2. (Choosing(n) /\ n.pc = "walk") \/ \E u \in Logs : OfLog(n, u)
    BY <1>4, <1>5, <1>6, <2>1
  <2>3. SelInv(n)
    BY <1>1, <2>2 DEF SelInv
  <2> QED BY <1>1, <1>6, <2>3 DEF KindInv
<1> QED BY <1>3, <1>6

LEMMA ReadNextKeeps ==
  ASSUME OpsInv, NEW t \in Tasks, ReadNext(t)
  PROVE  OpsInv'
<1> PICK c : c = call[t]
  OBVIOUS
<1>1. epoch \in Nat /\ c \in CallType(epoch) /\ KindInv(c) /\ DeviceInv
  BY CallIs DEF OpsInv
<1>2. c.pc = "walk" /\ c.kind \in {"list", "sel"} /\ c.todo # <<>>
  BY DEF ReadNext, Walking
<1> DEFINE n == Read(c, Head(c.todo))
<1>3. n \in CallType(epoch) /\ KindInv(n)
  BY <1>1, <1>2, ReadOK
<1>4. Become(t, n) /\ UNCHANGED <<device, mounted, cache, faults>>
  BY DEF ReadNext, Target
<1> HIDE DEF n
<1> QED BY <1>1, <1>3, <1>4, SameDevice, StepKeeps

LEMMA SkipKeeps ==
  ASSUME OpsInv, NEW t \in Tasks, Skip(t)
  PROVE  OpsInv'
<1> PICK c : c = call[t]
  OBVIOUS
<1>1. epoch \in Nat /\ c \in CallType(epoch) /\ KindInv(c) /\ DeviceInv
  BY CallIs DEF OpsInv
<1>2. c.pc = "walk" /\ c.kind \in {"list", "sel", "clear"} /\ c.todo # <<>> /\ c.result = "none"
  BY <1>1 DEF Skip, Walking, KindInv
<1> DEFINE h  == Head(c.todo)
           td == Tail(c.todo)
           ms == c.missed \cup {h}
           n  == [c EXCEPT !.todo = td, !.missed = ms]
<1>3. h \in Node /\ td \in Nodes /\ ToSet(c.todo) = {h} \cup ToSet(td)
  BY <1>1, <1>2, WalkTarget
<1>4. ms \in Missed
  BY <1>1, <1>3 DEF CallType, Missed
<1>5. Become(t, n) /\ DeviceInv' /\ UNCHANGED <<bmc, width, epoch, mounted>>
  BY <1>1, FaultKeeps DEF Skip, Target
<1> HIDE DEF td, ms, h
<1>6. n \in CallType(epoch) /\ n.kind = c.kind /\ n.todo = td /\ n.missed = ms /\ n.out = c.out /\ n.pc = c.pc
      /\ n.result = c.result
  BY <1>1, <1>3, <1>4 DEF CallType
<1> HIDE DEF n
<1>7. ASSUME c.kind \in {"sel", "clear"}, Choosing(c)
      PROVE  Choosing(n)
  <2>1. n.missed = c.missed \cup {Head(c.todo)} /\ n.todo = Tail(c.todo) /\ Useless(n, Head(c.todo))
    BY <1>6 DEF ms, td, h, Useless
  <2> QED BY <1>2, <1>6, <1>7, <2>1, ChoosingOn
<1>8. ASSUME c.kind = "sel", NEW u \in Logs, OfLog(c, u)
      PROVE  OfLog(n, u)
  <2>1. h \in Entries(c)
    BY <1>2, <1>3 DEF Entries
  <2>2. h \notin Logs
    BY <1>8, <2>1, EntryIsNoLog
  <2>3. Entries(n) \subseteq Entries(c) /\ h \in Entries(n)
    BY <1>2, <1>3, <1>6, <2>2 DEF Entries, ms
  <2> QED BY <1>6, <1>8, <2>3, OfLogOn DEF ms
<1>9. KindInv(n)
  <2>1. CASE c.kind = "list"
    BY <1>2, <1>6, <2>1 DEF KindInv, ListInv
  <2>2. CASE c.kind = "sel"
    <3>1. Choosing(n) \/ \E u \in Logs : OfLog(n, u)
      BY <1>1, <1>2, <1>7, <1>8, <2>2 DEF KindInv, SelInv
    <3>2. SelInv(n)
      BY <1>2, <1>6, <3>1 DEF SelInv
    <3> QED BY <1>2, <1>6, <2>2, <3>2 DEF KindInv
  <2>3. CASE c.kind = "clear"
    <3>1. Choosing(n)
      BY <1>1, <1>2, <1>7, <2>3 DEF KindInv, ClearInv
    <3>2. ClearInv(n)
      BY <1>2, <1>6, <3>1 DEF ClearInv
    <3> QED BY <1>2, <1>6, <2>3, <3>2 DEF KindInv
  <2> QED BY <1>2, <2>1, <2>2, <2>3
<1> QED BY <1>5, <1>6, <1>9, StepKeeps

LEMMA WalkRaisesKeeps ==
  ASSUME OpsInv, NEW t \in Tasks, WalkRaises(t)
  PROVE  OpsInv'
<1>1. DeviceInv' /\ UNCHANGED <<bmc, width, epoch, mounted>>
  BY FaultKeeps DEF WalkRaises, OpsInv
<1>2. PICK r \in {"RedfishError", "HTTPError"} : Become(t, Ended(call[t], r))
  BY DEF WalkRaises, Errors
<1> QED BY <1>1, <1>2, RaiseKeeps

LEMMA WalkEndsKeeps ==
  ASSUME OpsInv, NEW t \in Tasks, WalkEnds(t)
  PROVE  OpsInv'
<1> PICK c : c = call[t]
  OBVIOUS
<1>1. epoch \in Nat /\ c \in CallType(epoch) /\ KindInv(c) /\ DeviceInv
  BY CallIs DEF OpsInv
<1>2. c.pc = "walk" /\ c.todo = <<>> /\ DeviceInv' /\ UNCHANGED <<bmc, width, epoch, mounted>>
  BY <1>1, SameDevice DEF WalkEnds
<1>3. <<>> # <<Media>>
  OBVIOUS
<1>4. c.kind # "insert"
  BY <1>1, <1>2, <1>3 DEF KindInv, InsertInv
<1>5. CASE c.kind \in {"list", "sel", "eject"}
  <2> DEFINE r == IF c.kind = "eject" THEN "ejected" ELSE "listed"
             n == Ended(c, r)
  <2>1. Become(t, n) /\ r \in Results /\ r \notin {"none", "RedfishError", "HTTPError"}
    BY <1>5 DEF WalkEnds, Results
  <2> HIDE DEF r
  <2>2. /\ n \in CallType(epoch) /\ n.pc = "returned" /\ n.result = r /\ n.kind = c.kind
        /\ n.todo = c.todo /\ n.out = c.out /\ n.missed = c.missed /\ n.failed = c.failed /\ n.foreign = c.foreign
    BY <1>1, <2>1, EndedIs
  <2> HIDE DEF n
  <2>3. KindInv(n)
    <3>1. CASE c.kind = "list"
      BY <2>2, <3>1 DEF KindInv, ListInv, r
    <3>2. CASE c.kind = "sel"
      <4>1. Choosing(c) \/ \E u \in Logs : OfLog(c, u)
        BY <1>1, <1>2, <3>2 DEF KindInv, SelInv
      <4>2. Choosing(c) => Choosing(n) /\ n.todo = <<>>
        BY <1>2, <2>2 DEF Choosing, Useless
      <4>3. Entries(n) = Entries(c)
        <5>1. ToSet(c.todo) = {}
          BY <1>2, ShortSets
        <5> QED BY <2>2, <5>1 DEF Entries
      <4>4. ASSUME NEW u \in Logs, OfLog(c, u)
            PROVE  OfLog(n, u)
        <5>1. Entries(n) # {}
          BY <4>3, <4>4 DEF OfLog
        <5> QED BY <2>2, <4>3, <4>4, <5>1, OfLogOn
      <4>5. SelInv(n)
        BY <2>2, <3>2, <4>1, <4>2, <4>4 DEF SelInv, r
      <4> QED BY <2>1, <2>2, <3>2, <4>5 DEF KindInv
    <3>3. CASE c.kind = "eject"
      <4>1. SlotsLeft(c.todo) /\ Emptied(c, Before(c.todo))
        BY <1>1, <1>2, <1>3, <3>3 DEF KindInv, EjectInv
      <4>2. Before(c.todo) = Slots
        <5>1. Len(c.todo) = 0 /\ Shape[Media] \in Nat
          BY <1>2, LogsAre
        <5> QED BY <5>1 DEF Before, Slots
      <4>3. Emptied(n, Slots)
        BY <2>2, <4>1, <4>2 DEF Emptied
      <4>4. EjectInv(n)
        BY <2>2, <3>3, <4>3 DEF EjectInv, r
      <4> QED BY <2>1, <2>2, <3>3, <4>4 DEF KindInv
    <3> QED BY <1>5, <3>1, <3>2, <3>3
  <2> QED BY <1>2, <2>1, <2>2, <2>3, StepKeeps
<1>6. CASE c.kind = "clear"
  <2>1. Become(t, Ended(call[t], "RedfishError"))
    BY <1>6 DEF WalkEnds
  <2> QED BY <1>2, <2>1, RaiseKeeps
<1> QED BY <1>1, <1>4, <1>5, <1>6 DEF CallType, Kinds

-----------------------------------------------------------------------------
(***************************************************************************)
(* clear_sel.                                                              *)
(***************************************************************************)
LEMMA FindsLogKeeps ==
  ASSUME OpsInv, NEW t \in Tasks, FindsLog(t)
  PROVE  OpsInv'
<1> PICK c : c = call[t]
  OBVIOUS
<1>1. epoch \in Nat /\ c \in CallType(epoch) /\ KindInv(c) /\ DeviceInv
  BY CallIs DEF OpsInv
<1>2. c.pc = "walk" /\ c.kind = "clear" /\ c.todo # <<>> /\ c.result = "none"
  BY <1>1 DEF FindsLog, Walking, KindInv
<1>3. DeviceInv' /\ UNCHANGED <<bmc, width, epoch, mounted>>
  BY <1>1, SameDevice DEF FindsLog
<1>4. Choosing(c)
  BY <1>1, <1>2 DEF KindInv, ClearInv
<1> DEFINE h == Head(c.todo)
<1>5. CASE h \in bmc.clearable
  <2> DEFINE n == [c EXCEPT !.pc = "clear"]
  <2>1. Become(t, n)
    BY <1>5 DEF FindsLog, Target
  <2>2. n \in CallType(epoch) /\ n.kind = "clear" /\ n.pc = "clear" /\ n.result = "none" /\ n.todo = c.todo
        /\ n.missed = c.missed /\ n.out = c.out
    <3>1. "clear" \in Pcs
      BY DEF Pcs
    <3> QED BY <1>1, <1>2, <3>1 DEF CallType
  <2> HIDE DEF n
  <2>3. Choosing(n)
    BY <1>2, <1>4, <2>2 DEF Choosing, Useless
  <2>4. ClearInv(n)
    BY <1>2, <1>5, <2>2, <2>3 DEF ClearInv
  <2>5. KindInv(n)
    BY <2>2, <2>4 DEF KindInv
  <2> QED BY <1>3, <2>1, <2>2, <2>5, StepKeeps
<1>6. CASE h \notin bmc.clearable
  <2> DEFINE td == Tail(c.todo)
             n  == [c EXCEPT !.todo = td]
  <2>1. Become(t, n) /\ td \in Nodes
    BY <1>1, <1>2, <1>6, WalkTarget DEF FindsLog, Target
  <2> HIDE DEF td
  <2>2. n \in CallType(epoch) /\ n.kind = "clear" /\ n.pc = "walk" /\ n.result = "none" /\ n.todo = td
        /\ n.missed = c.missed /\ n.out = c.out
    BY <1>1, <1>2, <2>1, LeftIs
  <2> HIDE DEF n
  <2>3. Useless(n, Head(c.todo)) /\ n.todo = Tail(c.todo)
    BY <1>6, <2>2 DEF Useless, td
  <2>4. Choosing(n)
    BY <1>2, <1>4, <2>2, <2>3, ChoosingOn
  <2>5. ClearInv(n)
    BY <2>2, <2>4 DEF ClearInv
  <2>6. KindInv(n)
    BY <2>2, <2>5 DEF KindInv
  <2> QED BY <1>3, <2>1, <2>2, <2>6, StepKeeps
<1> QED BY <1>5, <1>6

\* A step of task t that empties a log, and leaves the slots alone.
LEMMA EmptyKeeps ==
  ASSUME OpsInv, DeviceInv', UNCHANGED <<bmc, epoch, mounted>>, \A l \in Logs : width[l] = 0 => width'[l] = 0,
         NEW t \in Tasks, NEW n \in CallType(epoch), Become(t, n), KindInv(n)'
  PROVE  OpsInv'
<1>1. call' = [call EXCEPT ![t] = n] /\ call \in [Tasks -> CallType(epoch)]
  BY DEF Become, OpsInv
<1>2. call' \in [Tasks -> CallType(epoch')]
  BY <1>1
<1>3. ASSUME NEW m, KindInv(m)
      PROVE  KindInv(m)'
  <2>1. \A l \in Logs : Useless(m, l) => Useless(m, l)'
    BY DEF Useless
  <2>2. {<<"Sel">>, <<"Log">>} \subseteq Logs
    BY DEF Logs
  <2>3. Choosing(m) => Choosing(m)'
    BY <2>1 DEF Choosing
  <2>4. Looking(m) => Looking(m)'
    BY <2>1, <2>2 DEF Looking
  <2>5. \A u \in Logs : OfLog(m, u) => OfLog(m, u)'
    BY <2>1 DEF OfLog, Entries
  <2>6. m.todo \in LogTodos /\ m.todo # <<>> => Head(m.todo) \in Logs
    BY LogTail
  <2>7. m.kind = "clear" => ClearInv(m)'
    BY <1>3, <2>3, <2>4, <2>6 DEF KindInv, ClearInv, Choosing
  <2>8. m.kind = "sel" => SelInv(m)'
    BY <1>3, <2>3, <2>4, <2>5 DEF KindInv, SelInv
  <2>9. m.kind = "insert" => InsertInv(m)'
    BY <1>3 DEF KindInv, InsertInv, Chosen, Before, SlotsLeft
  <2>10. m.kind = "eject" => EjectInv(m)'
    BY <1>3 DEF KindInv, EjectInv, Emptied, Before, SlotsLeft
  <2> QED BY <1>3, <2>7, <2>8, <2>9, <2>10 DEF KindInv, ListInv
<1>4. ASSUME NEW u \in Tasks
      PROVE  KindInv(call[u])'
  <2>1. PICK m : m = call'[u]
    OBVIOUS
  <2>2. CASE u = t
    BY <1>1, <2>1, <2>2
  <2>3. CASE u # t
    <3>1. KindInv(m)
      BY <1>1, <2>1, <2>3 DEF OpsInv
    <3>2. KindInv(m)'
      BY <1>3, <3>1
    <3> QED BY <2>1, <3>2
  <2> QED BY <2>2, <2>3
<1> QED BY <1>2, <1>4 DEF OpsInv

LEMMA ClearLogKeeps ==
  ASSUME OpsInv, NEW t \in Tasks, ClearLog(t)
  PROVE  OpsInv'
<1> PICK c : c = call[t]
  OBVIOUS
<1>1. epoch \in Nat /\ c \in CallType(epoch) /\ KindInv(c) /\ DeviceInv
  BY CallIs DEF OpsInv
<1>2. c.pc = "clear" /\ UNCHANGED <<bmc, epoch, mounted, cache>> /\ (Fault \/ UNCHANGED faults)
  BY DEF ClearLog
<1>3. c.kind = "clear" /\ Choosing(c) /\ c.todo # <<>> /\ Head(c.todo) \in bmc.clearable
  <2>1. c.kind = "clear"
    BY <1>1, <1>2 DEF KindInv, InsertInv, EjectInv, SelInv, ListInv, CallType, Kinds
  <2> QED BY <1>1, <1>2, <2>1 DEF KindInv, ClearInv
<1> DEFINE h == Head(c.todo)
<1>4. h \in Logs /\ h # Media /\ h \in DOMAIN width
  BY <1>1, <1>3, LogTail, LogsAre DEF Choosing, DeviceInv
<1>5. CASE Become(t, Ended(c, "RedfishError")) /\ UNCHANGED width
  <2>1. DeviceInv' /\ UNCHANGED <<bmc, width, epoch, mounted>>
    BY <1>1, <1>2, <1>5, OpsAssumption DEF DeviceInv, Fault
  <2> QED BY <1>5, <2>1, RaiseKeeps
<1>6. ASSUME width' = [width EXCEPT ![h] = 0], NEW r \in {"cleared", "HTTPError"}, Become(t, Ended(c, r))
      PROVE  OpsInv'
  <2>1. DeviceInv'
    BY <1>1, <1>2, <1>4, <1>6, OpsAssumption DEF DeviceInv, Fault
  <2>2. width'[h] = 0 /\ \A l \in Logs : width[l] = 0 => width'[l] = 0
    BY <1>1, <1>4, <1>6, LogsAre DEF DeviceInv
  <2> DEFINE n == Ended(c, r)
  <2>3. r \in Results /\ r # "none"
    BY DEF Results
  <2>4. /\ n \in CallType(epoch) /\ n.pc = "returned" /\ n.result = r /\ n.kind = "clear"
        /\ r = "cleared" => n.todo = c.todo /\ n.out = c.out /\ n.missed = c.missed
    BY <1>1, <1>3, <2>3, EndedIs
  <2>5. Become(t, n)
    BY <1>6
  <2> HIDE DEF n
  <2>6. ClearInv(n)'
    <3>1. CASE r = "HTTPError"
      BY <2>4, <3>1 DEF ClearInv
    <3>2. CASE r = "cleared"
      <4>1. Choosing(n)'
        BY <1>2, <1>3, <2>4, <3>2 DEF Choosing, Useless
      <4> QED BY <1>2, <1>3, <2>2, <2>4, <3>2, <4>1 DEF ClearInv
    <3> QED BY <3>1, <3>2
  <2>7. KindInv(n)'
    BY <2>3, <2>4, <2>6 DEF KindInv
  <2> QED BY <1>2, <2>1, <2>2, <2>4, <2>5, <2>7, EmptyKeeps
<1>7. \/ Become(t, Ended(c, "RedfishError")) /\ UNCHANGED width
      \/ /\ width' = [width EXCEPT ![h] = 0]
         /\ Become(t, Ended(c, "cleared")) \/ Become(t, Ended(c, "HTTPError"))
  BY DEF ClearLog, Target
<1> QED BY <1>5, <1>6, <1>7

-----------------------------------------------------------------------------
(***************************************************************************)
(* The virtual media.                                                      *)
(***************************************************************************)
\* The slot with number k.
SlotOf(k) == <<"VirtualMedia", k>>

LEMMA SlotOfIs ==
  ASSUME NEW k \in Int
  PROVE  /\ SlotOf(k) = Append(Media, k) /\ Len(SlotOf(k)) = 2 /\ Last(SlotOf(k)) = k /\ SlotOf(k) # Media
<1>1. SlotOf(k) = Append(Media, k)
  BY DEF SlotOf, Media
<1>2. Len(SlotOf(k)) = 2 /\ SlotOf(k)[2] = k
  BY DEF SlotOf
<1>3. Len(Media) = 1
  BY DEF Media
<1> QED BY <1>1, <1>2, <1>3 DEF Last

\* Of the slots that are left.
LEMMA SlotsTail ==
  ASSUME NEW s \in Nodes, SlotsLeft(s), s # <<>>
  PROVE  LET k == Shape[Media] - Len(s) + 1
         IN  /\ k \in Slots /\ k \notin Before(s) /\ Last(Head(s)) = k /\ Head(s) # Media
             /\ SlotsLeft(Tail(s)) /\ Len(Tail(s)) = Len(s) - 1 /\ Before(Tail(s)) = Before(s) \cup {k}
             /\ Shape[Media] \in Nat /\ Len(s) \in 1..Shape[Media]
<1> DEFINE w == Shape[Media]
           q == Tail(s)
           k == w - Len(s) + 1
<1>1. w \in Nat
  BY LogsAre
<1>2. /\ Head(s) = s[1] /\ Len(s) \in Nat \ {0} /\ q \in Seq(Node) /\ Len(q) = Len(s) - 1
      /\ \A j \in 1..(Len(s) - 1) : q[j] = s[j + 1]
  BY TailIs DEF Nodes
<1>3. Len(s) <= w /\ \A j \in 1..Len(s) : s[j] = SlotOf(w - Len(s) + j)
  BY DEF SlotsLeft, SlotOf
<1> HIDE DEF w, q
<1>4. k \in 1..w /\ k \notin 1..(w - Len(s)) /\ Len(s) \in 1..w
  BY <1>1, <1>2, <1>3
<1>5. Head(s) = SlotOf(k)
  BY <1>2, <1>3
<1>6. Last(Head(s)) = k /\ Head(s) # Media
  BY <1>4, <1>5, SlotOfIs
<1>7. ASSUME NEW j \in 1..Len(q)
      PROVE  q[j] = SlotOf(w - Len(q) + j)
  <2>1. j + 1 \in 1..Len(s) /\ q[j] = s[j + 1]
    BY <1>2
  <2>2. w - Len(s) + (j + 1) = w - Len(q) + j
    BY <1>1, <1>2
  <2> QED BY <1>3, <2>1, <2>2
<1>8. SlotsLeft(q)
  BY <1>1, <1>2, <1>3, <1>7 DEF SlotsLeft, SlotOf, w
<1>9. 1..(w - Len(q)) = 1..(w - Len(s)) \cup {k}
  BY <1>1, <1>2, <1>3
<1> QED BY <1>1, <1>2, <1>4, <1>6, <1>8, <1>9 DEF w, q, Slots, Before

LEMMA SlotsBegin ==
  ASSUME OpsInv
  PROVE  Kids(Media) \in Nodes /\ SlotsLeft(Kids(Media)) /\ Len(Kids(Media)) = Shape[Media]
         /\ Before(Kids(Media)) = {} /\ (width[Media] # 0 => Kids(Media) # <<>>)
<1>1. width[Media] = Shape[Media] /\ Shape[Media] \in Nat
  BY LogsAre DEF OpsInv, DeviceInv
<1>2. Media \in Node
  <2>1. "VirtualMedia" \in Step
    BY DEF Step, RootOf
  <2> QED BY <2>1, StepIsNode DEF Media
<1> DEFINE g == Kids(Media)
           w == Shape[Media]
<1>3. g \in Nodes /\ Len(g) = w /\ \A i \in 1..w : g[i] = SlotOf(i)
  <2>1. Kids(Media) \in Nodes /\ Len(Kids(Media)) = width[Media]
        /\ \A i \in 1..width[Media] : Kids(Media)[i] = Append(Media, i)
    BY <1>1, <1>2, KidsAre
  <2>2. \A i \in 1..w : SlotOf(i) = Append(Media, i)
    BY <1>1, SlotOfIs
  <2> HIDE DEF g
  <2> QED BY <1>1, <2>1, <2>2 DEF g
<1> HIDE DEF g
<1>4. \A j \in 1..Len(g) : g[j] = <<"VirtualMedia", w - Len(g) + j>>
  <2>1. \A j \in 1..w : w - w + j = j
    BY <1>1
  <2> QED BY <1>3, <2>1 DEF SlotOf
<1>5. SlotsLeft(g)
  BY <1>1, <1>3, <1>4 DEF SlotsLeft
<1>6. Before(g) = {}
  BY <1>1, <1>3 DEF Before
<1>7. width[Media] # 0 => g # <<>>
  BY <1>1, <1>3
<1> QED BY <1>3, <1>5, <1>6, <1>7 DEF g

\* Of a call for the media that is walking.
LEMMA MediaWalk ==
  ASSUME OpsInv, NEW t \in Tasks, NEW k, Walking(t, {k}), k \in {"insert", "eject"}
  PROVE  LET c == call[t]
         IN  /\ c \in CallType(epoch) /\ KindInv(c) /\ epoch \in Nat /\ DeviceInv
             /\ c.pc = "walk" /\ c.kind = k /\ c.todo # <<>> /\ c.result = "none" /\ c.todo \in Nodes
             /\ Target(t) = Head(c.todo)
             /\ Target(t) # Media => c.todo # <<Media>>
<1> PICK c : c = call[t]
  OBVIOUS
<1>1. c \in CallType(epoch) /\ KindInv(c) /\ epoch \in Nat /\ DeviceInv
  BY CallIs DEF OpsInv
<1>2. c.pc = "walk" /\ c.kind = k /\ c.todo # <<>> /\ c.result = "none" /\ c.todo \in Nodes
  BY <1>1 DEF Walking, KindInv, CallType
<1>3. Target(t) = Head(c.todo)
  BY DEF Target
<1>4. c.todo = <<Media>> => Head(c.todo) = Media
  BY ShortTails
<1> QED BY <1>1, <1>2, <1>3, <1>4

\* The manager is found, and its slots are asked for next.
LEMMA FindManagerKeeps ==
  ASSUME OpsInv, NEW t \in Tasks, FindManager(t)
  PROVE  OpsInv'
<1> PICK c : c = call[t]
  OBVIOUS
<1>1. epoch \in Nat /\ c \in CallType(epoch) /\ KindInv(c) /\ DeviceInv
  BY CallIs DEF OpsInv
<1>2. c.pc = "managers" /\ DeviceInv' /\ UNCHANGED <<bmc, width, epoch, mounted>>
  BY <1>1, SameDevice DEF FindManager
<1>3. c.kind \in {"insert", "eject"} /\ c.result = "none" /\ c.todo = <<Media>>
      /\ (c.kind = "insert" => c.slot = 0)
  BY <1>1, <1>2 DEF KindInv, InsertInv, EjectInv, SelInv, ClearInv, ListInv, CallType, Kinds
<1> DEFINE ps == [c.path EXCEPT !["manager"] = epoch]
           n  == [c EXCEPT !.pc = "walk", !.path = ps]
<1>4. ps \in Paths(epoch) /\ "walk" \in Pcs
  <2>1. c.path \in Paths(epoch)
    BY <1>1 DEF CallType
  <2>2. epoch \in Epochs(epoch) /\ "manager" \in Roots
    BY <1>1 DEF Epochs, Roots
  <2>3. ps \in Paths(epoch)
    BY <2>1, <2>2 DEF Paths
  <2> QED BY <2>3 DEF Pcs
<1>5. Become(t, n)
  BY DEF FindManager
<1> HIDE DEF ps
<1>6. n \in CallType(epoch)
  BY <1>1, <1>4 DEF CallType
<1>7. n.kind = c.kind /\ n.pc = "walk" /\ n.todo = c.todo /\ n.slot = c.slot /\ n.result = c.result
  BY <1>1 DEF CallType
<1> HIDE DEF n
<1>8. KindInv(n)
  BY <1>3, <1>7 DEF KindInv, InsertInv, EjectInv
<1> QED BY <1>2, <1>5, <1>6, <1>8, StepKeeps

LEMMA MediaGoneKeeps ==
  ASSUME OpsInv, NEW t \in Tasks, MediaGone(t)
  PROVE  OpsInv'
<1>1. DeviceInv' /\ UNCHANGED <<bmc, width, epoch, mounted>>
  BY SameDevice DEF MediaGone, OpsInv
<1> QED BY <1>1, RaiseKeeps DEF MediaGone

LEMMA ReadMediaKeeps ==
  ASSUME OpsInv, NEW t \in Tasks, ReadMedia(t)
  PROVE  OpsInv'
<1> PICK c : c = call[t]
  OBVIOUS
<1>1. PICK k \in {"insert", "eject"} : Walking(t, {k})
  BY DEF ReadMedia, Walking
<1>2. /\ c \in CallType(epoch) /\ KindInv(c) /\ epoch \in Nat /\ DeviceInv
      /\ c.pc = "walk" /\ c.kind = k /\ c.todo # <<>> /\ c.result = "none" /\ c.todo \in Nodes
      /\ Head(c.todo) = Media
  BY <1>1, MediaWalk DEF ReadMedia
<1>3. DeviceInv' /\ UNCHANGED <<bmc, width, epoch, mounted>>
  BY <1>2, SameDevice DEF ReadMedia
<1>4. ~ SlotsLeft(c.todo)
  BY <1>2, SlotsTail
<1>5. CASE width[Media] = 0
  BY <1>3, <1>5, RaiseKeeps DEF ReadMedia
<1>6. CASE width[Media] # 0
  <2> DEFINE td == Kids(Media)
             n  == [c EXCEPT !.todo = td]
  <2>1. td \in Nodes /\ SlotsLeft(td) /\ Len(td) = Shape[Media] /\ Before(td) = {} /\ td # <<>>
    BY <1>6, SlotsBegin
  <2>2. Become(t, n)
    BY <1>6 DEF ReadMedia
  <2> HIDE DEF td
  <2>3. n \in CallType(epoch) /\ n.kind = c.kind /\ n.todo = td /\ n.pc = c.pc /\ n.result = c.result /\ n.slot = c.slot
    BY <1>2, <2>1, LeftIs
  <2> HIDE DEF n
  <2>4. KindInv(n)
    <3>1. CASE k = "insert"
      <4>1. c.slot = 0
        BY <1>2, <1>4, <3>1 DEF KindInv, InsertInv
      <4>2. InsertInv(n)
        BY <1>2, <2>1, <2>3, <4>1 DEF InsertInv
      <4> QED BY <1>2, <2>3, <3>1, <4>2 DEF KindInv
    <3>2. CASE k = "eject"
      <4>1. EjectInv(n)
        BY <1>2, <2>1, <2>3 DEF EjectInv, Emptied
      <4> QED BY <1>2, <2>3, <3>2, <4>1 DEF KindInv
    <3> QED BY <3>1, <3>2
  <2> QED BY <1>3, <2>2, <2>3, <2>4, StepKeeps
<1> QED BY <1>5, <1>6

\* A slot is chosen for the media.
LEMMA ChooseIs ==
  ASSUME NEW e \in Nat, NEW c \in CallType(e), NEW i \in Slots, NEW b \in BOOLEAN
  PROVE  LET n == Choose(c, i, b)
         IN  n \in CallType(e) /\ n.kind = c.kind /\ n.result = c.result /\ n.slot = i
             /\ n.pc \in {"preEject", "insert"}
<1> DEFINE pc == IF b THEN "preEject" ELSE "insert"
           td == <<>>
<1>1. pc \in {"preEject", "insert"} /\ {"preEject", "insert"} \subseteq Pcs /\ td \in Nodes /\ i \in Slot
  BY DEF Pcs, Nodes, Slot
<1>2. Choose(c, i, b) = [c EXCEPT !.slot = i, !.busy = b, !.todo = td, !.pc = pc]
  BY DEF Choose
<1> HIDE DEF pc, td
<1> DEFINE n == [c EXCEPT !.slot = i, !.busy = b, !.todo = td, !.pc = pc]
<1>3. n \in CallType(e)
  BY <1>1 DEF CallType
<1>4. n.kind = c.kind /\ n.result = c.result /\ n.slot = i /\ n.pc = pc
  BY DEF CallType
<1> QED BY <1>1, <1>2, <1>3, <1>4

LEMMA ReadSlotKeeps ==
  ASSUME OpsInv, NEW t \in Tasks, ReadSlot(t)
  PROVE  OpsInv'
<1> PICK c : c = call[t]
  OBVIOUS
<1>1. Walking(t, {"insert"}) /\ Target(t) # Media
  BY DEF ReadSlot
<1>2. /\ c \in CallType(epoch) /\ KindInv(c) /\ epoch \in Nat /\ DeviceInv
      /\ c.pc = "walk" /\ c.kind = "insert" /\ c.todo # <<>> /\ c.result = "none" /\ c.todo \in Nodes
      /\ Target(t) = Head(c.todo) /\ c.todo # <<Media>>
  BY <1>1, MediaWalk
<1>3. DeviceInv' /\ UNCHANGED <<bmc, width, epoch, mounted>>
  BY <1>2, SameDevice DEF ReadSlot
<1> DEFINE i  == Last(Target(t))
           sl == IF c.slot = 0 THEN i ELSE c.slot
           bs == IF c.slot = 0 THEN mounted[i] # None ELSE c.busy
           td == Tail(c.todo)
           first == [c EXCEPT !.slot = sl, !.busy = bs, !.todo = td]
           n  == IF i \in bmc.cd THEN Choose(c, i, mounted[i] # None)
                 ELSE IF Len(c.todo) = 1 THEN Choose(first, first.slot, first.busy) ELSE first
<1>4. /\ SlotsLeft(c.todo) /\ c.slot = IF Len(c.todo) = Shape[Media] THEN 0 ELSE 1
      /\ \A j \in Before(c.todo) : j \notin bmc.cd
  BY <1>2 DEF KindInv, InsertInv
<1>5. /\ i = Shape[Media] - Len(c.todo) + 1 /\ i \in Slots
      /\ SlotsLeft(td) /\ Len(td) = Len(c.todo) - 1 /\ Before(td) = Before(c.todo) \cup {i}
      /\ Shape[Media] \in Nat /\ Len(c.todo) \in 1..Shape[Media]
  BY <1>2, <1>4, SlotsTail
<1>6. td \in Nodes /\ (Len(c.todo) = 1 <=> td = <<>>)
  BY <1>2, TailIs DEF Nodes
<1>7. Become(t, n)
  BY DEF ReadSlot
<1>8. sl = 1 /\ 1 \in Slots
  BY <1>4, <1>5 DEF Slots
<1>9. bs \in BOOLEAN
  BY <1>2 DEF CallType
<1>10. bmc.cd \subseteq Slots
  BY <1>2 DEF DeviceInv, Bmcs
<1> HIDE DEF i, sl, bs, td
<1>11. first \in CallType(epoch) /\ first.kind = "insert" /\ first.pc = "walk" /\ first.result = "none"
       /\ first.slot = 1 /\ first.todo = td /\ first.busy = bs
  <2>1. sl \in Slot
    BY <1>8 DEF Slot
  <2>2. first \in CallType(epoch)
    BY <1>2, <1>6, <1>9, <2>1 DEF CallType
  <2> QED BY <1>2, <1>8, <2>2 DEF CallType
<1> HIDE DEF first
<1>12. n \in CallType(epoch) /\ KindInv(n)
  <2>1. ASSUME NEW d \in CallType(epoch), NEW j \in Slots, NEW b \in BOOLEAN, j \in Chosen,
               d.kind = "insert", d.result = "none"
        PROVE  Choose(d, j, b) \in CallType(epoch) /\ KindInv(Choose(d, j, b))
    <3> DEFINE m == Choose(d, j, b)
    <3>1. m \in CallType(epoch) /\ m.kind = "insert" /\ m.result = "none" /\ m.slot = j
          /\ m.pc \in {"preEject", "insert"}
      BY <1>2, <2>1, ChooseIs
    <3> HIDE DEF m
    <3>2. InsertInv(m)
      BY <2>1, <3>1 DEF InsertInv
    <3>3. KindInv(m)
      BY <3>1, <3>2 DEF KindInv
    <3> QED BY <3>1, <3>3 DEF m
  <2>2. CASE i \in bmc.cd
    <3>1. i \in Chosen /\ (mounted[i] # None) \in BOOLEAN
      BY <2>2 DEF Chosen
    <3> QED BY <1>2, <1>5, <2>1, <2>2, <3>1
  <2>3. CASE i \notin bmc.cd /\ Len(c.todo) = 1
    <3>1. Before(td) = Slots
      BY <1>5, <2>3 DEF Before, Slots
    <3>2. bmc.cd = {}
      BY <1>4, <1>5, <1>10, <2>3, <3>1
    <3>3. 1 \in Chosen
      BY <3>2 DEF Chosen
    <3> QED BY <1>8, <1>9, <1>11, <2>1, <2>3, <3>3
  <2>4. CASE i \notin bmc.cd /\ Len(c.todo) # 1
    <3>1. td # <<>> /\ Len(td) # Shape[Media] /\ \A j \in Before(td) : j \notin bmc.cd
      BY <1>4, <1>5, <1>6, <2>4
    <3>2. InsertInv(first)
      BY <1>5, <1>11, <3>1 DEF InsertInv
    <3>3. KindInv(first)
      BY <1>11, <3>2 DEF KindInv
    <3> QED BY <1>11, <2>4, <3>3
  <2> QED BY <2>2, <2>3, <2>4
<1> HIDE DEF n
<1> QED BY <1>3, <1>7, <1>12, StepKeeps

LEMMA ReadSlotToEjectKeeps ==
  ASSUME OpsInv, NEW t \in Tasks, ReadSlotToEject(t)
  PROVE  OpsInv'
<1> PICK c : c = call[t]
  OBVIOUS
<1>1. Walking(t, {"eject"}) /\ Target(t) # Media
  BY DEF ReadSlotToEject
<1>2. /\ c \in CallType(epoch) /\ KindInv(c) /\ epoch \in Nat /\ DeviceInv
      /\ c.pc = "walk" /\ c.kind = "eject" /\ c.todo # <<>> /\ c.result = "none" /\ c.todo \in Nodes
      /\ Target(t) = Head(c.todo) /\ c.todo # <<Media>>
  BY <1>1, MediaWalk
<1>3. DeviceInv' /\ UNCHANGED <<bmc, width, epoch, mounted>>
  BY <1>2, SameDevice DEF ReadSlotToEject
<1> DEFINE i  == Last(Target(t))
           td == Tail(c.todo)
<1>4. SlotsLeft(c.todo) /\ Emptied(c, Before(c.todo))
  BY <1>2 DEF KindInv, EjectInv
<1>5. /\ i = Shape[Media] - Len(c.todo) + 1 /\ i \in Slots
      /\ SlotsLeft(td) /\ Before(td) = Before(c.todo) \cup {i}
  BY <1>2, <1>4, SlotsTail
<1>6. td \in Nodes
  BY <1>2, TailIs DEF Nodes
<1>7. CASE mounted[i] = None
  <2> DEFINE n == [c EXCEPT !.todo = td]
  <2>1. Become(t, n)
    BY <1>7 DEF ReadSlotToEject
  <2> HIDE DEF i, td
  <2>2. n \in CallType(epoch) /\ n.kind = "eject" /\ n.todo = td /\ n.pc = "walk" /\ n.result = "none"
        /\ n.failed = c.failed /\ n.foreign = c.foreign
    BY <1>2, <1>6, LeftIs
  <2> HIDE DEF n
  <2>3. Emptied(n, Before(td))
    BY <1>4, <1>5, <1>7, <2>2 DEF Emptied
  <2>4. EjectInv(n)
    BY <1>5, <2>2, <2>3 DEF EjectInv
  <2>5. KindInv(n)
    BY <2>2, <2>4 DEF KindInv
  <2> QED BY <1>3, <2>1, <2>2, <2>5, StepKeeps
<1>8. CASE mounted[i] # None
  <2> DEFINE n == [c EXCEPT !.pc = "eject", !.slot = i]
  <2>1. Become(t, n)
    BY <1>8 DEF ReadSlotToEject
  <2>2. i \in Slot /\ "eject" \in Pcs
    BY <1>5 DEF Slot, Pcs
  <2> HIDE DEF i, td
  <2>3. n \in CallType(epoch)
    BY <1>2, <2>2 DEF CallType
  <2>4. n.kind = "eject" /\ n.todo = c.todo /\ n.pc = "eject" /\ n.result = "none" /\ n.slot = i
        /\ n.failed = c.failed /\ n.foreign = c.foreign
    BY <1>2 DEF CallType
  <2> HIDE DEF n
  <2>5. EjectInv(n)
    BY <1>2, <1>4, <1>5, <2>4 DEF EjectInv, Emptied
  <2>6. KindInv(n)
    BY <2>4, <2>5 DEF KindInv
  <2> QED BY <1>3, <2>1, <2>3, <2>6, StepKeeps
<1> QED BY <1>7, <1>8

\* A step of task t that changes what is in slot i.
LEMMA PutsKeeps ==
  ASSUME OpsInv, DeviceInv', UNCHANGED <<bmc, width, epoch>>, NEW t \in Tasks, NEW i \in Slots, NEW media,
         NEW n \in CallType(epoch), Puts(t, i, media, n), KindInv(n)'
  PROVE  OpsInv'
<1>1. /\ mounted' = [mounted EXCEPT ![i] = media]
      /\ call' = [u \in Tasks |-> IF u = t THEN n
                    ELSE IF call[u].pc # "idle" /\ call[u].kind \in {"insert", "eject"}
                    THEN [call[u] EXCEPT !.foreign = @ \cup {i}] ELSE call[u]]
  BY DEF Puts
<1>2. call \in [Tasks -> CallType(epoch)] /\ mounted \in [Slots -> Image]
  BY DEF OpsInv, DeviceInv
<1>3. ASSUME NEW m \in CallType(epoch), KindInv(m)
      PROVE  /\ m.kind \notin {"insert", "eject"} => KindInv(m)'
             /\ \A f \in CallType(epoch) : f = [m EXCEPT !.foreign = @ \cup {i}] => KindInv(f)'
  <2>1. m.kind \notin {"insert", "eject"} => KindInv(m)'
    BY <1>3 DEF KindInv, SelInv, ClearInv, ListInv, Looking, Choosing, OfLog, Entries, Useless
  <2>2. ASSUME NEW f \in CallType(epoch), f = [m EXCEPT !.foreign = @ \cup {i}]
        PROVE  KindInv(f)'
    <3>1. /\ f.pc = m.pc /\ f.kind = m.kind /\ f.todo = m.todo /\ f.slot = m.slot /\ f.result = m.result
          /\ f.roots = m.roots /\ f.missed = m.missed /\ f.out = m.out /\ f.image = m.image
          /\ f.failed = m.failed /\ f.foreign = m.foreign \cup {i}
      BY <2>2 DEF CallType
    <3>2. m.kind = "insert" => InsertInv(f)'
      BY <1>1, <1>2, <1>3, <3>1 DEF KindInv, InsertInv, Chosen, Before, SlotsLeft
    <3>3. \A S \in SUBSET Slots : Emptied(m, S) => Emptied(f, S)'
      BY <1>1, <1>2, <3>1 DEF Emptied
    <3>4. m.kind = "eject" => EjectInv(f)'
      <4>1. Before(m.todo) \subseteq Slots \/ ~ SlotsLeft(m.todo)
        <5>1. Len(m.todo) \in Nat /\ Shape[Media] \in Nat
          BY LogsAre DEF CallType, Nodes
        <5> QED BY <5>1 DEF Before, Slots
      <4> QED BY <1>3, <3>1, <3>3, <4>1 DEF KindInv, EjectInv, Before, SlotsLeft
    <3>5. m.kind = "sel" => SelInv(f)'
      BY <1>3, <3>1 DEF KindInv, SelInv, Looking, Choosing, OfLog, Entries, Useless
    <3>6. m.kind = "clear" => ClearInv(f)'
      BY <1>3, <3>1 DEF KindInv, ClearInv, Looking, Choosing, Useless
    <3> QED BY <1>3, <3>1, <3>2, <3>4, <3>5, <3>6 DEF KindInv, ListInv
  <2> QED BY <2>1, <2>2
<1>4. ASSUME NEW u \in Tasks
      PROVE  call'[u] \in CallType(epoch) /\ KindInv(call[u])'
  <2> PICK m : m = call[u]
    OBVIOUS
  <2> PICK f : f = call'[u]
    OBVIOUS
  <2>1. m \in CallType(epoch) /\ KindInv(m)
    BY <1>2 DEF OpsInv
  <2>2. CASE u = t
    BY <1>1, <2>2
  <2>3. CASE u # t /\ m.pc # "idle" /\ m.kind \in {"insert", "eject"}
    <3> DEFINE fs == m.foreign \cup {i}
    <3>1. fs \in Some
      BY <2>1 DEF CallType, Some
    <3>2. f = [m EXCEPT !.foreign = fs]
      BY <1>1, <2>3
    <3> HIDE DEF fs
    <3>3. f \in CallType(epoch)
      BY <2>1, <3>1, <3>2 DEF CallType
    <3>4. KindInv(f)'
      BY <1>3, <2>1, <3>2, <3>3 DEF fs
    <3> QED BY <3>3, <3>4
  <2>4. CASE u # t /\ ~ (m.pc # "idle" /\ m.kind \in {"insert", "eject"})
    <3>1. f = m
      BY <1>1, <2>4
    <3>2. m.kind \notin {"insert", "eject"}
      BY <2>1, <2>4 DEF KindInv, InsertInv, EjectInv
    <3>3. KindInv(m)'
      BY <1>3, <2>1, <3>2
    <3> QED BY <2>1, <3>1, <3>3
  <2> QED BY <2>2, <2>3, <2>4
<1>5. call' \in [Tasks -> CallType(epoch')]
  BY <1>1, <1>4
<1> QED BY <1>4, <1>5 DEF OpsInv

\* What putting an image into a slot makes of the BMC.
LEMMA PutsDevice ==
  ASSUME DeviceInv, UNCHANGED <<device, cache>>, Fault \/ UNCHANGED faults, NEW i \in Slots, NEW media \in Image,
         mounted' = [mounted EXCEPT ![i] = media]
  PROVE  DeviceInv' /\ UNCHANGED <<bmc, width, epoch>>
BY OpsAssumption DEF DeviceInv, device, Fault

\* A call that raises when the slot was changed.
LEMMA PutsRaises ==
  ASSUME OpsInv, NEW t \in Tasks, NEW i \in Slots, NEW media \in Image,
         Puts(t, i, media, Ended(call[t], "HTTPError")), UNCHANGED <<device, cache>>, Fault \/ UNCHANGED faults
  PROVE  OpsInv'
<1> PICK c : c = call[t]
  OBVIOUS
<1>1. epoch \in Nat /\ c \in CallType(epoch) /\ DeviceInv
  BY CallIs DEF OpsInv
<1> DEFINE n == Ended(c, "HTTPError")
<1>2. "HTTPError" \in Results /\ "HTTPError" # "none"
  BY DEF Results
<1>3. n \in CallType(epoch) /\ n.pc = "returned" /\ n.result = "HTTPError"
  BY <1>1, <1>2, EndedIs
<1>4. Puts(t, i, media, n)
  OBVIOUS
<1> HIDE DEF n
<1>5. KindInv(n)'
  BY <1>3 DEF KindInv, InsertInv, EjectInv, SelInv, ClearInv, ListInv
<1>6. DeviceInv' /\ UNCHANGED <<bmc, width, epoch>>
  BY <1>1, PutsDevice DEF Puts
<1> QED BY <1>3, <1>4, <1>5, <1>6, PutsKeeps

LEMMA PreEjectKeeps ==
  ASSUME OpsInv, NEW t \in Tasks, PreEject(t)
  PROVE  OpsInv'
<1> PICK c : c = call[t]
  OBVIOUS
<1>1. epoch \in Nat /\ c \in CallType(epoch) /\ KindInv(c) /\ DeviceInv
  BY CallIs DEF OpsInv
<1>2. c.pc = "preEject" /\ UNCHANGED <<device, cache>> /\ (Fault \/ UNCHANGED faults)
  BY DEF PreEject, Posts
<1>3. c.kind = "insert" /\ c.slot \in Chosen \cap Slots /\ c.result = "none"
  BY <1>1, <1>2 DEF KindInv, InsertInv, EjectInv, SelInv, ClearInv, ListInv, CallType, Kinds
<1>4. None \in Image
  BY DEF Image
<1> DEFINE n == [c EXCEPT !.pc = "insert"]
<1>5. n \in CallType(epoch) /\ n.kind = "insert" /\ n.pc = "insert" /\ n.slot = c.slot /\ n.result = "none"
  <2>1. "insert" \in Pcs
    BY DEF Pcs
  <2> QED BY <1>1, <1>3, <2>1 DEF CallType
<1>6. \/ Puts(t, c.slot, None, n)
      \/ Puts(t, c.slot, None, Ended(c, "HTTPError"))
      \/ Become(t, n) /\ UNCHANGED mounted
  BY DEF PreEject, Posts
<1> HIDE DEF n
<1>7. CASE Puts(t, c.slot, None, n)
  <2>1. DeviceInv' /\ UNCHANGED <<bmc, width, epoch>>
    BY <1>1, <1>2, <1>3, <1>4, <1>7, PutsDevice DEF Puts
  <2>2. InsertInv(n)'
    BY <1>3, <1>5, <2>1 DEF InsertInv, Chosen
  <2>3. KindInv(n)'
    BY <1>5, <2>2 DEF KindInv
  <2> QED BY <1>3, <1>4, <1>5, <1>7, <2>1, <2>3, PutsKeeps
<1>8. CASE Puts(t, c.slot, None, Ended(c, "HTTPError"))
  BY <1>2, <1>3, <1>4, <1>8, PutsRaises
<1>9. CASE Become(t, n) /\ UNCHANGED mounted
  <2>1. DeviceInv' /\ UNCHANGED <<bmc, width, epoch, mounted>>
    BY <1>1, <1>2, <1>9, FaultKeeps
  <2>2. InsertInv(n)
    BY <1>3, <1>5 DEF InsertInv
  <2>3. KindInv(n)
    BY <1>5, <2>2 DEF KindInv
  <2> QED BY <1>5, <1>9, <2>1, <2>3, StepKeeps
<1> QED BY <1>6, <1>7, <1>8, <1>9

LEMMA InsertKeeps ==
  ASSUME OpsInv, NEW t \in Tasks, Insert(t)
  PROVE  OpsInv'
<1> PICK c : c = call[t]
  OBVIOUS
<1>1. epoch \in Nat /\ c \in CallType(epoch) /\ KindInv(c) /\ DeviceInv /\ c.image \in Image
  BY CallIs DEF OpsInv, CallType
<1>2. c.pc = "insert" /\ UNCHANGED <<device, cache>> /\ (Fault \/ UNCHANGED faults)
  BY DEF Insert, Posts
<1>3. c.kind = "insert" /\ c.slot \in Chosen \cap Slots
  BY <1>1, <1>2 DEF KindInv, InsertInv, EjectInv, SelInv, ClearInv, ListInv, CallType, Kinds
<1> DEFINE n == Ended(c, "inserted")
<1>4. "inserted" \in Results /\ "inserted" \notin {"none", "RedfishError", "HTTPError"}
  BY DEF Results
<1>5. n \in CallType(epoch) /\ n.kind = "insert" /\ n.pc = "returned" /\ n.result = "inserted" /\ n.slot = c.slot
      /\ n.image = c.image
  BY <1>1, <1>3, <1>4, EndedIs
<1>6. \/ Puts(t, c.slot, c.image, n)
      \/ Puts(t, c.slot, c.image, Ended(c, "HTTPError"))
      \/ Become(t, Ended(c, "RedfishError")) /\ UNCHANGED mounted
  BY DEF Insert, Posts
<1> HIDE DEF n
<1>7. CASE Puts(t, c.slot, c.image, n)
  <2>1. DeviceInv' /\ UNCHANGED <<bmc, width, epoch>>
    BY <1>1, <1>2, <1>3, <1>7, PutsDevice DEF Puts
  <2>2. mounted'[n.slot] = n.image
    BY <1>1, <1>3, <1>5, <1>7 DEF Puts, DeviceInv
  <2>3. InsertInv(n)'
    BY <1>3, <1>5, <2>1, <2>2 DEF InsertInv, Chosen
  <2>4. KindInv(n)'
    BY <1>5, <2>3 DEF KindInv
  <2> QED BY <1>1, <1>3, <1>5, <1>7, <2>1, <2>4, PutsKeeps
<1>8. CASE Puts(t, c.slot, c.image, Ended(c, "HTTPError"))
  BY <1>1, <1>2, <1>3, <1>8, PutsRaises
<1>9. CASE Become(t, Ended(c, "RedfishError")) /\ UNCHANGED mounted
  <2>1. DeviceInv' /\ UNCHANGED <<bmc, width, epoch, mounted>>
    BY <1>1, <1>2, <1>9, FaultKeeps
  <2> QED BY <1>9, <2>1, RaiseKeeps
<1> QED BY <1>6, <1>7, <1>8, <1>9

LEMMA EjectKeeps ==
  ASSUME OpsInv, NEW t \in Tasks, Eject(t)
  PROVE  OpsInv'
<1> PICK c : c = call[t]
  OBVIOUS
<1>1. epoch \in Nat /\ c \in CallType(epoch) /\ KindInv(c) /\ DeviceInv /\ c.todo \in Nodes /\ c.failed \in Some
  BY CallIs DEF OpsInv, CallType
<1>2. c.pc = "eject" /\ UNCHANGED <<device, cache>> /\ (Fault \/ UNCHANGED faults)
  BY DEF Eject, Posts
<1>3. /\ c.kind = "eject" /\ c.result = "none" /\ SlotsLeft(c.todo) /\ c.todo # <<>>
      /\ Emptied(c, Before(c.todo)) /\ c.slot = Shape[Media] - Len(c.todo) + 1
  BY <1>1, <1>2 DEF KindInv, InsertInv, EjectInv, SelInv, ClearInv, ListInv, CallType, Kinds
<1> DEFINE td   == Tail(c.todo)
           fs   == c.failed \cup {c.slot}
           next == [c EXCEPT !.pc = "walk", !.todo = td, !.slot = 0]
           n    == [next EXCEPT !.failed = fs]
<1>4. c.slot \in Slots /\ SlotsLeft(td) /\ Before(td) = Before(c.todo) \cup {c.slot} /\ Before(td) \subseteq Slots
  <2>1. c.slot \in Slots /\ SlotsLeft(td) /\ Before(td) = Before(c.todo) \cup {c.slot}
        /\ Shape[Media] \in Nat /\ Len(c.todo) \in 1..Shape[Media]
    BY <1>1, <1>3, SlotsTail
  <2>2. Before(c.todo) \subseteq Slots
    BY <2>1 DEF Before, Slots
  <2> QED BY <2>1, <2>2
<1>5. td \in Nodes /\ fs \in Some
  BY <1>1, <1>3, <1>4, TailIs DEF Nodes, Some
<1>6. \/ Puts(t, c.slot, None, next)
      \/ Puts(t, c.slot, None, Ended(c, "HTTPError"))
      \/ Become(t, n) /\ UNCHANGED mounted
  BY DEF Eject, Posts
<1> HIDE DEF td, fs
<1>7. None \in Image /\ 0 \in Slot /\ "walk" \in Pcs
  BY DEF Image, Slot, Pcs
<1>8. next \in CallType(epoch) /\ next.kind = "eject" /\ next.pc = "walk" /\ next.result = "none" /\ next.todo = td
      /\ next.failed = c.failed /\ next.foreign = c.foreign
  BY <1>1, <1>3, <1>5, <1>7 DEF CallType
<1> HIDE DEF next
<1>9. n \in CallType(epoch) /\ n.kind = "eject" /\ n.pc = "walk" /\ n.result = "none" /\ n.todo = td
      /\ n.failed = fs /\ n.foreign = c.foreign
  BY <1>5, <1>8 DEF CallType
<1> HIDE DEF n
<1>10. CASE Puts(t, c.slot, None, next)
  <2>1. DeviceInv' /\ UNCHANGED <<bmc, width, epoch>>
    BY <1>2, <1>1, <1>4, <1>7, <1>10, PutsDevice DEF Puts
  <2>2. Emptied(next, Before(td))'
    <3>1. mounted' = [mounted EXCEPT ![c.slot] = None] /\ mounted \in [Slots -> Image]
      BY <1>1, <1>10 DEF Puts, DeviceInv
    <3> QED BY <1>3, <1>4, <1>8, <3>1 DEF Emptied, Before
  <2>3. SlotsLeft(td)'
    BY <1>4 DEF SlotsLeft
  <2>4. EjectInv(next)'
    BY <1>8, <2>2, <2>3 DEF EjectInv
  <2>5. KindInv(next)'
    BY <1>8, <2>4 DEF KindInv
  <2> QED BY <1>4, <1>8, <1>10, <2>1, <2>5, PutsKeeps
<1>11. CASE Puts(t, c.slot, None, Ended(c, "HTTPError"))
  BY <1>2, <1>4, <1>7, <1>11, PutsRaises
<1>12. CASE Become(t, n) /\ UNCHANGED mounted
  <2>1. DeviceInv' /\ UNCHANGED <<bmc, width, epoch, mounted>>
    BY <1>1, <1>2, <1>12, FaultKeeps
  <2>2. Emptied(n, Before(td))
    BY <1>3, <1>4, <1>9 DEF Emptied, fs
  <2>3. EjectInv(n)
    BY <1>4, <1>9, <2>2 DEF EjectInv
  <2>4. KindInv(n)
    BY <1>9, <2>3 DEF KindInv
  <2> QED BY <1>9, <1>12, <2>1, <2>4, StepKeeps
<1> QED BY <1>6, <1>10, <1>11, <1>12

-----------------------------------------------------------------------------
(***************************************************************************)
(* The BMC, the first states, and the theorems.                            *)
(***************************************************************************)
LEMMA RenameKeeps ==
  ASSUME OpsInv, RenamePaths
  PROVE  OpsInv'
<1>1. epoch' = epoch + 1 /\ epoch \in Nat /\ epoch <= MaxRenames /\ UNCHANGED <<bmc, width, mounted, cache, call, faults>>
  BY DEF RenamePaths, OpsInv, DeviceInv
<1>2. Epochs(epoch) \subseteq Epochs(epoch')
  BY <1>1 DEF Epochs
<1>3. DeviceInv'
  BY <1>1, OpsAssumption DEF OpsInv, DeviceInv
<1>4. CallType(epoch) \subseteq CallType(epoch')
  <2>1. Paths(epoch) \subseteq Paths(epoch')
    BY <1>2 DEF Paths
  <2> QED BY <1>2, <2>1 DEF CallType
<1>5. call' \in [Tasks -> CallType(epoch')]
  BY <1>1, <1>4 DEF OpsInv
<1>6. ASSUME NEW u \in Tasks
      PROVE  KindInv(call[u])'
  <2>1. KindInv(call[u])
    BY DEF OpsInv
  <2> QED BY <1>1, <2>1 DEF KindInv, InsertInv, EjectInv, SelInv, ClearInv, ListInv, Looking, Choosing, OfLog,
             Entries, Useless, Emptied, Chosen, Before, SlotsLeft
<1> QED BY <1>3, <1>5, <1>6 DEF OpsInv

LEMMA OpsInvInit ==
  Init => OpsInv
<1> SUFFICES ASSUME Init PROVE OpsInv
  OBVIOUS
<1>1. Media \in DOMAIN Shape /\ \A n \in DOMAIN Shape : Shape[n] \in Nat
  BY LogsAre, OpsAssumption
<1>2. DeviceInv
  <2>1. bmc \in Bmcs
    BY BmcKindsAssumption DEF Init
  <2>2. epoch = 1 /\ 1 \in 1..(MaxRenames + 1) /\ faults \in 0..MaxFaults
    BY OpsAssumption DEF Init
  <2>3. DOMAIN width = DOMAIN Shape /\ (\A n \in DOMAIN width : width[n] \in {0, Shape[n]}) /\ width[Media] = Shape[Media]
    BY DEF Init
  <2>4. mounted \in [Slots -> Image] /\ cache \in [Roots -> 0..epoch]
    BY <2>2 DEF Init, Image
  <2> QED BY <2>1, <2>2, <2>3, <2>4 DEF DeviceInv
<1>3. epoch \in Nat /\ call = [t \in Tasks |-> Idle]
  BY DEF Init
<1>4. Idle \in CallType(epoch) /\ Idle.kind = "list" /\ Idle.pc = "idle" /\ Idle.result = "none"
  BY <1>3, IdleTyped DEF Idle
<1>5. KindInv(Idle)
  BY <1>4 DEF KindInv, ListInv
<1> QED BY <1>2, <1>3, <1>4, <1>5 DEF OpsInv

LEMMA OpsInvStep ==
  OpsInv /\ [Next]_vars => OpsInv'
<1> SUFFICES ASSUME OpsInv, [Next]_vars PROVE OpsInv'
  OBVIOUS
<1>1. ASSUME NEW t \in Tasks, Steps(t)
      PROVE  OpsInv'
  BY <1>1, PathsKeep, ReadNextKeeps, SkipKeeps, WalkRaisesKeeps, WalkEndsKeeps, FindsLogKeeps, ClearLogKeeps,
     FindManagerKeeps, ReadMediaKeeps, MediaGoneKeeps, ReadSlotKeeps, ReadSlotToEjectKeeps, PreEjectKeeps, InsertKeeps, EjectKeeps DEF Steps
<1>2. CASE UNCHANGED vars
  BY <1>2 DEF vars, OpsInv, DeviceInv, KindInv, InsertInv, EjectInv, SelInv, ClearInv, ListInv, Looking, Choosing, OfLog,
     Entries, Useless, Emptied, Chosen, Before, SlotsLeft
<1> QED BY <1>1, <1>2, CallsKeep, TakeKeeps, RenameKeeps DEF Next

\* Every variable has its type, and a call that looks for a path has a root to
\* look for (_first_system_path and its siblings).
THEOREM OpsTyped == Spec => []TypeOK
<1>1. OpsInv => TypeOK
  <2> SUFFICES ASSUME OpsInv PROVE TypeOK
    OBVIOUS
  <2>1. ASSUME NEW t \in Tasks
        PROVE  LET c == call[t] IN
               /\ DOMAIN c = DOMAIN Idle /\ c.pc \in Pcs /\ c.kind \in Kinds /\ c.result \in Results
               /\ c.image \in Images \cup {None} /\ c.slot \in Slots \cup {0}
               /\ c.answer \in 0..epoch /\ c.path \in [Roots -> 0..epoch]
               /\ c.roots \in Seq(Roots) /\ (c.pc \in {"path", "store"} => c.roots # <<>>)
               /\ c.failed \cup c.foreign \subseteq Slots
               /\ (c.pc = "returned" <=> c.result # "none")
    <3> PICK c : c = call[t]
      OBVIOUS
    <3>1. c \in CallType(epoch) /\ KindInv(c)
      BY CallIs
    <3>2. DOMAIN c = DOMAIN Idle
      BY <3>1 DEF CallType, Idle
    <3>3. /\ c.pc \in Pcs /\ c.kind \in Kinds /\ c.result \in Results
          /\ c.image \in Images \cup {None} /\ c.slot \in Slots \cup {0}
          /\ c.answer \in 0..epoch /\ c.path \in [Roots -> 0..epoch] /\ c.roots \in Seq(Roots)
          /\ c.failed \cup c.foreign \subseteq Slots
      BY <3>1 DEF CallType, Image, Slot, Epochs, Paths, Route, Some
    <3> QED BY <3>1, <3>2, <3>3 DEF KindInv
  <2>2. DeviceInv
    BY DEF OpsInv
  <2> QED BY <2>1, <2>2 DEF TypeOK, DeviceInv, Image
<1> QED BY <1>1, OpsInvInit, OpsInvStep, PTL DEF Spec

\* sel_entries returns the entries of one log, and no log comes before it, in
\* the code's order and in its docstring's, that has entries and could be read;
\* clear_sel clears the first of its list that can be cleared.
THEOREM FirstLogHolds == Spec => []FirstLog
<1>1. OpsInv => FirstLog
  <2> SUFFICES ASSUME OpsInv, NEW t \in Tasks
               PROVE  LET c == call[t]
                          read == {Front(n) : n \in ToSet(c.out) \cup {m \in c.missed : ~ IsLog(m)}}
                      IN  /\ Over(t, "listed") /\ c.kind = "sel" =>
                               /\ Cardinality(read) <= 1
                               /\ \A l \in ToSet(LogOrder) :
                                    (\A u \in read : Agreed(l, u)) => l \in c.missed \/ width[l] = 0
                          /\ Over(t, "cleared") =>
                               /\ Target(t) \in bmc.clearable /\ width[Target(t)] = 0
                               /\ \A l \in bmc.clearable : Pos(l) < Pos(Target(t)) => l \in c.missed
    BY DEF FirstLog
  <2> PICK c : c = call[t]
    OBVIOUS
  <2>1. c \in CallType(epoch) /\ KindInv(c) /\ DeviceInv
    BY CallIs DEF OpsInv
  <2> DEFINE read == {Front(n) : n \in ToSet(c.out) \cup {m \in c.missed : ~ IsLog(m)}}
  <2>2. ASSUME c.pc = "returned", c.result = "listed", c.kind = "sel"
        PROVE  /\ Cardinality(read) <= 1
               /\ \A l \in ToSet(LogOrder) : (\A u \in read : Agreed(l, u)) => l \in c.missed \/ width[l] = 0
    <3>1. ToSet(c.out) \cup {m \in c.missed : ~ IsLog(m)} = Entries(c)
      BY <2>2, LogsAre DEF Entries, IsLog
    <3>2. read = {Front(n) : n \in Entries(c)}
      BY <3>1
    <3>3. (Choosing(c) /\ c.todo = <<>>) \/ \E u \in Logs : OfLog(c, u)
      BY <2>1, <2>2 DEF KindInv, SelInv
    <3>4. \A l \in Logs : Useless(c, l) => l \in c.missed \/ width[l] = 0
      BY <2>2 DEF Useless
    <3> HIDE DEF read
    <3>5. CASE Choosing(c) /\ c.todo = <<>>
      <4>1. ToSet(c.todo) = {} /\ ToSet(c.out) = {}
        BY <3>5, ShortSets DEF Choosing
      <4>2. Entries(c) = {}
        BY <2>2, <3>5, <4>1 DEF Entries, Choosing
      <4>3. read = {}
        BY <3>2, <4>2
      <4>4. Cardinality(read) = 0
        BY <4>3, FS_EmptySet
      <4> QED BY <3>4, <3>5, <4>1, <4>4, LogsAre DEF Choosing
    <3>6. ASSUME NEW u \in Logs, OfLog(c, u)
          PROVE  /\ Cardinality(read) <= 1
                 /\ \A l \in Logs : (\A v \in read : Agreed(l, v)) => l \in c.missed \/ width[l] = 0
      <4>1. read = {u}
        BY <3>2, <3>6 DEF OfLog
      <4>2. Cardinality(read) = 1
        BY <4>1, FS_Singleton
      <4>3. \A l \in Logs : Agreed(l, u) => Pos(l) < Pos(u)
        BY AgreedIs
      <4> QED BY <3>4, <3>6, <4>1, <4>2, <4>3 DEF OfLog
    <3> QED BY <3>3, <3>5, <3>6, LogsAre
  <2>3. ASSUME c.pc = "returned", c.result = "cleared"
        PROVE  LET h == Head(c.todo) IN
               /\ h \in bmc.clearable /\ width[h] = 0
               /\ \A l \in bmc.clearable : Pos(l) < Pos(h) => l \in c.missed
    <3>1. c.kind = "clear"
      BY <2>1, <2>3 DEF KindInv, InsertInv, EjectInv, SelInv, ListInv, CallType, Kinds
    <3>2. Choosing(c) /\ c.todo # <<>> /\ Head(c.todo) \in bmc.clearable /\ width[Head(c.todo)] = 0
      BY <2>1, <2>3, <3>1 DEF KindInv, ClearInv
    <3>3. bmc.clearable \subseteq Logs
      BY <2>1, LogsAre DEF DeviceInv, Bmcs
    <3>4. \A l \in ToSet(c.todo) : ~ (Pos(l) < Pos(Head(c.todo)))
      BY <3>2, LogTail DEF Choosing
    <3>5. \A l \in Logs : l \in ToSet(c.todo) \/ Useless(c, l)
      BY <3>2 DEF Choosing
    <3> QED BY <3>1, <3>2, <3>3, <3>4, <3>5 DEF Useless
  <2> QED BY <2>2, <2>3 DEF Over, Target
<1> QED BY <1>1, OpsInvInit, OpsInvStep, PTL DEF Spec

\* insert_virtual_media returns the slot its image is in, and
\* eject_virtual_media leaves no slot that takes CDs full, but for those that
\* another call changed meanwhile and those whose eject failed.
THEOREM MediaAccountedHolds == Spec => []MediaAccounted
<1>1. OpsInv => MediaAccounted
  <2> SUFFICES ASSUME OpsInv, NEW t \in Tasks
               PROVE  LET c == call[t] IN
                      /\ Over(t, "inserted") =>
                           /\ c.slot \in c.foreign \/ mounted[c.slot] = c.image
                           /\ c.slot \in IF bmc.cd = {} THEN {1} ELSE bmc.cd
                      /\ Over(t, "ejected") =>
                           \A i \in bmc.cd : mounted[i] = None \/ i \in c.failed \cup c.foreign
    BY DEF MediaAccounted
  <2> PICK c : c = call[t]
    OBVIOUS
  <2>1. c \in CallType(epoch) /\ KindInv(c) /\ bmc.cd \subseteq Slots
    BY CallIs DEF OpsInv, DeviceInv, Bmcs
  <2>2. ASSUME c.result = "inserted"
        PROVE  (c.slot \in c.foreign \/ mounted[c.slot] = c.image) /\ c.slot \in Chosen
    <3>1. c.kind = "insert"
      BY <2>1, <2>2 DEF KindInv, EjectInv, SelInv, ClearInv, ListInv, CallType, Kinds
    <3> QED BY <2>1, <2>2, <3>1 DEF KindInv, InsertInv
  <2>3. ASSUME c.result = "ejected"
        PROVE  Emptied(c, Slots)
    <3>1. c.kind = "eject"
      BY <2>1, <2>3 DEF KindInv, InsertInv, SelInv, ClearInv, ListInv, CallType, Kinds
    <3> QED BY <2>1, <2>3, <3>1 DEF KindInv, EjectInv
  <2> QED BY <2>1, <2>2, <2>3 DEF Over, Chosen, Emptied
<1> QED BY <1>1, OpsInvInit, OpsInvStep, PTL DEF Spec

-----------------------------------------------------------------------------
(***************************************************************************)
(* Prefixes, and the resources below a resource.                           *)
(***************************************************************************)
\* Prefixes, index by index.
LEMMA PrefixIs ==
  ASSUME NEW S, NEW a \in Seq(S), NEW b \in Seq(S)
  PROVE  IsPrefix(a, b) <=> Len(a) <= Len(b) /\ \A k \in 1..Len(a) : a[k] = b[k]
<1>1. Len(a) \in Nat /\ Len(b) \in Nat
  OBVIOUS
<1>2. CASE Len(a) <= Len(b)
  <2> DEFINE p == SubSeq(a, 1, Len(a))
             q == SubSeq(b, 1, Len(a))
  <2>1. p = a
    BY SubSeqFull
  <2>2. q \in Seq(S) /\ Len(q) = Len(a) /\ \A k \in 1..Len(a) : q[k] = b[k]
    BY <1>1, <1>2, SubSeqProperties
  <2>3. IsPrefix(a, b) <=> p = q
    BY <1>2 DEF IsPrefix
  <2> HIDE DEF p, q
  <2>4. p = q <=> \A k \in 1..Len(a) : a[k] = q[k]
    BY <2>1, <2>2, SeqEqual
  <2> QED BY <1>2, <2>2, <2>3, <2>4
<1>3. CASE ~ (Len(a) <= Len(b))
  BY <1>3 DEF IsPrefix
<1> QED BY <1>2, <1>3

LEMMA PrefixSelf ==
  ASSUME NEW n \in Node
  PROVE  IsPrefix(n, n)
BY PrefixIs DEF Node

LEMMA PrefixTrans ==
  ASSUME NEW a \in Node, NEW b \in Node, NEW c \in Node, IsPrefix(a, b), IsPrefix(b, c)
  PROVE  IsPrefix(a, c)
<1>1. Len(a) \in Nat /\ Len(b) \in Nat /\ Len(c) \in Nat
  BY DEF Node
<1>2. Len(a) <= Len(b) /\ \A k \in 1..Len(a) : a[k] = b[k]
  BY PrefixIs DEF Node
<1>3. Len(b) <= Len(c) /\ \A k \in 1..Len(b) : b[k] = c[k]
  BY PrefixIs DEF Node
<1>4. Len(a) <= Len(c) /\ \A k \in 1..Len(a) : a[k] = c[k]
  BY <1>1, <1>2, <1>3
<1> QED BY <1>4, PrefixIs DEF Node

\* What leads to a member leads to the resource, or is the member.
LEMMA PrefixAppend ==
  ASSUME NEW a \in Node, NEW n \in Node, NEW i \in Step
  PROVE  /\ Append(n, i) \in Node /\ Len(Append(n, i)) = Len(n) + 1
         /\ Append(n, i)[Len(n) + 1] = i /\ \A k \in 1..Len(n) : Append(n, i)[k] = n[k]
         /\ IsPrefix(a, Append(n, i)) <=> a = Append(n, i) \/ IsPrefix(a, n)
<1> DEFINE q == Append(n, i)
<1>1. q \in Node /\ Len(q) = Len(n) + 1 /\ q[Len(n) + 1] = i /\ \A k \in 1..Len(n) : q[k] = n[k]
  BY AppendProperties DEF Node
<1> HIDE DEF q
<1>2. Len(a) \in Nat /\ Len(n) \in Nat
  BY DEF Node
<1>3. /\ IsPrefix(a, q) <=> Len(a) <= Len(q) /\ \A k \in 1..Len(a) : a[k] = q[k]
      /\ IsPrefix(a, n) <=> Len(a) <= Len(n) /\ \A k \in 1..Len(a) : a[k] = n[k]
  BY <1>1, PrefixIs DEF Node
<1>4. a = q <=> Len(a) = Len(q) /\ \A k \in 1..Len(a) : a[k] = q[k]
  BY <1>1, SeqEqual DEF Node
<1>5. IsPrefix(a, q) <=> a = q \/ IsPrefix(a, n)
  <2>1. CASE Len(a) <= Len(n)
    BY <1>1, <1>2, <1>3, <1>4, <2>1
  <2>2. CASE Len(a) = Len(n) + 1
    BY <1>1, <1>2, <1>3, <1>4, <2>2
  <2>3. CASE Len(a) > Len(n) + 1
    BY <1>1, <1>2, <1>3, <1>4, <2>3
  <2> QED BY <1>2, <2>1, <2>2, <2>3
<1> QED BY <1>1, <1>5 DEF q

\* The ways to two members part.
LEMMA MembersPart ==
  ASSUME NEW n \in Node, NEW i \in Step, NEW j \in Step
  PROVE  /\ IsPrefix(n, Append(n, i)) /\ ~ IsPrefix(Append(n, i), n)
         /\ IsPrefix(Append(n, i), Append(n, j)) => i = j
<1>1. IsPrefix(n, Append(n, i))
  BY PrefixAppend, PrefixSelf
<1>2. Len(n) \in Nat
  BY DEF Node
<1>3. ~ IsPrefix(Append(n, i), n)
  <2>1. Append(n, i) \in Node /\ Len(Append(n, i)) = Len(n) + 1
    BY PrefixAppend
  <2> QED BY <1>2, <2>1 DEF IsPrefix
<1>4. ASSUME IsPrefix(Append(n, i), Append(n, j))
      PROVE  i = j
  <2>1. Append(n, i) \in Node /\ Append(n, i)[Len(n) + 1] = i /\ Append(n, j)[Len(n) + 1] = j
    BY PrefixAppend
  <2>2. Append(n, i) = Append(n, j)
    BY <1>3, <1>4, <2>1, PrefixAppend
  <2> QED BY <2>1, <2>2
<1> QED BY <1>1, <1>3, <1>4

\* Only clear_sel changes how many members a resource has.
FullWidth == \A n \in DOMAIN Shape \ Logs : width[n] = Shape[n]

LEMMA LeafIs ==
  ASSUME DeviceInv, NEW x
  PROVE  x \in Leaves <=> x \notin DOMAIN width /\ \E m \in DOMAIN width : Exists(m) /\ \E i \in 1..width[m] : x = Append(m, i)
<1>1. \A m : DOMAIN Kids(m) = 1..width[m] /\ \A i \in 1..width[m] : Kids(m)[i] = Append(m, i)
  BY DEF Kids
<1>2. \A m : x \in ToSet(Kids(m)) <=> \E i \in 1..width[m] : x = Append(m, i)
  BY <1>1 DEF ToSet
<1> QED BY <1>2 DEF Leaves

LEMMA LeafOf ==
  ASSUME DeviceInv, NEW x \in Leaves
  PROVE  /\ x \in Node /\ x \notin DOMAIN Shape
         /\ \E m \in DOMAIN Shape, i \in Nat : i \in 1..width[m] /\ x = Append(m, i) /\ m \in Node
<1>0. PICK m \in DOMAIN width : x \notin DOMAIN width /\ \E i \in 1..width[m] : x = Append(m, i)
  BY LeafIs
<1>1. PICK i \in 1..width[m] : x = Append(m, i)
  BY <1>0
<1>2. m \in DOMAIN Shape /\ m \in Node /\ width[m] \in Nat
  BY <1>1, ShapeIs DEF DeviceInv
<1>3. i \in Nat /\ i \in Step
  BY <1>2 DEF Step
<1>4. x \in Node
  BY <1>1, <1>2, <1>3, PrefixAppend
<1> QED BY <1>0, <1>1, <1>2, <1>3, <1>4 DEF DeviceInv

\* What is left below a resource is below one of its members.
LEMMA BelowMember ==
  ASSUME DeviceInv, FullWidth, NEW n \in DOMAIN Shape, n \notin Logs, NEW x \in Leaves, IsPrefix(n, x)
  PROVE  \E i \in 1..width[n] : IsPrefix(Append(n, i), x)
<1>1. PICK m \in DOMAIN Shape, i \in Nat : i \in 1..width[m] /\ x = Append(m, i) /\ m \in Node
  BY LeafOf
<1>2. x \in Node /\ x \notin DOMAIN Shape /\ n \in Node /\ Len(n) \in Nat \ {0} /\ width[n] = Shape[n]
      /\ Shape[n] \in Nat /\ i \in Step
  BY LeafOf, ShapeIs DEF FullWidth, Step
<1>3. IsPrefix(n, m)
  BY <1>1, <1>2, PrefixAppend
<1>4. Len(m) \in Nat /\ Len(n) <= Len(m) /\ \A k \in 1..Len(n) : n[k] = m[k]
  BY <1>1, <1>2, <1>3, PrefixIs DEF Node
<1>5. CASE Len(n) = Len(m)
  <2>1. n = m
    BY <1>1, <1>2, <1>4, <1>5, SeqEqual DEF Node
  <2>2. IsPrefix(Append(n, i), x)
    BY <1>1, <1>2, <2>1, PrefixSelf
  <2> QED BY <1>1, <2>1, <2>2
<1>6. CASE Len(n) < Len(m)
  <2>1. SubSeq(m, 1, Len(n)) = n
    BY <1>2, <1>3, SubSeqFull DEF IsPrefix, Node
  <2> DEFINE j == m[Len(n) + 1]
  <2>2. Len(n) \in 1..(Len(m) - 1)
    BY <1>2, <1>4, <1>6
  <2>3. j \in 1..Shape[n]
    BY <2>1, <2>2, ShapeIs
  <2>4. j \in Step
    BY <1>2, <2>3 DEF Step
  <2> HIDE DEF j
  <2> DEFINE q == Append(n, j)
  <2>5. q \in Node /\ Len(q) = Len(n) + 1 /\ q[Len(n) + 1] = j /\ \A k \in 1..Len(n) : q[k] = n[k]
    BY <1>2, <2>4, PrefixAppend
  <2> HIDE DEF q
  <2>6. Len(q) <= Len(m) /\ \A k \in 1..Len(q) : q[k] = m[k]
    BY <1>2, <1>4, <1>6, <2>5 DEF j
  <2>7. IsPrefix(q, m)
    BY <1>1, <2>5, <2>6, PrefixIs DEF Node
  <2>8. IsPrefix(q, x)
    BY <1>1, <1>2, <2>5, <2>7, PrefixAppend
  <2> QED BY <1>2, <2>3, <2>8 DEF q
<1> QED BY <1>2, <1>4, <1>5, <1>6

\* Below a resource without members there is only itself.
LEMMA BelowLeaf ==
  ASSUME DeviceInv, NEW n \in Node, n # <<>>, n \notin DOMAIN Shape, NEW x \in Leaves, IsPrefix(n, x)
  PROVE  n = x
<1>1. PICK m \in DOMAIN Shape, i \in Nat : i \in 1..width[m] /\ x = Append(m, i) /\ m \in Node
  BY LeafOf
<1>2. i \in Step /\ Len(n) \in Nat \ {0} /\ Len(m) \in Nat
  <2>1. Len(n) \in Nat /\ (Len(n) = 0 => n = <<>>)
    BY EmptySeq DEF Node
  <2> QED BY <1>1, <2>1 DEF Step, Node
<1>3. ASSUME IsPrefix(n, m)
      PROVE  FALSE
  <2>1. Len(n) <= Len(m) /\ SubSeq(m, 1, Len(n)) = n
    BY <1>3, SubSeqFull DEF IsPrefix, Node
  <2>2. CASE Len(n) = Len(m)
    BY <1>1, <2>1, <2>2, SubSeqFull DEF Node
  <2>3. CASE Len(n) < Len(m)
    <3>1. Len(n) \in 1..(Len(m) - 1)
      BY <1>2, <2>3
    <3> QED BY <2>1, <3>1, ShapeIs
  <2> QED BY <1>2, <2>1, <2>2, <2>3
<1> QED BY <1>1, <1>2, <1>3, PrefixAppend

\* A log that is cleared has no entries left; everything else stays.
LEMMA LeavesShrink ==
  ASSUME DeviceInv, DeviceInv', NEW l \in Logs, width' = [width EXCEPT ![l] = 0]
  PROVE  Leaves' \subseteq Leaves
<1> SUFFICES ASSUME NEW x \in Leaves'
             PROVE  x \in Leaves
  OBVIOUS
<1>1. \A m : DOMAIN (Kids(m)') = 1..width'[m] /\ \A i \in 1..width'[m] : Kids(m)'[i] = Append(m, i)
  BY DEF Kids
<1>2. \A m : x \in ToSet(Kids(m))' <=> \E i \in 1..width'[m] : x = Append(m, i)
  BY <1>1 DEF ToSet
<1>3. x \notin DOMAIN width' /\ \E m \in DOMAIN width' : Exists(m)' /\ \E i \in 1..width'[m] : x = Append(m, i)
  BY <1>2 DEF Leaves
<1>4. PICK m \in DOMAIN width' : Exists(m)' /\ \E i \in 1..width'[m] : x = Append(m, i)
  BY <1>3
<1>5. l \in DOMAIN width /\ DOMAIN width' = DOMAIN width /\ width'[l] = 0 /\ DOMAIN width = DOMAIN Shape
  BY LogsAre DEF DeviceInv
<1>6. m # l /\ width'[m] = width[m]
  BY <1>4, <1>5
<1>7. Exists(m)
  <2> SUFFICES ASSUME Len(m) > 1 PROVE Last(m) <= width[Front(m)]
    BY DEF Exists
  <2>1. m \in DOMAIN Shape /\ Len(m) \in Nat /\ Len(m) - 1 \in 1..(Len(m) - 1)
    BY <1>5, ShapeIs
  <2>2. Front(m) \in DOMAIN Shape /\ Front(m) # l
    BY <2>1, ShapeIs DEF Front
  <2>3. Last(m) <= width'[Front(m)]
    BY <1>4 DEF Exists
  <2>4. width'[Front(m)] = width[Front(m)]
    BY <1>5, <2>2
  <2> QED BY <2>3, <2>4
<1> QED BY <1>3, <1>4, <1>5, <1>6, <1>7, LeafIs

-----------------------------------------------------------------------------
(***************************************************************************)
(* The walk of an inventory.  What is still to be listed lies below what   *)
(* is to be read, and nothing is to be read twice.                         *)
(***************************************************************************)
\* No two of them lead to the same resource, or one to the other.
Apart(s) == \A j, k \in 1..Len(s) : IsPrefix(s[j], s[k]) => j = k
Distinct(s) == \A j, k \in 1..Len(s) : j < k => s[j] # s[k]
Parted(m, n) == ~ IsPrefix(m, n) /\ ~ IsPrefix(n, m)

LEMMA ApartTail ==
  ASSUME NEW s \in Nodes, s # <<>>, Apart(s)
  PROVE  Apart(Tail(s)) /\ \A m \in ToSet(Tail(s)) : Parted(m, Head(s))
<1> DEFINE q == Tail(s)
<1>1. /\ Head(s) = s[1] /\ Len(s) \in Nat \ {0} /\ q \in Seq(Node) /\ Len(q) = Len(s) - 1
      /\ \A j \in 1..(Len(s) - 1) : q[j] = s[j + 1]
  BY TailIs DEF Nodes
<1> HIDE DEF q
<1>2. DOMAIN q = 1..(Len(s) - 1)
  BY <1>1
<1>3. ASSUME NEW j \in 1..Len(q), NEW k \in 1..Len(q), IsPrefix(q[j], q[k])
      PROVE  j = k
  <2>1. j + 1 \in 1..Len(s) /\ k + 1 \in 1..Len(s) /\ q[j] = s[j + 1] /\ q[k] = s[k + 1]
    BY <1>1
  <2>2. j + 1 = k + 1
    BY <1>3, <2>1 DEF Apart
  <2> QED BY <1>1, <2>2
<1>4. ASSUME NEW m \in ToSet(q)
      PROVE  Parted(m, Head(s))
  <2>1. PICK j \in 1..(Len(s) - 1) : m = q[j]
    BY <1>2 DEF ToSet
  <2>2. m = s[j + 1] /\ j + 1 \in 1..Len(s) /\ j + 1 # 1 /\ 1 \in 1..Len(s)
    BY <1>1, <2>1
  <2> QED BY <1>1, <2>2 DEF Apart, Parted
<1> QED BY <1>3, <1>4 DEF Apart, q

LEMMA ApartConcat ==
  ASSUME NEW a \in Nodes, NEW b \in Nodes, Apart(a), Apart(b), \A m \in ToSet(a), n \in ToSet(b) : Parted(m, n)
  PROVE  a \o b \in Nodes /\ Apart(a \o b) /\ ToSet(a \o b) = ToSet(a) \cup ToSet(b)
<1> DEFINE q == a \o b
<1>1. /\ q \in Seq(Node) /\ Len(q) = Len(a) + Len(b)
      /\ \A i \in 1..(Len(a) + Len(b)) : q[i] = IF i <= Len(a) THEN a[i] ELSE b[i - Len(a)]
  BY ConcatProperties DEF Nodes
<1> HIDE DEF q
<1>2. Len(a) \in Nat /\ Len(b) \in Nat /\ DOMAIN q = 1..(Len(a) + Len(b)) /\ DOMAIN a = 1..Len(a)
      /\ DOMAIN b = 1..Len(b)
  BY <1>1 DEF Nodes
<1>3. ASSUME NEW i \in 1..(Len(a) + Len(b))
      PROVE  \/ i \in 1..Len(a) /\ q[i] = a[i] /\ q[i] \in ToSet(a)
             \/ i - Len(a) \in 1..Len(b) /\ q[i] = b[i - Len(a)] /\ q[i] \in ToSet(b)
  <2>1. CASE i <= Len(a)
    BY <1>1, <1>2, <2>1 DEF ToSet
  <2>2. CASE i > Len(a)
    <3>1. i - Len(a) \in 1..Len(b) /\ q[i] = b[i - Len(a)]
      BY <1>1, <1>2, <2>2
    <3> QED BY <1>2, <3>1 DEF ToSet
  <2> QED BY <1>2, <2>1, <2>2
<1>4. ASSUME NEW j \in 1..Len(q), NEW k \in 1..Len(q), IsPrefix(q[j], q[k])
      PROVE  j = k
  <2>1. j \in 1..(Len(a) + Len(b)) /\ k \in 1..(Len(a) + Len(b))
    BY <1>1
  <2>2. ~ (q[j] \in ToSet(a) /\ q[k] \in ToSet(b)) /\ ~ (q[j] \in ToSet(b) /\ q[k] \in ToSet(a))
    BY <1>4 DEF Parted
  <2>3. CASE j \in 1..Len(a) /\ q[j] = a[j] /\ k \in 1..Len(a) /\ q[k] = a[k]
    BY <1>4, <2>3 DEF Apart
  <2>4. CASE j - Len(a) \in 1..Len(b) /\ q[j] = b[j - Len(a)] /\ k - Len(a) \in 1..Len(b) /\ q[k] = b[k - Len(a)]
    <3>1. j - Len(a) = k - Len(a)
      BY <1>4, <2>4 DEF Apart
    <3> QED BY <1>2, <2>1, <3>1
  <2> QED BY <1>3, <2>1, <2>2, <2>3, <2>4
<1>5. ToSet(q) \subseteq ToSet(a) \cup ToSet(b)
  BY <1>2, <1>3 DEF ToSet
<1>6. ASSUME NEW i \in 1..Len(a)
      PROVE  a[i] \in ToSet(q)
  <2>1. i \in DOMAIN q /\ q[i] = a[i]
    BY <1>1, <1>2
  <2> QED BY <2>1 DEF ToSet
<1>7. ASSUME NEW i \in 1..Len(b)
      PROVE  b[i] \in ToSet(q)
  <2>1. i + Len(a) \in 1..(Len(a) + Len(b)) /\ ~ (i + Len(a) <= Len(a)) /\ (i + Len(a)) - Len(a) = i
    BY <1>2
  <2>2. q[i + Len(a)] = b[i]
    BY <1>1, <2>1
  <2> QED BY <1>2, <2>1, <2>2 DEF ToSet
<1>8. ToSet(a) \subseteq ToSet(q) /\ ToSet(b) \subseteq ToSet(q)
  BY <1>2, <1>6, <1>7 DEF ToSet
<1>9. Apart(q) /\ ToSet(q) = ToSet(a) \cup ToSet(b)
  BY <1>4, <1>5, <1>8 DEF Apart
<1> QED BY <1>1, <1>9 DEF Nodes, q

LEMMA ApartKids ==
  ASSUME NEW n \in Node, width[n] \in Nat
  PROVE  /\ Kids(n) \in Nodes /\ Apart(Kids(n))
         /\ ToSet(Kids(n)) = {Append(n, i) : i \in 1..width[n]}
<1> DEFINE q == Kids(n)
<1>1. q \in Nodes /\ Len(q) = width[n] /\ \A i \in 1..width[n] : q[i] = Append(n, i)
  BY KidsAre
<1> HIDE DEF q
<1>2. DOMAIN q = 1..width[n]
  BY <1>1 DEF Nodes
<1>3. 1..width[n] \subseteq Step
  BY DEF Step
<1>4. ASSUME NEW j \in 1..Len(q), NEW k \in 1..Len(q), IsPrefix(q[j], q[k])
      PROVE  j = k
  <2>1. j \in Step /\ k \in Step /\ q[j] = Append(n, j) /\ q[k] = Append(n, k)
    BY <1>1, <1>3
  <2>2. IsPrefix(Append(n, j), Append(n, k))
    BY <1>4, <2>1
  <2> QED BY <2>1, <2>2, MembersPart
<1>5. ToSet(q) = {Append(n, i) : i \in 1..width[n]}
  BY <1>1, <1>2 DEF ToSet
<1> QED BY <1>1, <1>4, <1>5 DEF q, Apart

LEMMA DistinctAppend ==
  ASSUME NEW s \in Nodes, NEW x \in Node, Distinct(s), x \notin ToSet(s)
  PROVE  /\ Distinct(Append(s, x)) /\ ToSet(Append(s, x)) = ToSet(s) \cup {x}
         /\ Append(s, x) \in Nodes /\ Len(Append(s, x)) = Len(s) + 1
<1> DEFINE q == Append(s, x)
<1>1. /\ q \in Seq(Node) /\ Len(q) = Len(s) + 1 /\ \A i \in 1..Len(s) : q[i] = s[i]
      /\ q[Len(s) + 1] = x
  BY AppendProperties DEF Nodes
<1>2. ToSet(q) = ToSet(s) \cup {x}
  BY AppendSet DEF Nodes
<1> HIDE DEF q
<1>3. Len(s) \in Nat /\ \A i \in 1..Len(s) : s[i] # x
  BY DEF ToSet, Nodes
<1>4. ASSUME NEW j \in 1..Len(q), NEW k \in 1..Len(q), j < k
      PROVE  q[j] # q[k]
  <2>1. j \in 1..Len(s) /\ q[j] = s[j] /\ k \in 1..(Len(s) + 1)
    BY <1>1, <1>3, <1>4
  <2>2. CASE k = Len(s) + 1
    BY <1>1, <1>3, <2>1, <2>2
  <2>3. CASE k \in 1..Len(s)
    BY <1>1, <1>4, <2>1, <2>3 DEF Distinct
  <2> QED BY <1>3, <2>1, <2>2, <2>3
<1> QED BY <1>1, <1>2, <1>4 DEF q, Distinct, Nodes

Most(c) == IF c.limit = 0 THEN 1 ELSE c.limit

\* A resource is read, passed over, or still below one that is to be read.
Covered(c, left) ==
  \A n \in Leaves : IsPrefix(c.top, n) => n \in ToSet(c.out) \/ \E m \in c.missed \cup left : IsPrefix(m, n)

\* An inventory under way: the resources to be read are apart, lie below its
\* collection, and lead to nothing that was read.
Walked(c) ==
  /\ Len(c.top) = 1 /\ c.top \notin Logs
  /\ Distinct(c.out) /\ Apart(c.todo)
  /\ \A m \in ToSet(c.todo) : IsPrefix(c.top, m) /\ \A n \in ToSet(c.out) : ~ IsPrefix(m, n)
  /\ c.limit # None => Len(c.out) < Most(c)
  /\ Covered(c, ToSet(c.todo))

\* One that has returned.
Listed(c) ==
  /\ Distinct(c.out)
  /\ c.limit # None => Len(c.out) <= Most(c)
  /\ (c.limit # None /\ Len(c.out) = Most(c)) \/ Covered(c, {})

WalkInv(c) ==
  c.kind = "list" => /\ c.result = "none" /\ c.pc # "idle" => Walked(c)
                     /\ c.result = "listed" => Listed(c)

ListingInv == FullWidth /\ \A t \in Tasks : WalkInv(call[t])

\* A resource without members is read.
LEMMA LeafRead ==
  ASSUME DeviceInv, NEW e \in Nat, NEW c \in CallType(e), Walked(c), c.todo # <<>>, NEW n \in CallType(e),
         Head(c.todo) \notin DOMAIN Shape, n.todo = Tail(c.todo), n.out = Append(c.out, Head(c.todo)),
         n.missed = c.missed, n.top = c.top, n.limit = c.limit
  PROVE  /\ n.limit # None => Len(n.out) <= Most(n)
         /\ Distinct(n.out) /\ Covered(n, ToSet(n.todo))
         /\ (n.limit # None => Len(n.out) < Most(n)) => Walked(n)
<1> DEFINE h == Head(c.todo)
<1>1. h \in Node /\ ToSet(c.todo) = {h} \cup ToSet(n.todo) /\ n.todo \in Nodes /\ c.out \in Nodes /\ c.todo \in Nodes
      /\ c.top \in Node /\ c.missed \subseteq Node
  BY TailIs, TailSet DEF CallType, Nodes, Missed
<1>2. Apart(n.todo) /\ \A m \in ToSet(n.todo) : Parted(m, h)
  BY <1>1, ApartTail DEF Walked
<1>3. IsPrefix(c.top, h) /\ h # <<>>
  BY <1>1 DEF Walked, IsPrefix
<1>4. h \notin ToSet(c.out)
  BY <1>1, PrefixSelf DEF Walked
<1>5. /\ Distinct(n.out) /\ ToSet(n.out) = ToSet(c.out) \cup {h} /\ Len(n.out) = Len(c.out) + 1
      /\ Len(c.out) \in Nat
  BY <1>1, <1>4, DistinctAppend DEF Walked, Nodes
<1> HIDE DEF h
<1>6. Covered(n, ToSet(n.todo))
  <2> SUFFICES ASSUME NEW x \in Leaves, IsPrefix(c.top, x), ~ \E m \in c.missed \cup ToSet(n.todo) : IsPrefix(m, x)
               PROVE  x \in ToSet(n.out)
    BY DEF Covered
  <2>1. x \in ToSet(c.out) \/ \E m \in c.missed \cup ToSet(c.todo) : IsPrefix(m, x)
    BY DEF Walked, Covered
  <2>2. x \in ToSet(c.out) \/ IsPrefix(h, x)
    BY <1>1, <2>1
  <2>3. IsPrefix(h, x) => h = x
    BY <1>1, <1>3, BelowLeaf DEF h
  <2> QED BY <1>5, <2>2, <2>3
<1>7. c.limit # None => Len(n.out) <= Most(n)
  <2>1. c.limit \in Nat \cup {None}
    BY DEF CallType, Limit
  <2> QED BY <1>5, <2>1 DEF Walked, Most
<1>8. \A m \in ToSet(n.todo) : IsPrefix(n.top, m) /\ \A x \in ToSet(n.out) : ~ IsPrefix(m, x)
  BY <1>1, <1>2, <1>5 DEF Walked, Parted
<1>9. Len(n.top) = 1 /\ n.top \notin Logs
  BY DEF Walked
<1> QED BY <1>2, <1>5, <1>6, <1>7, <1>8, <1>9 DEF Walked

\* An inventory comes to no log.
LEMMA NoLogLeft ==
  ASSUME NEW e \in Nat, NEW c \in CallType(e), Walked(c), c.todo # <<>>
  PROVE  Head(c.todo) \notin Logs
<1> DEFINE h == Head(c.todo)
<1>1. h \in Node /\ h \in ToSet(c.todo) /\ c.top \in Node
  BY TailIs, TailSet DEF CallType, Nodes
<1> HIDE DEF h
<1>2. IsPrefix(c.top, h) /\ Len(c.top) = 1 /\ c.top \notin Logs
  BY <1>1 DEF Walked
<1>3. ASSUME h \in Logs
      PROVE  FALSE
  <2>1. Len(h) = 1
    BY <1>3, LogsAre
  <2>2. c.top = h
    BY <1>1, <1>2, <2>1, SubSeqFull DEF IsPrefix, Node
  <2> QED BY <1>2, <1>3, <2>2
<1> QED BY <1>3 DEF h

\* The members take the place of a resource.
LEMMA MembersRead ==
  ASSUME DeviceInv, FullWidth, NEW e \in Nat, NEW c \in CallType(e), Walked(c), c.todo # <<>>, NEW n \in CallType(e),
         Head(c.todo) \in DOMAIN Shape, n.todo = Kids(Head(c.todo)) \o Tail(c.todo), n.out = c.out,
         n.missed = c.missed, n.top = c.top, n.limit = c.limit
  PROVE  Walked(n)
<1> DEFINE h == Head(c.todo)
           q == Tail(c.todo)
           k == Kids(h)
<1>1. h \in Node /\ ToSet(c.todo) = {h} \cup ToSet(q) /\ q \in Nodes /\ c.out \in Nodes /\ c.todo \in Nodes
      /\ c.top \in Node /\ c.missed \subseteq Node
  BY TailIs, TailSet DEF CallType, Nodes, Missed
<1>2. Apart(q) /\ \A m \in ToSet(q) : Parted(m, h) /\ m \in Node
  <2>1. ToSet(q) \subseteq Node
    BY <1>1 DEF ToSet, Nodes
  <2> HIDE DEF h, q
  <2>2. Apart(q) /\ \A m \in ToSet(q) : Parted(m, h)
    BY <1>1, ApartTail DEF Walked, h, q
  <2> QED BY <2>1, <2>2
<1>3. width[h] \in Nat
  BY ShapeIs DEF DeviceInv
<1> HIDE DEF h, q
<1>4. k \in Nodes /\ Apart(k) /\ ToSet(k) = {Append(h, i) : i \in 1..width[h]}
  BY <1>1, <1>3, ApartKids
<1> HIDE DEF k
<1>5. IsPrefix(c.top, h) /\ \A x \in ToSet(c.out) : ~ IsPrefix(h, x)
  BY <1>1 DEF Walked
<1>6. ASSUME NEW i \in 1..width[h]
      PROVE  /\ IsPrefix(c.top, Append(h, i)) /\ Append(h, i) \in Node
             /\ \A x \in Node : IsPrefix(Append(h, i), x) => IsPrefix(h, x)
             /\ \A m \in ToSet(q) : Parted(Append(h, i), m)
  <2>1. i \in Step
    BY DEF Step
  <2>2. Append(h, i) \in Node /\ IsPrefix(h, Append(h, i))
    BY <1>1, <2>1, PrefixAppend, MembersPart
  <2>3. \A x \in Node : IsPrefix(Append(h, i), x) => IsPrefix(h, x)
    BY <1>1, <2>2, PrefixTrans
  <2>4. IsPrefix(c.top, Append(h, i))
    BY <1>1, <1>5, <2>2, PrefixTrans
  <2>5. ASSUME NEW m \in ToSet(q)
        PROVE  Parted(Append(h, i), m)
    <3>1. ~ IsPrefix(Append(h, i), m)
      BY <1>2, <2>3 DEF Parted
    <3>2. ~ IsPrefix(m, Append(h, i))
      <4>1. m # Append(h, i)
        BY <1>2, <2>2 DEF Parted
      <4> QED BY <1>1, <1>2, <2>1, <4>1, PrefixAppend DEF Parted
    <3> QED BY <3>1, <3>2 DEF Parted
  <2> QED BY <2>2, <2>3, <2>4, <2>5
<1>7. n.todo \in Nodes /\ Apart(n.todo) /\ ToSet(n.todo) = ToSet(k) \cup ToSet(q)
  <2>1. \A a \in ToSet(k), b \in ToSet(q) : Parted(a, b)
    BY <1>4, <1>6
  <2>2. n.todo = k \o q
    BY DEF k, q, h
  <2> QED BY <1>1, <1>2, <1>4, <2>1, <2>2, ApartConcat
<1>8. ToSet(c.out) \subseteq Node
  BY <1>1 DEF ToSet, Nodes
<1>9. \A m \in ToSet(n.todo) : IsPrefix(n.top, m) /\ \A x \in ToSet(n.out) : ~ IsPrefix(m, x)
  <2>1. ASSUME NEW m \in ToSet(k)
        PROVE  IsPrefix(n.top, m) /\ \A x \in ToSet(n.out) : ~ IsPrefix(m, x)
    BY <1>4, <1>5, <1>6, <1>8
  <2>2. ASSUME NEW m \in ToSet(q)
        PROVE  IsPrefix(n.top, m) /\ \A x \in ToSet(n.out) : ~ IsPrefix(m, x)
    BY <1>1 DEF Walked
  <2> QED BY <1>7, <2>1, <2>2
<1>10. h \notin Logs
  BY NoLogLeft DEF h
<1>11. Covered(n, ToSet(n.todo))
  <2> SUFFICES ASSUME NEW x \in Leaves, IsPrefix(c.top, x), x \notin ToSet(c.out)
               PROVE  \E m \in c.missed \cup ToSet(n.todo) : IsPrefix(m, x)
    BY DEF Covered
  <2>1. \E m \in c.missed \cup ToSet(c.todo) : IsPrefix(m, x)
    BY DEF Walked, Covered
  <2>2. ASSUME IsPrefix(h, x)
        PROVE  \E m \in ToSet(k) : IsPrefix(m, x)
    <3>1. PICK i \in 1..width[h] : IsPrefix(Append(h, i), x)
      BY <1>10, <2>2, BelowMember DEF h
    <3> QED BY <1>4, <3>1
  <2> QED BY <1>1, <1>7, <2>1, <2>2
<1>12. Len(n.top) = 1 /\ n.top \notin Logs /\ Distinct(n.out) /\ (n.limit # None => Len(n.out) < Most(n))
  BY DEF Walked, Most
<1> QED BY <1>7, <1>9, <1>11, <1>12 DEF Walked

LEMMA ReadWalks ==
  ASSUME DeviceInv, FullWidth, NEW e \in Nat, NEW c \in CallType(e), c.kind = "list", Walked(c), c.todo # <<>>,
         c.result = "none"
  PROVE  WalkInv(Read(c, Head(c.todo)))
<1> DEFINE h == Head(c.todo)
           q == Tail(c.todo)
           n == Read(c, h)
<1>1. h \in Node /\ q \in Nodes /\ c.out \in Nodes
  BY TailIs DEF CallType, Nodes
<1>2. DOMAIN width = DOMAIN Shape /\ ~ IsLog(h)
  BY NoLogLeft, LogsAre DEF DeviceInv, IsLog
<1>3. CASE h \in DOMAIN width
  <2> DEFINE td == Kids(h) \o q
  <2>1. n = [c EXCEPT !.todo = td]
    BY <1>2, <1>3 DEF Read
  <2>2. td \in Nodes
    <3>1. Kids(h) \in Nodes
      <4> HIDE DEF h
      <4>1. width[h] \in Nat
        BY <1>2, <1>3, ShapeIs DEF DeviceInv
      <4> QED BY <1>1, <4>1, KidsAre
    <3> QED BY <1>1, <3>1, ConcatProperties DEF Nodes
  <2> HIDE DEF td, n
  <2>3. n \in CallType(e) /\ n.todo = td /\ n.out = c.out /\ n.missed = c.missed /\ n.top = c.top
        /\ n.limit = c.limit /\ n.result = "none"
    BY <2>1, <2>2, LeftIs
  <2>4. Walked(n)
    BY <1>2, <1>3, <2>3, MembersRead DEF td
  <2> QED BY <2>3, <2>4 DEF WalkInv, n
<1>4. CASE h \notin DOMAIN width
  <2> DEFINE d == [c EXCEPT !.todo = q]
             o == Append(c.out, h)
             f == [d EXCEPT !.out = o]
  <2>1. o \in Nodes /\ Len(o) = Len(c.out) + 1 /\ Len(c.out) \in Nat
    BY <1>1, AppendProperties DEF Nodes
  <2>2. d.out = c.out
    BY <1>1, LeftIs
  <2>3. n = IF AtLimit(f) THEN Ended(f, "listed") ELSE f
    BY <1>4, <2>2 DEF Read, With
  <2> HIDE DEF n, h, q, o
  <2>4. /\ f \in CallType(e) /\ f.todo = q /\ f.out = o /\ f.missed = c.missed /\ f.top = c.top
        /\ f.limit = c.limit /\ f.result = "none" /\ f.kind = "list"
    <3>1. /\ d \in CallType(e) /\ d.todo = q /\ d.missed = c.missed /\ d.top = c.top
          /\ d.limit = c.limit /\ d.result = "none" /\ d.kind = "list"
      BY <1>1, LeftIs
    <3> HIDE DEF d
    <3> QED BY <2>1, <3>1 DEF CallType
  <2> HIDE DEF f, d
  <2>5. /\ f.limit # None => Len(f.out) <= Most(f)
        /\ Distinct(f.out) /\ Covered(f, ToSet(f.todo))
        /\ (f.limit # None => Len(f.out) < Most(f)) => Walked(f)
    BY <1>2, <1>4, <2>4, LeafRead DEF h, q, o
  <2>6. f.limit \in Nat \cup {None} /\ Len(f.out) \in Nat \ {0}
    BY <2>1, <2>4 DEF CallType, Limit
  <2>7. CASE AtLimit(f)
    <3>1. "listed" \in Results /\ "listed" # "none"
      BY DEF Results
    <3>2. /\ n.todo = f.todo /\ n.out = f.out /\ n.missed = f.missed /\ n.top = f.top /\ n.limit = f.limit
          /\ n.result = "listed"
      BY <2>3, <2>4, <2>7, <3>1, EndedIs
    <3>3. f.limit # None /\ Len(f.out) = Most(f)
      BY <2>5, <2>6, <2>7 DEF AtLimit, Most
    <3>4. Listed(n)
      BY <2>5, <2>6, <3>2, <3>3 DEF Listed, Most
    <3> QED BY <3>2, <3>4 DEF WalkInv, n, h
  <2>8. CASE ~ AtLimit(f)
    <3>1. f.limit # None => Len(f.out) < Most(f)
      BY <2>6, <2>8 DEF AtLimit, Most
    <3> QED BY <2>3, <2>4, <2>5, <2>8, <3>1 DEF WalkInv, n, h
  <2> QED BY <2>7, <2>8
<1> QED BY <1>3, <1>4

\* A resource is passed over with all that lies below it.
LEMMA SkipWalks ==
  ASSUME NEW e \in Nat, NEW c \in CallType(e), Walked(c), c.todo # <<>>, NEW n \in CallType(e),
         n.todo = Tail(c.todo), n.out = c.out, n.missed = c.missed \cup {Head(c.todo)}, n.top = c.top, n.limit = c.limit
  PROVE  Walked(n)
<1>1. ToSet(c.todo) = {Head(c.todo)} \cup ToSet(n.todo) /\ c.todo \in Nodes
  BY TailSet DEF CallType, Nodes
<1>2. Apart(n.todo)
  BY <1>1, ApartTail DEF Walked
<1>3. Covered(n, ToSet(n.todo))
  BY <1>1 DEF Walked, Covered
<1> QED BY <1>1, <1>2, <1>3 DEF Walked, Most

\* The call of an inventory.
LEMMA CallWalks ==
  ASSUME NEW c, NEW x \in DOMAIN RootOf, c.top = <<x>>, c.top \notin Logs, c.todo = <<c.top>>, c.out = <<>>,
         c.limit \in Limit
  PROVE  Walked(c)
<1>1. <<x>> \in Node /\ Len(<<x>>) = 1 /\ IsPrefix(<<x>>, <<x>>)
  BY StepIsNode, PrefixSelf DEF Step
<1>2. Len(c.todo) = 1 /\ ToSet(c.todo) = {<<x>>} /\ Apart(c.todo)
  <2>1. DOMAIN c.todo = 1..1 /\ c.todo[1] = c.top /\ Len(c.todo) = 1
    OBVIOUS
  <2> QED BY <2>1 DEF ToSet, Apart
<1>3. ToSet(c.out) = {} /\ Distinct(c.out) /\ Len(c.out) = 0
  BY DEF ToSet, Distinct
<1>4. c.limit # None => Len(c.out) < Most(c)
  BY <1>3 DEF Most, Limit
<1>5. Covered(c, ToSet(c.todo))
  BY <1>2 DEF Covered
<1> QED BY <1>1, <1>2, <1>3, <1>4, <1>5 DEF Walked

\* Nothing is left.
LEMMA EndWalks ==
  ASSUME NEW c, Walked(c), c.todo = <<>>, NEW e, c \in CallType(e), NEW n, n.out = c.out, n.missed = c.missed, n.top = c.top,
         n.limit = c.limit
  PROVE  Listed(n)
<1>1. ToSet(c.todo) = {}
  BY DEF ToSet
<1>2. c.limit \in Nat \cup {None} /\ Len(c.out) \in Nat
  BY DEF CallType, Limit, Nodes
<1> QED BY <1>1, <1>2 DEF Walked, Listed, Covered, Most

\* What is there to be listed may become less.
LEMMA WalkInvStays ==
  ASSUME NEW c, WalkInv(c), Leaves' \subseteq Leaves
  PROVE  WalkInv(c)'
<1>1. \A S : Covered(c, S) => Covered(c, S)'
  BY DEF Covered
<1>2. Walked(c) => Walked(c)'
  BY <1>1 DEF Walked
<1>3. Listed(c) => Listed(c)'
  BY <1>1 DEF Listed
<1> QED BY <1>2, <1>3 DEF WalkInv

\* A step of task t that leaves the resources alone.
LEMMA WalkStep ==
  ASSUME OpsInv, ListingInv, UNCHANGED width, NEW t \in Tasks, NEW n, Become(t, n), WalkInv(n)
  PROVE  ListingInv'
<1>1. call' = [call EXCEPT ![t] = n] /\ call \in [Tasks -> CallType(epoch)]
  BY DEF Become, OpsInv
<1>2. Leaves' \subseteq Leaves
  BY DEF Leaves, Kids, Exists
<1>3. ASSUME NEW u \in Tasks
      PROVE  WalkInv(call[u])'
  <2>1. PICK m : m = call'[u]
    OBVIOUS
  <2>2. WalkInv(m)
    BY <1>1, <2>1 DEF ListingInv
  <2>3. WalkInv(m)'
    BY <1>2, <2>2, WalkInvStays
  <2> QED BY <2>1, <2>3
<1> QED BY <1>3 DEF ListingInv, FullWidth

\* A call of another kind, and one that raised.
LEMMA NoWalk ==
  ASSUME NEW n, n.kind # "list" \/ n.result \notin {"none", "listed"}
  PROVE  WalkInv(n)
BY DEF WalkInv

\* The calls begin and are over.
LEMMA CallsWalk ==
  ASSUME OpsInv, ListingInv, NEW t \in Tasks, Calls(t) \/ Take(t)
  PROVE  ListingInv'
<1>1. epoch \in Nat /\ Idle \in CallType(epoch) /\ Idle.kind = "list" /\ Idle.pc = "idle" /\ Idle.out = <<>>
      /\ Idle.result = "none"
  <2>1. epoch \in Nat
    BY DEF OpsInv, DeviceInv
  <2> QED BY <2>1, IdleTyped DEF Idle
<1>2. ASSUME NEW n, Begin(t, n), WalkInv(n)
      PROVE  ListingInv'
  BY <1>2, WalkStep DEF Begin, device
<1>3. ASSUME NEW l \in Lists, CallList(t, l)
      PROVE  ListingInv'
  <2>1. l.top \in {<<x>> : x \in DOMAIN RootOf} /\ l.top \notin Logs /\ l.limit \in Limit
    BY OpsAssumption, LogsAre DEF Limit
  <2>2. PICK x \in DOMAIN RootOf : l.top = <<x>>
    BY <2>1
  <2> DEFINE rs == IF RootOf[l.top[1]] \in Roots THEN <<RootOf[l.top[1]]>> ELSE <<>>
             pc == IF RootOf[l.top[1]] \in Roots THEN "path" ELSE "walk"
             td == <<l.top>>
             n  == [Idle EXCEPT !.kind = "list", !.top = l.top, !.limit = l.limit, !.todo = td,
                                !.roots = rs, !.pc = pc]
  <2>3. Begin(t, n)
    BY <1>3 DEF CallList
  <2> HIDE DEF rs, pc
  <2>4. n.kind = "list" /\ n.top = l.top /\ n.limit = l.limit /\ n.todo = td /\ n.out = <<>> /\ n.result = "none"
    <3> HIDE DEF td
    <3> QED BY <1>1 DEF CallType
  <2> HIDE DEF n
  <2>5. Walked(n)
    BY <2>1, <2>2, <2>4, CallWalks
  <2> QED BY <1>2, <2>3, <2>4, <2>5 DEF WalkInv
<1>4. ASSUME NEW n, Begin(t, n), n.kind # "list"
      PROVE  ListingInv'
  BY <1>2, <1>4, NoWalk
<1>5. ASSUME NEW limit, CallSel(t, limit)
      PROVE  ListingInv'
  <2> DEFINE rs == <<"system", "manager">>
             n  == [Idle EXCEPT !.kind = "sel", !.limit = limit, !.roots = rs, !.pc = "path"]
  <2>1. Begin(t, n)
    BY <1>5 DEF CallSel
  <2> HIDE DEF rs
  <2>2. n.kind = "sel"
    BY <1>1 DEF CallType
  <2> QED BY <1>4, <2>1, <2>2
<1>6. CASE CallClear(t)
  <2> DEFINE rs == <<"system", "manager">>
             n  == [Idle EXCEPT !.kind = "clear", !.roots = rs, !.pc = "path"]
  <2>1. Begin(t, n)
    BY <1>6 DEF CallClear
  <2> HIDE DEF rs
  <2>2. n.kind = "clear"
    BY <1>1 DEF CallType
  <2> QED BY <1>4, <2>1, <2>2
<1>7. ASSUME NEW image, CallInsert(t, image)
      PROVE  ListingInv'
  <2> DEFINE td == <<Media>>
             n  == [Idle EXCEPT !.kind = "insert", !.image = image, !.todo = td, !.pc = "managers"]
  <2>1. Begin(t, n)
    BY <1>7 DEF CallInsert
  <2> HIDE DEF td
  <2>2. n.kind = "insert"
    BY <1>1 DEF CallType
  <2> QED BY <1>4, <2>1, <2>2
<1>8. CASE CallEject(t)
  <2> DEFINE td == <<Media>>
             n  == [Idle EXCEPT !.kind = "eject", !.todo = td, !.pc = "managers"]
  <2>1. Begin(t, n)
    BY <1>8 DEF CallEject
  <2> HIDE DEF td
  <2>2. n.kind = "eject"
    BY <1>1 DEF CallType
  <2> QED BY <1>4, <2>1, <2>2
<1>9. CASE Take(t)
  <2>1. WalkInv(Idle)
    BY <1>1 DEF WalkInv
  <2> QED BY <1>9, <2>1, WalkStep DEF Take, device
<1> QED BY <1>3, <1>5, <1>6, <1>7, <1>8, <1>9 DEF Calls

\* A call that goes on with the same walk.
LEMMA SameWalk ==
  ASSUME NEW c, NEW n, WalkInv(c), n.kind = c.kind, c.result = "none", c.pc # "idle", n.result = "none",
         c.kind = "list" => /\ n.todo = c.todo /\ n.out = c.out /\ n.missed = c.missed /\ n.top = c.top /\ n.limit = c.limit
  PROVE  WalkInv(n)
BY DEF WalkInv, Walked, Covered, Most

\* The paths of the roots.
LEMMA PathsWalk ==
  ASSUME OpsInv, ListingInv, NEW t \in Tasks, CachedPath(t) \/ AnswerPath(t) \/ StorePath(t) \/ PathFails(t)
  PROVE  ListingInv'
<1> PICK c : c = call[t]
  OBVIOUS
<1>1. epoch \in Nat /\ c \in CallType(epoch) /\ KindInv(c) /\ WalkInv(c) /\ cache \in [Roots -> Epochs(epoch)]
  BY CallIs DEF OpsInv, ListingInv, DeviceInv, Epochs
<1>2. c.pc \in {"path", "store"} /\ c.result = "none" /\ c.roots # <<>> /\ UNCHANGED width
  BY <1>1 DEF CachedPath, AnswerPath, StorePath, PathFails, KindInv, device
<1>3. Head(c.roots) \in Roots /\ (c.kind \in {"sel", "clear"} => Head(c.roots) \in {"system", "manager"})
  BY <1>1, <1>2, TailIs, LookingRoots DEF CallType, Route
<1>4. ASSUME NEW k \in Epochs(epoch)
      PROVE  /\ WalkInv(Found(c, k)) /\ Found(c, k).kind = c.kind /\ Found(c, k) \in CallType(epoch)
  <2> DEFINE n == Found(c, k)
  <2>1. n.kind = c.kind /\ n.result = c.result /\ n.top = c.top /\ n.limit = c.limit /\ n.missed = c.missed
        /\ n.out = c.out /\ (c.kind = "list" => n.todo = c.todo) /\ n \in CallType(epoch)
    BY <1>1, <1>2, <1>3, FoundIs
  <2> HIDE DEF n
  <2>2. WalkInv(n)
    BY <1>1, <1>2, <2>1, SameWalk
  <2> QED BY <2>1, <2>2 DEF n
<1>5. CASE CachedPath(t)
  <2>1. Become(t, Found(c, cache[Head(c.roots)]))
    BY <1>5 DEF CachedPath
  <2> QED BY <1>1, <1>2, <1>3, <1>4, <2>1, WalkStep
<1>6. CASE AnswerPath(t)
  <2> DEFINE n == [c EXCEPT !.pc = "store", !.answer = epoch]
  <2>1. Become(t, n)
    BY <1>6 DEF AnswerPath
  <2>2. n.kind = c.kind /\ n.result = c.result /\ n.top = c.top /\ n.limit = c.limit /\ n.missed = c.missed
        /\ n.out = c.out /\ n.todo = c.todo
    BY <1>1 DEF CallType
  <2> HIDE DEF n
  <2>3. WalkInv(n)
    BY <1>1, <1>2, <2>2, SameWalk
  <2> QED BY <1>2, <2>1, <2>3, WalkStep
<1>7. CASE StorePath(t)
  <2>1. Become(t, Found(c, c.answer)) /\ c.answer \in Epochs(epoch)
    BY <1>1, <1>7 DEF StorePath, CallType
  <2> QED BY <1>2, <1>4, <2>1, WalkStep
<1>8. CASE PathFails(t)
  <2>1. 0 \in Epochs(epoch)
    BY <1>1 DEF Epochs
  <2>2. ASSUME NEW r \in {"RedfishError", "HTTPError"}, Become(t, Ended(c, r))
        PROVE  ListingInv'
    <3>1. Ended(c, r).result = r
      BY <1>1, EndedIs DEF Results
    <3>2. WalkInv(Ended(c, r))
      BY <3>1, NoWalk
    <3> QED BY <1>2, <2>2, <3>2, WalkStep
  <2>3. CASE c.kind # "list" /\ ~ Become(t, Ended(c, "HTTPError"))
    <3> DEFINE f == Found(c, 0)
               S == ToSet(LogsOf[Head(c.roots)])
               n == [f EXCEPT !.todo = c.todo, !.missed = @ \cup S]
    <3>1. Become(t, n)
      BY <1>8, <2>3 DEF PathFails
    <3>2. f \in CallType(epoch) /\ f.kind = c.kind
      BY <1>4, <2>1
    <3> HIDE DEF f, S
    <3>3. n.kind # "list"
      BY <2>3, <3>2 DEF CallType
    <3> HIDE DEF n
    <3> QED BY <1>2, <3>1, <3>3, NoWalk, WalkStep
  <2>4. c.kind = "list" => \E r \in {"RedfishError", "HTTPError"} : Become(t, Ended(c, r))
    BY <1>8 DEF PathFails
  <2> QED BY <2>2, <2>3, <2>4
<1> QED BY <1>5, <1>6, <1>7, <1>8

LEMMA ReadNextWalks ==
  ASSUME OpsInv, ListingInv, NEW t \in Tasks, ReadNext(t)
  PROVE  ListingInv'
<1> PICK c : c = call[t]
  OBVIOUS
<1>1. epoch \in Nat /\ c \in CallType(epoch) /\ KindInv(c) /\ WalkInv(c) /\ DeviceInv /\ FullWidth
  BY CallIs DEF OpsInv, ListingInv
<1>2. c.pc = "walk" /\ c.kind \in {"list", "sel"} /\ c.todo # <<>> /\ c.result = "none" /\ UNCHANGED width
  BY <1>1 DEF ReadNext, Walking, KindInv, device
<1> DEFINE n == Read(c, Head(c.todo))
<1>3. Become(t, n)
  BY DEF ReadNext, Target
<1>4. WalkInv(n)
  <2>1. CASE c.kind = "list"
    <3>1. Walked(c)
      BY <1>1, <1>2, <2>1 DEF WalkInv
    <3> QED BY <1>1, <1>2, <2>1, <3>1, ReadWalks
  <2>2. CASE c.kind # "list"
    <3>1. n.kind = c.kind
      BY <1>1, <1>2, ReadIs
    <3> HIDE DEF n
    <3> QED BY <2>2, <3>1, NoWalk
  <2> QED BY <2>1, <2>2
<1> HIDE DEF n
<1> QED BY <1>2, <1>3, <1>4, WalkStep

LEMMA SkipKeepsWalk ==
  ASSUME OpsInv, ListingInv, NEW t \in Tasks, Skip(t)
  PROVE  ListingInv'
<1> PICK c : c = call[t]
  OBVIOUS
<1>1. epoch \in Nat /\ c \in CallType(epoch) /\ KindInv(c) /\ WalkInv(c)
  BY CallIs DEF OpsInv, ListingInv
<1>2. c.pc = "walk" /\ c.todo # <<>> /\ c.result = "none" /\ UNCHANGED width
  BY <1>1 DEF Skip, Walking, KindInv, device
<1> DEFINE td == Tail(c.todo)
           ms == c.missed \cup {Head(c.todo)}
           n  == [c EXCEPT !.todo = td, !.missed = ms]
<1>3. Become(t, n)
  BY DEF Skip, Target
<1>4. td \in Nodes /\ ms \in Missed
  BY <1>1, <1>2, TailIs DEF CallType, Nodes, Missed
<1>5. n \in CallType(epoch) /\ n.kind = c.kind /\ n.todo = td /\ n.out = c.out /\ n.missed = ms /\ n.top = c.top
      /\ n.limit = c.limit /\ n.result = "none"
  <2> HIDE DEF td, ms
  <2> QED BY <1>1, <1>2, <1>4 DEF CallType
<1> HIDE DEF n
<1>6. WalkInv(n)
  <2>1. CASE c.kind = "list"
    <3>1. Walked(c)
      BY <1>1, <1>2, <2>1 DEF WalkInv
    <3>2. Walked(n)
      BY <1>1, <1>2, <1>5, <3>1, SkipWalks
    <3> QED BY <1>5, <3>2 DEF WalkInv
  <2>2. CASE c.kind # "list"
    BY <1>5, <2>2, NoWalk
  <2> QED BY <2>1, <2>2
<1> QED BY <1>2, <1>3, <1>6, WalkStep

LEMMA WalkEndsWalks ==
  ASSUME OpsInv, ListingInv, NEW t \in Tasks, WalkRaises(t) \/ WalkEnds(t)
  PROVE  ListingInv'
<1> PICK c : c = call[t]
  OBVIOUS
<1>1. epoch \in Nat /\ c \in CallType(epoch) /\ KindInv(c) /\ WalkInv(c)
  BY CallIs DEF OpsInv, ListingInv
<1>2. c.result = "none" /\ UNCHANGED width /\ (WalkEnds(t) => c.pc = "walk")
  BY <1>1 DEF WalkRaises, WalkEnds, Walking, KindInv, device
<1>3. CASE WalkRaises(t)
  <2>1. PICK r \in {"RedfishError", "HTTPError"} : Become(t, Ended(c, r))
    BY <1>3 DEF WalkRaises, Errors
  <2>2. Ended(c, r).result = r
    BY <1>1, EndedIs DEF Results
  <2>3. WalkInv(Ended(c, r))
    BY <2>2, NoWalk
  <2> QED BY <1>2, <2>1, <2>3, WalkStep
<1>4. CASE WalkEnds(t) /\ c.kind = "list"
  <2>1. Become(t, Ended(c, "listed")) /\ c.todo = <<>>
    BY <1>4 DEF WalkEnds
  <2> DEFINE n == Ended(c, "listed")
  <2>2. n.result = "listed" /\ n.todo = c.todo /\ n.out = c.out /\ n.missed = c.missed /\ n.top = c.top
        /\ n.limit = c.limit
    BY <1>1, EndedIs DEF Results
  <2> HIDE DEF n
  <2>3. Walked(c)
    BY <1>1, <1>2, <1>4 DEF WalkInv
  <2>4. Listed(n)
    BY <1>1, <2>1, <2>2, <2>3, EndWalks
  <2>5. WalkInv(n)
    BY <2>2, <2>4 DEF WalkInv
  <2> QED BY <1>2, <2>1, <2>5, WalkStep DEF n
<1>5. CASE WalkEnds(t) /\ c.kind # "list"
  <2> DEFINE r == CASE c.kind \in {"list", "sel"} -> "listed"
                    [] c.kind = "clear" -> "RedfishError"
                    [] c.kind = "eject" -> "ejected"
  <2>1. Become(t, Ended(c, r)) /\ c.todo = <<>>
    BY <1>5 DEF WalkEnds
  <2>2. c.kind \in {"sel", "clear", "eject"}
    <3>0. <<>> # <<Media>>
      OBVIOUS
    <3>1. c.kind # "insert"
      BY <1>1, <1>2, <1>5, <2>1, <3>0 DEF KindInv, InsertInv
    <3> QED BY <1>1, <1>5, <3>1 DEF CallType, Kinds
  <2>3. r \in Results /\ r # "none"
    BY <2>2 DEF Results
  <2> HIDE DEF r
  <2>4. Ended(c, r).kind = c.kind
    BY <1>1, <2>3, EndedIs
  <2>5. WalkInv(Ended(c, r))
    BY <1>5, <2>4, NoWalk
  <2> QED BY <1>2, <2>1, <2>5, WalkStep
<1> QED BY <1>3, <1>4, <1>5

\* A step that leaves the inventories alone.
LEMMA OtherWalk ==
  ASSUME ListingInv, FullWidth', Leaves' \subseteq Leaves,
         \A u \in Tasks : call'[u] = call[u] \/ call'[u].kind # "list"
  PROVE  ListingInv'
<1>1. ASSUME NEW u \in Tasks
      PROVE  WalkInv(call[u])'
  <2>1. PICK m : m = call'[u]
    OBVIOUS
  <2>2. WalkInv(m)
    <3>1. CASE m = call[u]
      BY <3>1 DEF ListingInv
    <3>2. CASE m.kind # "list"
      BY <3>2, NoWalk
    <3> QED BY <2>1, <3>1, <3>2
  <2>3. WalkInv(m)'
    BY <2>2, WalkInvStays
  <2> QED BY <2>1, <2>3
<1> QED BY <1>1 DEF ListingInv

LEMMA SameWidth ==
  ASSUME ListingInv, UNCHANGED width
  PROVE  FullWidth' /\ Leaves' \subseteq Leaves
BY DEF ListingInv, FullWidth, Leaves, Kids, Exists

LEMMA BecomeOther ==
  ASSUME OpsInv, ListingInv, UNCHANGED width, NEW t \in Tasks, NEW n, Become(t, n), n.kind # "list"
  PROVE  ListingInv'
BY NoWalk, WalkStep

\* A change of the other fields leaves the kind of a call.
LEMMA KindStays ==
  ASSUME NEW c, "kind" \in DOMAIN c, NEW a, NEW b, NEW d, NEW e
  PROVE  /\ [c EXCEPT !.pc = a].kind = c.kind
         /\ [c EXCEPT !.todo = a].kind = c.kind
         /\ [c EXCEPT !.foreign = a].kind = c.kind
         /\ [c EXCEPT !.pc = a, !.slot = b].kind = c.kind
         /\ [c EXCEPT !.pc = a, !.path = b].kind = c.kind
         /\ [c EXCEPT !.pc = a, !.todo = b, !.slot = d].kind = c.kind
         /\ [c EXCEPT !.slot = a, !.busy = b, !.todo = d].kind = c.kind
         /\ "kind" \in DOMAIN [c EXCEPT !.slot = a, !.busy = b, !.todo = d]
         /\ [c EXCEPT !.slot = a, !.busy = b, !.todo = d, !.pc = e].kind = c.kind
OBVIOUS

LEMMA LogsWalk ==
  ASSUME OpsInv, ListingInv, NEW t \in Tasks, FindsLog(t) \/ ClearLog(t)
  PROVE  ListingInv'
<1> PICK c : c = call[t]
  OBVIOUS
<1>1. epoch \in Nat /\ c \in CallType(epoch) /\ KindInv(c) /\ DeviceInv /\ "kind" \in DOMAIN c
  BY CallIs DEF OpsInv, CallType
<1>2. CASE FindsLog(t)
  <2>1. c.kind = "clear" /\ UNCHANGED width
    BY <1>2 DEF FindsLog, Walking, device
  <2> DEFINE td == Tail(c.todo)
             n  == IF Target(t) \in bmc.clearable THEN [c EXCEPT !.pc = "clear"] ELSE [c EXCEPT !.todo = td]
  <2>2. Become(t, n)
    BY <1>2 DEF FindsLog
  <2> HIDE DEF td
  <2>3. n.kind = "clear"
    BY <1>1, <2>1, KindStays
  <2> HIDE DEF n
  <2> QED BY <2>1, <2>2, <2>3, BecomeOther
<1>3. CASE ClearLog(t)
  <2>1. c.pc = "clear"
    BY <1>3 DEF ClearLog
  <2>2. c.kind = "clear"
    BY <1>1, <2>1 DEF KindInv, InsertInv, EjectInv, SelInv, ListInv, CallType, Kinds
  <2>3. c.todo # <<>> /\ Choosing(c)
    BY <1>1, <2>1, <2>2 DEF KindInv, ClearInv
  <2>4. Head(c.todo) \in Logs
    BY <2>3, LogTail DEF Choosing
  <2>5. \E r \in {"cleared", "RedfishError", "HTTPError"} : Become(t, Ended(c, r))
    BY <1>3 DEF ClearLog
  <2>6. PICK r \in {"cleared", "RedfishError", "HTTPError"} : Become(t, Ended(c, r))
    BY <2>5
  <2> DEFINE n == Ended(c, r)
  <2>7. n.kind = "clear"
    BY <1>1, <2>2, EndedIs DEF Results
  <2> HIDE DEF n
  <2>8. \A u \in Tasks : call'[u] = call[u] \/ call'[u].kind # "list"
    <3>1. call' = [call EXCEPT ![t] = n] /\ call \in [Tasks -> CallType(epoch)]
      BY <2>6 DEF Become, OpsInv, n
    <3> QED BY <2>7, <3>1
  <2>9. CASE UNCHANGED width
    BY <2>8, <2>9, SameWidth, OtherWalk
  <2>10. CASE width' = [width EXCEPT ![Head(c.todo)] = 0]
    <3>1. DeviceInv'
      BY <1>3, ClearLogKeeps DEF OpsInv
    <3>2. Leaves' \subseteq Leaves
      BY <1>1, <2>4, <2>10, <3>1, LeavesShrink
    <3>3. FullWidth'
      BY <1>1, <2>4, <2>10 DEF ListingInv, FullWidth, DeviceInv
    <3> QED BY <2>8, <3>2, <3>3, OtherWalk
  <2> QED BY <1>3, <2>9, <2>10 DEF ClearLog, Target
<1> QED BY <1>2, <1>3

LEMMA SlotsWalk ==
  ASSUME OpsInv, ListingInv, NEW t \in Tasks,
         FindManager(t) \/ ReadMedia(t) \/ MediaGone(t) \/ ReadSlot(t) \/ ReadSlotToEject(t)
  PROVE  ListingInv'
<1> PICK c : c = call[t]
  OBVIOUS
<1>1. epoch \in Nat /\ c \in CallType(epoch) /\ KindInv(c) /\ "kind" \in DOMAIN c
  BY CallIs DEF CallType
<1>2. c.kind # "list" /\ UNCHANGED width
  <2>1. UNCHANGED width /\ (c.pc = "managers" \/ c.kind \in {"insert", "eject"})
    BY DEF FindManager, ReadMedia, MediaGone, ReadSlot, ReadSlotToEject, Walking, device
  <2> QED BY <1>1, <2>1 DEF KindInv, ListInv
<1>3. CASE ReadMedia(t)
  <2> DEFINE td == Kids(Media)
             n  == IF width[Media] = 0 THEN Ended(c, "RedfishError") ELSE [c EXCEPT !.todo = td]
  <2>1. Become(t, n)
    BY <1>3 DEF ReadMedia
  <2>2. Ended(c, "RedfishError").kind = c.kind
    BY <1>1, EndedIs DEF Results
  <2> HIDE DEF td
  <2>3. n.kind = c.kind
    BY <1>1, <2>2, KindStays
  <2> HIDE DEF n
  <2> QED BY <1>2, <2>1, <2>3, BecomeOther
<1>4. CASE ReadSlot(t)
  <2> DEFINE i  == Last(Target(t))
             s  == IF c.slot = 0 THEN i ELSE c.slot
             b  == IF c.slot = 0 THEN mounted[i] # None ELSE c.busy
             td == Tail(c.todo)
             f  == [c EXCEPT !.slot = s, !.busy = b, !.todo = td]
             n  == IF i \in bmc.cd THEN Choose(c, i, mounted[i] # None)
                   ELSE IF Len(c.todo) = 1 THEN Choose(f, f.slot, f.busy) ELSE f
  <2>1. Become(t, n)
    BY <1>4 DEF ReadSlot
  <2> HIDE DEF i, s, b, td
  <2>2. f.kind = c.kind /\ "kind" \in DOMAIN f
    BY <1>1, KindStays
  <2> HIDE DEF f
  <2>3. \A j, y : Choose(c, j, y).kind = c.kind /\ Choose(f, j, y).kind = f.kind
    BY <1>1, <2>2, KindStays DEF Choose
  <2>4. n.kind = c.kind
    BY <2>2, <2>3
  <2> HIDE DEF n
  <2> QED BY <1>2, <2>1, <2>4, BecomeOther
<1>5. CASE ReadSlotToEject(t)
  <2> DEFINE i  == Last(Target(t))
             td == Tail(c.todo)
             n  == IF mounted[i] = None THEN [c EXCEPT !.todo = td] ELSE [c EXCEPT !.pc = "eject", !.slot = i]
  <2>1. Become(t, n)
    BY <1>5 DEF ReadSlotToEject
  <2> HIDE DEF i, td
  <2>2. n.kind = c.kind
    BY <1>1, KindStays
  <2> HIDE DEF n
  <2> QED BY <1>2, <2>1, <2>2, BecomeOther
<1>6. CASE FindManager(t)
  <2> DEFINE ps == [c.path EXCEPT !["manager"] = epoch]
             n  == [c EXCEPT !.pc = "walk", !.path = ps]
  <2>1. Become(t, n)
    BY <1>6 DEF FindManager
  <2> HIDE DEF ps
  <2>2. n.kind = c.kind
    BY <1>1, KindStays
  <2> HIDE DEF n
  <2> QED BY <1>2, <2>1, <2>2, BecomeOther
<1>7. CASE MediaGone(t)
  <2>1. Ended(c, "RedfishError").kind = c.kind
    BY <1>1, EndedIs DEF Results
  <2>2. Become(t, Ended(c, "RedfishError"))
    BY <1>7 DEF MediaGone
  <2> QED BY <1>2, <2>1, <2>2, BecomeOther
<1> QED BY <1>3, <1>4, <1>5, <1>6, <1>7

\* A slot that is changed is noticed by the calls for the media only.
LEMMA PutsOther ==
  ASSUME OpsInv, ListingInv, UNCHANGED width, NEW t \in Tasks, NEW i, NEW media, NEW n, Puts(t, i, media, n), n.kind # "list"
  PROVE  ListingInv'
<1>1. ASSUME NEW u \in Tasks
      PROVE  call'[u] = call[u] \/ call'[u].kind # "list"
  <2>1. "kind" \in DOMAIN call[u]
    BY CallIs DEF CallType
  <2> DEFINE g == call[u].foreign \cup {i}
             m == [call[u] EXCEPT !.foreign = g]
  <2>2. m.kind = call[u].kind
    <3> HIDE DEF g
    <3> QED BY <2>1, KindStays
  <2>3. call'[u] = IF u = t THEN n
                   ELSE IF call[u].pc # "idle" /\ call[u].kind \in {"insert", "eject"} THEN m ELSE call[u]
    BY DEF Puts
  <2> HIDE DEF m
  <2> QED BY <2>2, <2>3
<1> QED BY <1>1, SameWidth, OtherWalk

LEMMA MediaWalks ==
  ASSUME OpsInv, ListingInv, NEW t \in Tasks, PreEject(t) \/ Insert(t) \/ Eject(t)
  PROVE  ListingInv'
<1> PICK c : c = call[t]
  OBVIOUS
<1>1. epoch \in Nat /\ c \in CallType(epoch) /\ KindInv(c) /\ "kind" \in DOMAIN c
  BY CallIs DEF CallType
<1>2. c.pc \in {"preEject", "insert", "eject"} /\ UNCHANGED width
  BY DEF PreEject, Insert, Eject, Posts, device
<1>3. c.kind # "list"
  BY <1>1, <1>2 DEF KindInv, ListInv
<1>4. ASSUME NEW n, n.kind = c.kind, NEW i, NEW media, Puts(t, i, media, n) \/ Become(t, n)
      PROVE  ListingInv'
  BY <1>2, <1>3, <1>4, PutsOther, BecomeOther
<1>5. \A r \in {"inserted", "ejected", "HTTPError", "RedfishError"} : Ended(c, r).kind = c.kind
  BY <1>1, EndedIs DEF Results
<1>6. [c EXCEPT !.pc = "insert"].kind = c.kind
  BY <1>1, KindStays
<1>7. CASE PreEject(t)
  BY <1>4, <1>5, <1>6, <1>7 DEF PreEject, Posts
<1>8. CASE Insert(t)
  BY <1>4, <1>5, <1>8 DEF Insert, Posts
<1>9. CASE Eject(t)
  <2> DEFINE td == Tail(c.todo)
             f  == [c EXCEPT !.pc = "walk", !.todo = td, !.slot = 0]
             g  == [f EXCEPT !.failed = @ \cup {c.slot}]
  <2>1. \/ Puts(t, c.slot, None, f) \/ Puts(t, c.slot, None, Ended(c, "HTTPError")) \/ Become(t, g)
    BY <1>9 DEF Eject, Posts
  <2> HIDE DEF td
  <2>2. f.kind = c.kind /\ "kind" \in DOMAIN f
    BY <1>1
  <2> HIDE DEF f
  <2>3. g.kind = c.kind
    BY <2>2
  <2> HIDE DEF g
  <2> QED BY <1>4, <1>5, <2>1, <2>2, <2>3
<1> QED BY <1>7, <1>8, <1>9

LEMMA ListingInvInit ==
  Init => ListingInv
<1> SUFFICES ASSUME Init PROVE ListingInv
  OBVIOUS
<1>1. \A t \in Tasks : call[t] = Idle
  BY DEF Init
<1>2. Idle.pc = "idle" /\ Idle.result = "none"
  BY DEF Idle
<1>3. WalkInv(Idle)
  BY <1>2 DEF WalkInv
<1> QED BY <1>1, <1>3 DEF ListingInv, FullWidth, Init

LEMMA ListingInvStep ==
  OpsInv /\ ListingInv /\ [Next]_vars => ListingInv'
<1> SUFFICES ASSUME OpsInv, ListingInv, [Next]_vars PROVE ListingInv'
  OBVIOUS
<1>1. ASSUME NEW t \in Tasks, Steps(t)
      PROVE  ListingInv'
  BY <1>1, PathsWalk, ReadNextWalks, SkipKeepsWalk, WalkEndsWalks, LogsWalk, SlotsWalk, MediaWalks DEF Steps
<1>2. CASE RenamePaths \/ UNCHANGED vars
  <2>1. UNCHANGED <<width, call>>
    BY <1>2 DEF RenamePaths, vars
  <2> QED BY <2>1, SameWidth, OtherWalk
<1> QED BY <1>1, <1>2, CallsWalk DEF Next

\* An inventory is complete, without repetition, but for what could not be read
\* and what lies below it; or it stopped at its limit (processor_inventory and the others, drive_inventory).
THEOREM ListedExplainedHolds == Spec => []ListedExplained
<1>1. OpsInv /\ ListingInv => ListedExplained
  <2> SUFFICES ASSUME OpsInv, ListingInv, NEW t \in Tasks, Over(t, "listed"), call[t].kind = "list"
               PROVE  LET c == call[t]
                      IN  /\ \A j, k \in 1..Len(c.out) : j < k => c.out[j] # c.out[k]
                          /\ c.limit \notin {None, 0} => Len(c.out) <= c.limit
                          /\ \/ c.limit # None /\ Len(c.out) >= c.limit
                             \/ \A n \in Leaves : IsPrefix(c.top, n) =>
                                  n \in ToSet(c.out) \/ \E m \in c.missed : IsPrefix(m, n)
    BY DEF ListedExplained
  <2> PICK c : c = call[t]
    OBVIOUS
  <2>1. Listed(c)
    BY DEF ListingInv, WalkInv, Over
  <2>2. Covered(c, {}) => \A n \in Leaves : IsPrefix(c.top, n) =>
                            n \in ToSet(c.out) \/ \E m \in c.missed : IsPrefix(m, n)
    BY DEF Covered
  <2>3. c.limit # None /\ Len(c.out) = Most(c) => Len(c.out) >= c.limit
    <3>1. c.limit \in Nat \cup {None}
      BY CallIs DEF CallType, Limit
    <3> QED BY <3>1 DEF Most
  <2> QED BY <2>1, <2>2, <2>3 DEF Listed, Distinct, Most
<1> QED BY <1>1, OpsInvInit, OpsInvStep, ListingInvInit, ListingInvStep, PTL DEF Spec
=============================================================================
