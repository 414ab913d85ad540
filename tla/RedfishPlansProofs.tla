-------------------------- MODULE RedfishPlansProofs --------------------------
(***************************************************************************)
(* Theorems about RedfishPlans, for any number of tasks, faults and changes *)
(* of the BMC's paths.                                                     *)
(***************************************************************************)
EXTENDS RedfishPlans, RedfishAuthProofs

-----------------------------------------------------------------------------
(***************************************************************************)
(* What is left of a plan.  Each of these holds of an operation when it    *)
(* begins and of what every request leaves of it.                          *)
(***************************************************************************)
Finds    == Roots \cup {"nothing", "interface"}
Requests == [kind : Kinds, on : Roots \cup {"service"}, finds : Finds, cached : BOOLEAN,
             empty : {"error", "return"}]
Blocks   == [requests : Seq(Requests), onError : {"raise", "pass", "return"}]
PlanType == {plan \in Seq(Blocks) : \A b \in 1..Len(plan) : plan[b].requests # <<>>}

\* Request i of block b comes after one that finds root r, in its own block or
\* in one whose failure ends the plan.
After(plan, b, i, r) ==
  \/ \E k \in 1..(i - 1) : plan[b].requests[k].finds = r
  \/ \E a \in 1..(b - 1) :
       /\ plan[a].onError # "pass"
       /\ \E k \in 1..Len(plan[a].requests) : plan[a].requests[k].finds = r

\* Every request is below a root that is known or found by then.
Planned(plan, known) ==
  \A b \in 1..Len(plan) : \A i \in 1..Len(plan[b].requests) :
    LET on == plan[b].requests[i].on
    IN  on \in Roots => on \in known \/ After(plan, b, i, on)

\* A path that is cached is the path of a root, and a GET finds it.
Caches(plan) ==
  \A b \in 1..Len(plan) : \A i \in 1..Len(plan[b].requests) :
    LET s == plan[b].requests[i] IN s.cached => s.finds \in Roots /\ s.kind = "get"

\* The requests of a plan are in S: it only looks, or does not ask for a path
\* that may be cached.
Within(plan, S) ==
  \A b \in 1..Len(plan) : \A i \in 1..Len(plan[b].requests) : plan[b].requests[i] \in S

Gets     == {s \in Requests : s.kind = "get"}
Uncached == {s \in Requests : s.cached = FALSE}

\* A plan whose last request is the one that acts.
ActsLast(plan) ==
  /\ Len(plan) = 1 /\ plan[1].onError = "raise"
  /\ LET s == plan[1].requests
     IN  /\ s[Len(s)].kind = "post" /\ s[Len(s)].finds = "nothing"
         /\ \A i \in 1..Len(s) : s[i].empty = "error" /\ (i < Len(s) => s[i].kind = "get")

-----------------------------------------------------------------------------
(***************************************************************************)
(* The plans, one block after the other.                                   *)
(***************************************************************************)
\* The requests that plans are made of.
LEMMA RequestsTyped ==
  /\ \A on \in Roots \cup {"service"} :
       /\ Get(on) \in Requests /\ Get(on).kind = "get" /\ Get(on).on = on
       /\ Get(on).cached = FALSE /\ Get(on).empty = "error"
       /\ Post(on) \in Requests /\ Post(on).kind = "post" /\ Post(on).on = on
       /\ Post(on).cached = FALSE /\ Post(on).empty = "error" /\ Post(on).finds = "nothing"
  /\ \A root \in Roots :
       /\ First(root) \in Requests /\ First(root).kind = "get" /\ First(root).on = "service"
       /\ First(root).cached = FALSE /\ First(root).empty = "error" /\ First(root).finds = root
       /\ Path(root) \in Requests /\ Path(root).kind = "get" /\ Path(root).on = "service"
       /\ Path(root).cached = TRUE /\ Path(root).empty = "error" /\ Path(root).finds = root
BY DEF Get, Post, First, Path, Request, Requests, Finds, Kinds, Roots

\* Request s may be the next one when the paths of the roots in known are.
Ready(s, known) ==
  /\ s \in Requests
  /\ s.on \in Roots => s.on \in known
  /\ s.cached => s.finds \in Roots /\ s.kind = "get"

Sound(plan, known) == plan \in PlanType /\ Planned(plan, known) /\ Caches(plan)
Only(b, S) == \A i \in 1..Len(b.requests) : b.requests[i] \in S

\* What a block leaves known: nothing, if a failure of it is passed over.
Leaves(b) ==
  IF b.onError = "pass" THEN {} ELSE {b.requests[i].finds : i \in 1..Len(b.requests)}

SoundBlock(b, known) ==
  /\ b \in Blocks /\ b.requests # <<>>
  /\ \A i \in 1..Len(b.requests) :
       Ready(b.requests[i], known \cup {b.requests[k].finds : k \in 1..(i - 1)})

Block1(a, e)    == [requests |-> <<a>>, onError |-> e]
Block2(a, c, e) == [requests |-> <<a, c>>, onError |-> e]

LEMMA BlockOfOne ==
  ASSUME NEW known, NEW a, Ready(a, known), NEW e \in {"raise", "pass", "return"}
  PROVE  /\ SoundBlock(Block1(a, e), known)
         /\ Leaves(Block1(a, e)) = IF e = "pass" THEN {} ELSE {a.finds}
         /\ \A S : a \in S => Only(Block1(a, e), S)
<1> DEFINE s == <<a>>
<1>1. s \in Seq(Requests) /\ Len(s) = 1 /\ s[1] = a /\ s # <<>>
  BY DEF Ready
<1> HIDE DEF s
<1> DEFINE b == [requests |-> s, onError |-> e]
<1>2. b.requests = s /\ b.onError = e /\ b \in Blocks
  BY <1>1 DEF Blocks
<1> HIDE DEF b
<1>3. \A i \in 1..Len(s) : i = 1
  BY <1>1
<1>4. \A i \in 1..Len(s) : Ready(s[i], known \cup {s[k].finds : k \in 1..(i - 1)})
  BY <1>1, <1>3 DEF Ready
<1>5. {s[i].finds : i \in 1..Len(s)} = {a.finds}
  BY <1>1, <1>3
<1>6. /\ SoundBlock(b, known)
      /\ Leaves(b) = IF e = "pass" THEN {} ELSE {s[i].finds : i \in 1..Len(s)}
      /\ \A S : (\A i \in 1..Len(s) : s[i] \in S) => Only(b, S)
  <2>1. SoundBlock(b, known)
    BY <1>1, <1>2, <1>4 DEF SoundBlock
  <2>2. Leaves(b) = IF e = "pass" THEN {} ELSE {s[i].finds : i \in 1..Len(s)}
    BY <1>2 DEF Leaves
  <2> QED BY <1>2, <2>1, <2>2 DEF Only
<1>7. \A S : a \in S => Only(b, S)
  BY <1>1, <1>3, <1>6
<1>8. Block1(a, e) = b
  BY DEF Block1, b, s
<1> QED BY ONLY <1>5, <1>6, <1>7, <1>8

LEMMA BlockOfTwo ==
  ASSUME NEW known, NEW a, Ready(a, known), NEW c, Ready(c, known \cup {a.finds}),
         NEW e \in {"raise", "pass", "return"}
  PROVE  /\ SoundBlock(Block2(a, c, e), known)
         /\ Leaves(Block2(a, c, e)) = IF e = "pass" THEN {} ELSE {a.finds, c.finds}
         /\ \A S : a \in S /\ c \in S => Only(Block2(a, c, e), S)
<1> DEFINE s == <<a, c>>
<1>1. s \in Seq(Requests) /\ Len(s) = 2 /\ s[1] = a /\ s[2] = c /\ s # <<>>
  BY DEF Ready
<1> HIDE DEF s
<1> DEFINE b == [requests |-> s, onError |-> e]
<1>2. b.requests = s /\ b.onError = e /\ b \in Blocks
  BY <1>1 DEF Blocks
<1> HIDE DEF b
<1>3. \A i \in 1..Len(s) : i = 1 \/ i = 2
  BY <1>1
<1>4. Ready(s[1], known \cup {s[k].finds : k \in 1..(1 - 1)})
  BY <1>1 DEF Ready
<1>5. Ready(s[2], known \cup {s[k].finds : k \in 1..(2 - 1)})
  BY <1>1 DEF Ready
<1>6. {s[i].finds : i \in 1..Len(s)} = {a.finds, c.finds}
  BY <1>1, <1>3
<1>7. \A i \in 1..Len(s) : Ready(s[i], known \cup {s[k].finds : k \in 1..(i - 1)})
  BY <1>3, <1>4, <1>5
<1>8. /\ SoundBlock(b, known)
      /\ Leaves(b) = IF e = "pass" THEN {} ELSE {s[i].finds : i \in 1..Len(s)}
      /\ \A S : (\A i \in 1..Len(s) : s[i] \in S) => Only(b, S)
  <2>1. SoundBlock(b, known)
    BY <1>1, <1>2, <1>7 DEF SoundBlock
  <2>2. Leaves(b) = IF e = "pass" THEN {} ELSE {s[i].finds : i \in 1..Len(s)}
    BY <1>2 DEF Leaves
  <2> QED BY <1>2, <2>1, <2>2 DEF Only
<1>9. \A S : a \in S /\ c \in S => Only(b, S)
  BY <1>1, <1>3, <1>8
<1>10. Block2(a, c, e) = b
  BY DEF Block2, b, s
<1> QED BY ONLY <1>6, <1>8, <1>9, <1>10

LEMMA SoundAlone ==
  ASSUME NEW known, NEW b, SoundBlock(b, known)
  PROVE  Sound(<<b>>, known) /\ (\A S : Only(b, S) => Within(<<b>>, S)) /\ <<b>> # <<>>
<1> DEFINE p == <<b>>
<1>1. p \in Seq(Blocks) /\ Len(p) = 1 /\ p[1] = b /\ p # <<>>
  BY DEF SoundBlock
<1> HIDE DEF p
<1>2. \A k \in 1..Len(p) : k = 1
  BY <1>1
<1>3. p \in PlanType
  BY <1>1, <1>2 DEF PlanType, SoundBlock
<1>4. Planned(p, known)
  BY <1>1, <1>2 DEF Planned, After, SoundBlock, Ready
<1>5. Caches(p)
  BY <1>1, <1>2 DEF Caches, SoundBlock, Ready
<1>6. \A S : Only(b, S) => Within(p, S)
  BY <1>1, <1>2 DEF Only, Within
<1> QED BY <1>1, <1>3, <1>4, <1>5, <1>6 DEF Sound, p

\* A block before a plan that is sound with what the block leaves.
LEMMA SoundBefore ==
  ASSUME NEW known, NEW b, SoundBlock(b, known), NEW plan, Sound(plan, known \cup Leaves(b))
  PROVE  /\ Sound(<<b>> \o plan, known) /\ <<b>> \o plan # <<>>
         /\ \A S : Only(b, S) /\ Within(plan, S) => Within(<<b>> \o plan, S)
<1> DEFINE p == <<b>> \o plan
<1>1. /\ p \in Seq(Blocks) /\ Len(p) = 1 + Len(plan) /\ p[1] = b
      /\ \A k \in 1..Len(plan) : p[k + 1] = plan[k]
      /\ plan \in Seq(Blocks) /\ Len(plan) \in Nat /\ p # <<>>
  BY DEF SoundBlock, Sound, PlanType
<1> HIDE DEF p
<1>2. \A k \in 1..Len(p) : k = 1 \/ (k - 1 \in 1..Len(plan) /\ p[k] = plan[k - 1])
  <2> TAKE k \in 1..Len(p)
  <2>1. SUFFICES ASSUME k # 1
                 PROVE  k - 1 \in 1..Len(plan) /\ p[k] = plan[k - 1]
    OBVIOUS
  <2>2. k - 1 \in 1..Len(plan)
    BY <1>1, <2>1
  <2>3. (k - 1) + 1 = k
    OBVIOUS
  <2> QED BY <1>1, <2>2, <2>3
<1>3. p \in PlanType
  BY <1>1, <1>2 DEF PlanType, SoundBlock, Sound
<1>4. Planned(p, known)
  <2> SUFFICES ASSUME NEW k \in 1..Len(p), NEW i \in 1..Len(p[k].requests),
                      p[k].requests[i].on \in Roots
               PROVE  p[k].requests[i].on \in known \/ After(p, k, i, p[k].requests[i].on)
    BY DEF Planned
  <2> DEFINE on == p[k].requests[i].on
  <2>1. CASE k = 1
    BY <1>1, <2>1 DEF SoundBlock, Ready, After
  <2>2. CASE k # 1
    <3>1. k - 1 \in 1..Len(plan) /\ p[k] = plan[k - 1] /\ k \in Nat
      BY <1>2, <2>2
    <3>2. on \in known \cup Leaves(b) \/ After(plan, k - 1, i, on)
      BY <3>1 DEF Sound, Planned
    <3>3. CASE on \in Leaves(b)
      <4>1. b.onError # "pass" /\ \E n \in 1..Len(b.requests) : b.requests[n].finds = on
        BY <3>3 DEF Leaves
      <4>2. 1 \in 1..(k - 1)
        BY <3>1
      <4> QED BY <4>1, <4>2, <1>1 DEF After
    <3>4. CASE \E n \in 1..(i - 1) : plan[k - 1].requests[n].finds = on
      BY <3>1, <3>4 DEF After
    <3>5. CASE \E a \in 1..((k - 1) - 1) : /\ plan[a].onError # "pass"
                                           /\ \E n \in 1..Len(plan[a].requests) : plan[a].requests[n].finds = on
      <4>1. PICK a \in 1..((k - 1) - 1) : /\ plan[a].onError # "pass"
                                          /\ \E n \in 1..Len(plan[a].requests) : plan[a].requests[n].finds = on
        BY <3>5
      <4>2. a + 1 \in 1..(k - 1) /\ a \in 1..Len(plan)
        BY <3>1, <1>1
      <4>3. p[a + 1] = plan[a]
        BY <4>2, <1>1
      <4> QED BY <4>1, <4>2, <4>3 DEF After
    <3> QED BY <3>2, <3>3, <3>4, <3>5 DEF After
  <2> QED BY <2>1, <2>2
<1>5. Caches(p)
  <2> SUFFICES ASSUME NEW k \in 1..Len(p), NEW i \in 1..Len(p[k].requests), p[k].requests[i].cached
               PROVE  p[k].requests[i].finds \in Roots /\ p[k].requests[i].kind = "get"
    BY DEF Caches
  <2>1. CASE k = 1
    BY <1>1, <2>1 DEF SoundBlock, Ready
  <2>2. CASE k # 1
    BY <1>2, <2>2 DEF Sound, Caches
  <2> QED BY <2>1, <2>2
<1>6. ASSUME NEW S, Only(b, S), Within(plan, S)
      PROVE  Within(p, S)
  <2> SUFFICES ASSUME NEW k \in 1..Len(p), NEW i \in 1..Len(p[k].requests)
               PROVE  p[k].requests[i] \in S
    BY DEF Within
  <2>1. CASE k = 1
    BY <1>1, <1>6, <2>1 DEF Only
  <2>2. CASE k # 1
    BY <1>2, <1>6, <2>2 DEF Within
  <2> QED BY <2>1, <2>2
<1> QED BY <1>1, <1>3, <1>4, <1>5, <1>6 DEF Sound, p

Block4(a, c, d, f, e) == [requests |-> <<a, c, d, f>>, onError |-> e]

LEMMA BlockOfFour ==
  ASSUME NEW known, NEW a, Ready(a, known), NEW e \in {"raise", "pass", "return"},
         NEW c, \A k : a.finds \in k => Ready(c, k),
         NEW d, \A k : a.finds \in k => Ready(d, k),
         NEW f, \A k : a.finds \in k => Ready(f, k)
  PROVE  /\ SoundBlock(Block4(a, c, d, f, e), known)
         /\ \A S : a \in S /\ c \in S /\ d \in S /\ f \in S => Only(Block4(a, c, d, f, e), S)
<1> DEFINE s == <<a, c, d, f>>
<1>1. a \in Requests /\ c \in Requests /\ d \in Requests /\ f \in Requests
  BY DEF Ready
<1>2. s \in Seq(Requests) /\ Len(s) = 4 /\ s[1] = a /\ s[2] = c /\ s[3] = d /\ s[4] = f /\ s # <<>>
  BY <1>1
<1> HIDE DEF s
<1> DEFINE b == [requests |-> s, onError |-> e]
<1>3. b.requests = s /\ b.onError = e /\ b \in Blocks
  BY <1>2 DEF Blocks
<1> HIDE DEF b
<1>4. \A i \in 1..Len(s) : i = 1 \/ i = 2 \/ i = 3 \/ i = 4
  BY <1>2
<1>5. ASSUME NEW i \in 1..Len(s)
      PROVE  Ready(s[i], known \cup {s[k].finds : k \in 1..(i - 1)})
  <2>1. CASE i = 1
    BY <1>2, <2>1 DEF Ready
  <2>2. CASE i # 1
    <3> DEFINE k == known \cup {s[n].finds : n \in 1..(i - 1)}
    <3>1. 1 \in 1..(i - 1)
      BY <1>2, <2>2
    <3>2. a.finds \in k
      BY <3>1, <1>2
    <3> HIDE DEF k
    <3>3. Ready(c, k) /\ Ready(d, k) /\ Ready(f, k)
      BY <3>2
    <3> QED BY <3>3, <1>2, <1>4, <2>2 DEF k
  <2> QED BY <2>1, <2>2
<1>6. SoundBlock(b, known)
  BY <1>2, <1>3, <1>5 DEF SoundBlock
<1>7. \A S : a \in S /\ c \in S /\ d \in S /\ f \in S => Only(b, S)
  BY <1>2, <1>3, <1>4 DEF Only
<1>8. Block4(a, c, d, f, e) = b
  BY DEF Block4, b, s
<1> QED BY ONLY <1>6, <1>7, <1>8

\* A block that finds a root, and does something below it.
LEMMA FindThen ==
  ASSUME NEW known, NEW root \in Roots, NEW a \in {First(root), Path(root)},
         NEW c \in {Get(root), Post(root)}, NEW e \in {"raise", "pass", "return"}
  PROVE  /\ SoundBlock(Block2(a, c, e), known)
         /\ \A S : a \in S /\ c \in S => Only(Block2(a, c, e), S)
<1>1. Ready(a, known)
  BY RequestsTyped DEF Ready, Roots
<1>2. Ready(c, known \cup {a.finds})
  BY RequestsTyped DEF Ready, Roots
<1>3. SoundBlock(Block2(a, c, e), known)
  BY <1>1, <1>2, BlockOfTwo
<1>4. \A S : a \in S /\ c \in S => Only(Block2(a, c, e), S)
  BY <1>1, <1>2, BlockOfTwo
<1> QED BY <1>3, <1>4

\* The concatenations that spell the plans.
LEMMA Before ==
  ASSUME NEW S, NEW b \in S, NEW plan \in Seq(S), NEW q \in Seq(S), Len(q) = Len(plan) + 1,
         q[1] = b, \A i \in 1..Len(plan) : q[i + 1] = plan[i]
  PROVE  <<b>> \o plan = q
OBVIOUS

LEMMA Pair ==
  ASSUME NEW S, NEW a \in S, NEW b \in S
  PROVE  <<a>> \o <<b>> = <<a, b>>
<1> DEFINE p == <<b>>
           q == <<a, b>>
<1>1. p \in Seq(S) /\ q \in Seq(S) /\ Len(q) = Len(p) + 1 /\ q[1] = a /\ \A i \in 1..Len(p) : q[i + 1] = p[i]
  OBVIOUS
<1> HIDE DEF p, q
<1>2. <<a>> \o p = q
  BY <1>1, Before
<1> QED BY <1>2 DEF p, q

LEMMA Triple ==
  ASSUME NEW S, NEW a \in S, NEW b \in S, NEW c \in S
  PROVE  <<a>> \o <<b, c>> = <<a, b, c>>
<1> DEFINE p == <<b, c>>
           q == <<a, b, c>>
<1>1. p \in Seq(S) /\ q \in Seq(S) /\ Len(q) = Len(p) + 1 /\ q[1] = a /\ \A i \in 1..Len(p) : q[i + 1] = p[i]
  OBVIOUS
<1> HIDE DEF p, q
<1>2. <<a>> \o p = q
  BY <1>1, Before
<1> QED BY <1>2, Zenon DEF p, q

LEMMA Quadruple ==
  ASSUME NEW S, NEW a \in S, NEW b \in S, NEW c \in S, NEW d \in S
  PROVE  <<a>> \o <<b, c, d>> = <<a, b, c, d>>
<1> DEFINE p == <<b, c, d>>
           q == <<a, b, c, d>>
<1>1. p \in Seq(S) /\ q \in Seq(S) /\ Len(q) = Len(p) + 1 /\ q[1] = a /\ \A i \in 1..Len(p) : q[i + 1] = p[i]
  OBVIOUS
<1> HIDE DEF p, q
<1>2. <<a>> \o p = q
  BY <1>1, Before
<1> QED BY <1>2, Zenon DEF p, q

\* A plan that only looks.
Looks(plan) == Sound(plan, {}) /\ plan # <<>> /\ Within(plan, Gets)

LEMMA LooksAlone ==
  ASSUME NEW b, SoundBlock(b, {}), Only(b, Gets)
  PROVE  Looks(<<b>>)
BY SoundAlone, Zenon DEF Looks

LEMMA LooksBefore ==
  ASSUME NEW b, SoundBlock(b, {}), Only(b, Gets), NEW plan, Sound(plan, Leaves(b)), Within(plan, Gets)
  PROVE  Looks(<<b>> \o plan)
<1>1. {} \cup Leaves(b) = Leaves(b)
  OBVIOUS
<1> QED BY <1>1, SoundBefore DEF Looks

\* Two blocks, the second of which may use what the first one leaves.
LEMMA LooksTwice ==
  ASSUME NEW b, SoundBlock(b, {}), Only(b, Gets), NEW n, SoundBlock(n, Leaves(b)), Only(n, Gets)
  PROVE  /\ Looks(<<b, n>>)
         /\ \A S : Only(b, S) /\ Only(n, S) => Within(<<b, n>>, S)
<1>1. Sound(<<n>>, Leaves(b)) /\ \A S : Only(n, S) => Within(<<n>>, S)
  BY SoundAlone, Zenon
<1>2. <<b>> \o <<n>> = <<b, n>>
  BY Pair DEF SoundBlock
<1>3. Looks(<<b>> \o <<n>>)
  BY <1>1, LooksBefore
<1>4. {} \cup Leaves(b) = Leaves(b)
  OBVIOUS
<1>5. \A S : Only(b, S) /\ Only(n, S) => Within(<<b>> \o <<n>>, S)
  BY <1>1, <1>4, SoundBefore
<1> QED BY <1>2, <1>3, <1>5, Zenon

LEMMA TemperaturesLook == Looks(temperatures)
<1> DEFINE b == Block1(Path("chassis"), "raise")
           n == Block1(Get("chassis"), "pass")
<1>1. Ready(Path("chassis"), {}) /\ Path("chassis").finds = "chassis" /\ Path("chassis") \in Gets
  BY RequestsTyped DEF Ready, Roots, Gets
<1>2. SoundBlock(b, {}) /\ Leaves(b) = {"chassis"} /\ Only(b, Gets)
  BY <1>1, BlockOfOne
<1>3. Ready(Get("chassis"), {"chassis"}) /\ Get("chassis") \in Gets
  BY RequestsTyped DEF Ready, Roots, Gets
<1>4. SoundBlock(n, Leaves(b)) /\ Only(n, Gets)
  BY <1>2, <1>3, BlockOfOne
<1>5. temperatures = <<b, n>>
  BY DEF Block1, Must, Try, temperatures
<1> HIDE DEF b, n
<1> QED BY <1>2, <1>4, <1>5, LooksTwice

LEMMA HeartbeatLooks == Looks(heartbeat) /\ Within(heartbeat, Uncached)
<1> DEFINE a == [First("system") EXCEPT !.empty = "return"]
           c == [Get("system") EXCEPT !.finds = "chassis", !.empty = "return"]
           d == Get("chassis")
           b == Block2(a, c, "raise")
           n == Block1(d, "pass")
<1>1. /\ Ready(a, {}) /\ a.finds = "system" /\ a \in Gets /\ a \in Uncached
      /\ Ready(c, {"system"}) /\ c.finds = "chassis" /\ c \in Gets /\ c \in Uncached
      /\ Ready(d, {"system", "chassis"}) /\ d \in Gets /\ d \in Uncached
  BY DEF Get, First, Request, Requests, Finds, Kinds, Roots, Ready, Gets, Uncached
<1>2. heartbeat = <<b, n>>
  BY DEF Block1, Block2, Must, Try, heartbeat
<1> HIDE DEF a, c, d
<1>3. Ready(c, {} \cup {a.finds})
  BY <1>1
<1>4. SoundBlock(b, {}) /\ Leaves(b) = IF "raise" = "pass" THEN {} ELSE {a.finds, c.finds}
  BY <1>1, <1>3, BlockOfTwo
<1>5. Only(b, Gets) /\ Only(b, Uncached)
  BY <1>1, <1>3, BlockOfTwo
<1>6. Leaves(b) = {"system", "chassis"}
  BY <1>1, <1>4
<1>7. SoundBlock(n, Leaves(b)) /\ Only(n, Gets) /\ Only(n, Uncached)
  BY <1>1, <1>6, BlockOfOne
<1> HIDE DEF b, n
<1> QED BY <1>2, <1>4, <1>5, <1>7, LooksTwice

LEMMA BootConfigLooks == Looks(boot_config)
<1> DEFINE b == Block2(Path("system"), Get("system"), "raise")
<1>1. Path("system") \in Gets /\ Get("system") \in Gets /\ "system" \in Roots
  BY RequestsTyped DEF Gets, Roots
<1>2. SoundBlock(b, {}) /\ Only(b, Gets)
  BY <1>1, FindThen
<1>3. boot_config = <<b>>
  BY DEF boot_config, Must, Block2
<1> QED BY <1>2, <1>3, LooksAlone

\* system_info and chassis_health: the system, the chassis and the manager.
LEMMA PartsLook ==
  ASSUME NEW e \in {"raise", "pass"}
  PROVE  Looks(<<Block2(Path("system"), Get("system"), e), Block2(Path("chassis"), Get("chassis"), "pass"),
                 Block2(Path("manager"), Get("manager"), "pass")>>)
<1> DEFINE a == Block2(Path("system"), Get("system"), e)
           b == Block2(Path("chassis"), Get("chassis"), "pass")
           c == Block2(Path("manager"), Get("manager"), "pass")
<1>1. \A root \in Roots : Path(root) \in Gets /\ Get(root) \in Gets
  BY RequestsTyped DEF Gets
<1>2. /\ \A known : SoundBlock(a, known) /\ SoundBlock(b, known) /\ SoundBlock(c, known)
      /\ Only(a, Gets) /\ Only(b, Gets) /\ Only(c, Gets)
  BY <1>1, FindThen DEF Roots
<1> HIDE DEF a, b, c
<1>3. Sound(<<c>>, Leaves(a) \cup Leaves(b)) /\ Within(<<c>>, Gets)
  BY <1>2, SoundAlone, Zenon
<1>4. Sound(<<b>> \o <<c>>, Leaves(a)) /\ Within(<<b>> \o <<c>>, Gets)
  BY <1>2, <1>3, SoundBefore
<1>5. Looks(<<a>> \o (<<b>> \o <<c>>))
  BY <1>2, <1>4, LooksBefore
<1>6. a \in Blocks /\ b \in Blocks /\ c \in Blocks
  BY <1>2 DEF SoundBlock
<1>7. <<b>> \o <<c>> = <<b, c>> /\ <<a>> \o <<b, c>> = <<a, b, c>>
  BY <1>6, Pair, Triple
<1> QED BY <1>5, <1>7, Zenon DEF a, b, c

LEMMA NetworkLooks == Looks(network_info)
<1> DEFINE f == [Get("manager") EXCEPT !.finds = "interface", !.empty = "return"]
           g == Get("manager")
           a == Block1(Path("manager"), "raise")
           b == Block1(f, "return")
           c == Block1(g, "raise")
           d == Block2(g, g, "pass")
<1>1. /\ Ready(Path("manager"), {}) /\ Path("manager").finds = "manager" /\ Path("manager") \in Gets
      /\ \A known : "manager" \in known => Ready(f, known) /\ Ready(g, known)
      /\ f \in Gets /\ g \in Gets
  BY DEF Path, Get, First, Request, Requests, Finds, Kinds, Roots, Ready, Gets
<1>2. network_info = <<a, b, c, d>>
  BY DEF Block1, Block2, Must, Try, OrEnd, network_info
<1> HIDE DEF f, g
<1>3. SoundBlock(a, {}) /\ Leaves(a) = {"manager"} /\ Only(a, Gets)
  BY <1>1, BlockOfOne
<1> DEFINE kb == Leaves(a)
           kc == kb \cup Leaves(b)
           kd == kc \cup Leaves(c)
<1>4. "manager" \in kb /\ "manager" \in kc /\ "manager" \in kd /\ "manager" \in kd \cup {g.finds}
  BY <1>3
<1> HIDE DEF kb, kc, kd
<1>5. SoundBlock(b, kb) /\ Only(b, Gets) /\ SoundBlock(c, kc) /\ Only(c, Gets)
  BY <1>1, <1>4, BlockOfOne
<1>6. Ready(g, kd) /\ Ready(g, kd \cup {g.finds})
  BY <1>1, <1>4
<1>7. SoundBlock(d, kd) /\ Only(d, Gets)
  BY <1>1, <1>6, BlockOfTwo
<1> HIDE DEF a, b, c, d
<1>8. Sound(<<d>>, kc \cup Leaves(c)) /\ Within(<<d>>, Gets)
  BY <1>7, SoundAlone, Zenon DEF kd
<1>9. Sound(<<c>> \o <<d>>, kb \cup Leaves(b)) /\ Within(<<c>> \o <<d>>, Gets)
  BY <1>5, <1>8, SoundBefore DEF kc
<1>10. Sound(<<b>> \o (<<c>> \o <<d>>), kb) /\ Within(<<b>> \o (<<c>> \o <<d>>), Gets)
  BY <1>5, <1>9, SoundBefore
<1>11. Looks(<<a>> \o (<<b>> \o (<<c>> \o <<d>>)))
  BY <1>3, <1>10, LooksBefore DEF kb
<1>12. a \in Blocks /\ b \in Blocks /\ c \in Blocks /\ d \in Blocks
  BY <1>3, <1>5, <1>7 DEF SoundBlock
<1>13. /\ <<c>> \o <<d>> = <<c, d>> /\ <<b>> \o <<c, d>> = <<b, c, d>>
       /\ <<a>> \o <<b, c, d>> = <<a, b, c, d>>
  BY <1>12, Pair, Triple, Quadruple
<1> QED BY <1>2, <1>11, <1>13, Zenon

\* detect_vendor and license_info: the service root, and what follows from it.
LEMMA ServiceLooks ==
  ASSUME NEW plan \in detect_vendor \cup license_info
  PROVE  Looks(plan)
<1> DEFINE s == Get("service")
           m == Get("manager")
           p == Path("manager")
           a == Block1(s, "raise")
           b == Block1(s, "return")
           c == Block1(s, "pass")
           d == Block2(p, m, "pass")
           f == Block4(p, m, m, m, "pass")
<1>1. /\ \A known : Ready(s, known) /\ Ready(p, known)
      /\ \A known : p.finds \in known => Ready(m, known)
      /\ s \in Gets /\ m \in Gets /\ p \in Gets
  BY DEF Path, Get, First, Request, Requests, Finds, Kinds, Roots, Ready, Gets
<1>2. plan \in {<<a>>, <<a, c>>, <<b, f>>, <<b, d>>, <<b>>}
  BY DEF Block1, Block2, Block4, Must, Try, OrEnd, detect_vendor, license_info
<1> HIDE DEF s, m, p
<1>3. /\ SoundBlock(a, {}) /\ SoundBlock(b, {}) /\ SoundBlock(c, Leaves(a))
      /\ Only(a, Gets) /\ Only(b, Gets) /\ Only(c, Gets)
  BY <1>1, BlockOfOne
<1>4. Ready(p, Leaves(b)) /\ Ready(m, Leaves(b) \cup {p.finds})
  BY <1>1
<1>5. SoundBlock(d, Leaves(b)) /\ Only(d, Gets)
  BY <1>1, <1>4, BlockOfTwo
<1>6. SoundBlock(f, Leaves(b)) /\ Only(f, Gets)
  BY <1>1, <1>4, BlockOfFour
<1> HIDE DEF a, b, c, d, f
<1>7. Looks(<<a>>) /\ Looks(<<b>>)
  BY <1>3, LooksAlone
<1>8. Looks(<<a, c>>) /\ Looks(<<b, d>>) /\ Looks(<<b, f>>)
  BY <1>3, <1>5, <1>6, LooksTwice
<1> QED BY <1>2, <1>7, <1>8

\* A plan that acts finds the root of what it acts on, and acts on it.
LEMMA SettingsAct ==
  ASSUME NEW root \in Roots, NEW a \in {First(root), Path(root)}
  PROVE  LET plan == <<Must(<<a, Post(root)>>)>>
         IN  /\ Sound(plan, {}) /\ plan # <<>> /\ ActsLast(plan)
             /\ a = First(root) => Within(plan, Uncached)
<1> DEFINE s == <<a, Post(root)>>
           b == Block2(a, Post(root), "raise")
           p == <<b>>
<1>1. SoundBlock(b, {}) /\ (a = First(root) => Only(b, Uncached))
  <2>1. a = First(root) => a \in Uncached /\ Post(root) \in Uncached
    BY RequestsTyped DEF Uncached
  <2> QED BY <2>1, FindThen
<1>2. b = Must(s)
  BY DEF Block2, Must
<1>3. b.requests = s /\ b.onError = "raise"
  BY <1>2 DEF Must
<1>4. Len(s) = 2 /\ s[1] = a /\ s[2] = Post(root)
  BY RequestsTyped
<1> HIDE DEF s, b
<1>5. Len(p) = 1 /\ p[1] = b /\ p # <<>>
  OBVIOUS
<1>6. Sound(p, {}) /\ (a = First(root) => Within(p, Uncached))
  BY <1>1, SoundAlone, Zenon
<1> HIDE DEF p
<1>7. a.kind = "get" /\ a.empty = "error" /\ Post(root).kind = "post" /\ Post(root).empty = "error"
      /\ Post(root).finds = "nothing"
  BY RequestsTyped
<1>8. ActsLast(p)
  <2>1. s[Len(s)] = Post(root) /\ Len(s) = 2
    BY <1>4
  <2>2. \A i \in 1..Len(s) : s[i].empty = "error" /\ (i < Len(s) => s[i].kind = "get")
    <3> SUFFICES ASSUME NEW i \in 1..2
                 PROVE  s[i].empty = "error" /\ (i < 2 => s[i].kind = "get")
      BY <1>4
    <3>1. i = 1 \/ i = 2
      OBVIOUS
    <3> QED BY <1>4, <1>7, <3>1
  <2> QED BY <1>3, <1>5, <1>7, <2>1, <2>2 DEF ActsLast
<1>9. p = <<Must(<<a, Post(root)>>)>>
  BY <1>2 DEF p, s
<1> QED BY <1>5, <1>6, <1>8, <1>9, Zenon

\* What holds of every operation when it begins.
Begins(plan) ==
  /\ Sound(plan, {}) /\ plan # <<>>
  /\ plan \in Looked => Within(plan, Uncached)
  /\ IF plan \in Acting THEN ActsLast(plan) ELSE Within(plan, Gets)

LEMMA PlansBegin ==
  ASSUME NEW plan \in Plans
  PROVE  Begins(plan)
<1>1. \A root \in Roots : \A a \in {First(root), Path(root)} :
        LET p == <<Must(<<a, Post(root)>>)>>
        IN  /\ Sound(p, {}) /\ p # <<>> /\ ActsLast(p)
            /\ a = First(root) => Within(p, Uncached)
  BY SettingsAct
<1>2. "system" \in Roots /\ "chassis" \in Roots /\ "manager" \in Roots
  BY DEF Roots
<1>3. Sound(power_action, {}) /\ power_action # <<>> /\ ActsLast(power_action) /\ Within(power_action, Uncached)
  BY <1>1, <1>2, Zenon DEF power_action, FirstSystem
<1>4. \A p \in Acting : Sound(p, {}) /\ p # <<>> /\ ActsLast(p)
  <2> TAKE p \in Acting
  <2>1. CASE p \in {set_next_boot, nmi_trigger}
    BY <2>1, <1>1, <1>2, Zenon DEF set_next_boot, nmi_trigger
  <2>2. CASE p = indicator_led
    BY <2>2, <1>1, <1>2, Zenon DEF indicator_led
  <2>3. CASE p = reset_bmc
    BY <2>3, <1>1, <1>2, Zenon DEF reset_bmc
  <2> QED BY <2>1, <2>2, <2>3, <1>3 DEF Acting, set_boot_order
<1>5. Looks(system_info) /\ Looks(chassis_health)
  BY PartsLook, Zenon DEF system_info, chassis_health, Block2, Must, Try
<1>6. plan \notin Acting => Looks(plan)
  BY <1>5, HeartbeatLooks, BootConfigLooks, NetworkLooks, TemperaturesLook, ServiceLooks
     DEF Plans, Acting, fans, power_supplies, power_metrics
<1>7. Sound(plan, {}) /\ plan # <<>>
  BY <1>4, <1>6 DEF Looks
<1>8. plan \in Looked => Within(plan, Uncached)
  BY <1>3, HeartbeatLooks DEF Looked
<1>9. IF plan \in Acting THEN ActsLast(plan) ELSE Within(plan, Gets)
  BY <1>4, <1>6 DEF Looks
<1> QED BY <1>7, <1>8, <1>9 DEF Begins

-----------------------------------------------------------------------------
(***************************************************************************)
(* What a request leaves of a plan.                                        *)
(***************************************************************************)
LEMMA EmptyIs ==
  ASSUME NEW S, NEW q \in Seq(S), Len(q) = 0
  PROVE  q = <<>>
OBVIOUS

\* The first block loses its first request, or the plan its first block.
LEMMA RestIs ==
  ASSUME NEW plan \in PlanType, plan # <<>>
  PROVE  /\ Len(plan) \in Nat /\ Len(plan) >= 1
         /\ plan[1] \in Blocks /\ Len(plan[1].requests) \in Nat /\ Len(plan[1].requests) >= 1
         /\ Next1(plan) = plan[1].requests[1] /\ Next1(plan) \in Requests
         /\ \/ /\ Len(plan[1].requests) = 1 /\ Rest(plan) = Tail(plan)
            \/ /\ Len(plan[1].requests) > 1 /\ Rest(plan) \in Seq(Blocks) /\ Len(Rest(plan)) = Len(plan)
               /\ Rest(plan)[1].onError = plan[1].onError
               /\ Rest(plan)[1].requests = Tail(plan[1].requests)
               /\ \A b \in 2..Len(plan) : Rest(plan)[b] = plan[b]
<1>1. plan \in Seq(Blocks) /\ Len(plan) \in Nat /\ Len(plan) >= 1 /\ Head(plan) = plan[1]
  BY DEF PlanType
<1>2. plan[1] \in Blocks /\ plan[1].requests # <<>>
  BY <1>1 DEF PlanType
<1> DEFINE s == plan[1].requests
<1>3. s \in Seq(Requests) /\ s # <<>> /\ plan[1].onError \in {"raise", "pass", "return"}
  BY <1>2 DEF Blocks
<1>4. Len(s) \in Nat /\ Len(s) >= 1 /\ Head(s) = s[1] /\ s[1] \in Requests /\ Tail(s) \in Seq(Requests)
  BY <1>3
<1>5. Next1(plan) = s[1]
  BY <1>1, <1>4 DEF Next1
<1>6. CASE Len(s) = 1
  <2>1. Rest(plan) = Tail(plan)
    BY <1>1, <1>6 DEF Rest
  <2> QED BY <1>1, <1>2, <1>4, <1>5, <1>6, <2>1
<1>7. CASE Len(s) # 1
  <2> DEFINE h == [plan[1] EXCEPT !.requests = Tail(s)]
             t == Tail(plan)
  <2>1. h \in Blocks /\ h.requests = Tail(s) /\ h.onError = plan[1].onError
    BY <1>2, <1>4 DEF Blocks
  <2>2. Rest(plan) = <<h>> \o t
    BY <1>1, <1>7 DEF Rest
  <2>3. t \in Seq(Blocks) /\ Len(t) = Len(plan) - 1 /\ \A b \in 1..(Len(plan) - 1) : t[b] = plan[b + 1]
    BY <1>1
  <2> HIDE DEF h, t
  <2> DEFINE q == <<h>> \o t
  <2>4. q \in Seq(Blocks) /\ Len(q) = 1 + Len(t) /\ q[1] = h /\ \A b \in 1..Len(t) : q[b + 1] = t[b]
    BY <2>1, <2>3
  <2> HIDE DEF q
  <2>5. ASSUME NEW b \in 2..Len(plan)
        PROVE  q[b] = plan[b]
    <3>1. b - 1 \in 1..Len(t) /\ b - 1 \in 1..(Len(plan) - 1) /\ (b - 1) + 1 = b
      BY <1>1, <2>3
    <3> QED BY <3>1, <2>3, <2>4
  <2>6. Rest(plan) = q
    BY <2>2 DEF q
  <2>7. Len(q) = Len(plan)
    BY <2>3, <2>4, <1>1
  <2>8. /\ Rest(plan) \in Seq(Blocks) /\ Len(Rest(plan)) = Len(plan)
        /\ Rest(plan)[1].onError = plan[1].onError /\ Rest(plan)[1].requests = Tail(s)
        /\ \A b \in 2..Len(plan) : Rest(plan)[b] = plan[b]
    BY <2>1, <2>4, <2>5, <2>6, <2>7
  <2>9. Len(s) > 1
    <3> DEFINE n == Len(s)
    <3>1. n \in Nat /\ n >= 1 /\ n # 1
      BY <1>4, <1>7
    <3> HIDE DEF n
    <3>2. n > 1
      BY <3>1
    <3> QED BY <3>2 DEF n
  <2>10. Len(plan[1].requests) \in Nat /\ Len(plan[1].requests) >= 1 /\ Next1(plan) \in Requests
    BY <1>4, <1>5
  <2> QED BY ONLY <1>1, <1>2, <1>5, <2>8, <2>9, <2>10
<1> QED BY <1>6, <1>7

\* The next request may be sent.
LEMMA NextReady ==
  ASSUME NEW plan, NEW known, Sound(plan, known), plan # <<>>
  PROVE  /\ Ready(Next1(plan), known)
         /\ \A S : Within(plan, S) => Next1(plan) \in S
<1>1. plan \in PlanType /\ Planned(plan, known) /\ Caches(plan)
  BY DEF Sound
<1> DEFINE s == plan[1].requests
<1>2. /\ Next1(plan) = s[1] /\ s[1] \in Requests
      /\ 1 \in 1..Len(plan) /\ 1 \in 1..Len(s)
  BY <1>1, RestIs
<1>3. ~ After(plan, 1, 1, s[1].on)
  BY DEF After
<1>4. Ready(s[1], known)
  BY <1>1, <1>2, <1>3 DEF Planned, Caches, Ready
<1>5. \A S : Within(plan, S) => s[1] \in S
  BY <1>2 DEF Within
<1> QED BY <1>2, <1>4, <1>5

\* The plan without a block whose failure is passed over, or without its last
\* request, when its root is known.
LEMMA TailKeeps ==
  ASSUME NEW plan, NEW known, NEW k, Sound(plan, k), plan # <<>>,
         k \subseteq known,
         plan[1].onError # "pass" =>
           \A i \in 1..Len(plan[1].requests) : plan[1].requests[i].finds \in Roots
              => plan[1].requests[i].finds \in known
  PROVE  /\ Sound(Tail(plan), known)
         /\ \A S : Within(plan, S) => Within(Tail(plan), S)
<1> DEFINE p == Tail(plan)
<1>1. plan \in PlanType /\ Planned(plan, k) /\ Caches(plan)
  BY DEF Sound
<1>2. /\ p \in Seq(Blocks) /\ Len(p) = Len(plan) - 1 /\ Len(plan) \in Nat /\ Len(plan) >= 1
      /\ \A b \in 1..(Len(plan) - 1) : p[b] = plan[b + 1]
  BY <1>1 DEF PlanType
<1> HIDE DEF p
<1>3. \A b \in 1..Len(p) : b \in Nat /\ b + 1 \in 1..Len(plan) /\ p[b] = plan[b + 1]
  BY <1>2
<1>4. p \in PlanType
  BY <1>1, <1>2, <1>3 DEF PlanType
<1>5. Planned(p, known)
  <2> SUFFICES ASSUME NEW b \in 1..Len(p), NEW i \in 1..Len(p[b].requests), p[b].requests[i].on \in Roots
               PROVE  p[b].requests[i].on \in known \/ After(p, b, i, p[b].requests[i].on)
    BY DEF Planned
  <2> DEFINE on == p[b].requests[i].on
  <2>1. b \in Nat /\ b + 1 \in 1..Len(plan) /\ p[b] = plan[b + 1]
    BY <1>3
  <2>2. on \in k \/ After(plan, b + 1, i, on)
    BY <1>1, <2>1 DEF Planned
  <2>3. CASE on \in k
    BY <2>3
  <2>4. CASE \E n \in 1..(i - 1) : plan[b + 1].requests[n].finds = on
    BY <2>1, <2>4 DEF After
  <2>5. CASE \E a \in 1..((b + 1) - 1) :
               /\ plan[a].onError # "pass"
               /\ \E n \in 1..Len(plan[a].requests) : plan[a].requests[n].finds = on
    <3>1. PICK a \in 1..((b + 1) - 1) :
               /\ plan[a].onError # "pass"
               /\ \E n \in 1..Len(plan[a].requests) : plan[a].requests[n].finds = on
      BY <2>5
    <3>2. CASE a = 1
      BY <3>1, <3>2
    <3>3. CASE a # 1
      <4>1. a - 1 \in 1..(b - 1) /\ a - 1 \in 1..Len(p) /\ (a - 1) + 1 = a
        BY <2>1, <3>3, <1>2
      <4>2. p[a - 1] = plan[a]
        BY <4>1, <1>3
      <4> QED BY <3>1, <4>1, <4>2 DEF After
    <3> QED BY <3>2, <3>3
  <2> QED BY <2>2, <2>3, <2>4, <2>5 DEF After
<1>6. Caches(p)
  BY <1>1, <1>3 DEF Caches
<1>7. \A S : Within(plan, S) => Within(p, S)
  BY <1>3 DEF Within
<1> QED BY <1>4, <1>5, <1>6, <1>7 DEF Sound, p

\* The plan without its next request, once that found what it looks for.
LEMMA RestKeeps ==
  ASSUME NEW plan, NEW k, NEW known, Sound(plan, k), plan # <<>>,
         k \subseteq known, Next1(plan).finds \in Roots => Next1(plan).finds \in known
  PROVE  /\ Sound(Rest(plan), known)
         /\ \A S : Within(plan, S) => Within(Rest(plan), S)
<1>1. plan \in PlanType /\ Planned(plan, k) /\ Caches(plan)
  BY DEF Sound
<1> DEFINE s == plan[1].requests
           p == Rest(plan)
<1>2. Len(s) \in Nat /\ Len(s) >= 1 /\ Next1(plan) = s[1] /\ Len(plan) \in Nat /\ Len(plan) >= 1
      /\ s \in Seq(Requests)
  BY <1>1, RestIs DEF Blocks
<1>3. CASE Len(s) = 1 /\ p = Tail(plan)
  <2>1. \A i \in 1..Len(s) : i = 1
    BY <1>3
  <2>2. \A i \in 1..Len(s) : s[i].finds \in Roots => s[i].finds \in known
    BY <2>1, <1>2
  <2>3. Sound(Tail(plan), known) /\ \A S : Within(plan, S) => Within(Tail(plan), S)
    BY <2>2, TailKeeps
  <2> QED BY <2>3, <1>3
<1>4. CASE /\ Len(s) > 1 /\ p \in Seq(Blocks) /\ Len(p) = Len(plan)
           /\ p[1].onError = plan[1].onError /\ p[1].requests = Tail(s)
           /\ \A b \in 2..Len(plan) : p[b] = plan[b]
  <2> HIDE DEF p
  <2>1. Len(p[1].requests) = Len(s) - 1 /\ \A i \in 1..(Len(s) - 1) : p[1].requests[i] = s[i + 1]
    BY <1>2, <1>4
  <2>2. \A i \in 1..Len(p[1].requests) :
          i \in Nat /\ i + 1 \in 1..Len(s) /\ p[1].requests[i] = s[i + 1]
    BY <1>2, <2>1
  <2>3. \A b \in 1..Len(p) : b \in 1..Len(plan) /\ (b = 1 \/ p[b] = plan[b])
    BY <1>2, <1>4
  <2>4. p \in PlanType
    <3> SUFFICES ASSUME NEW b \in 1..Len(p)
                 PROVE  p[b].requests # <<>>
      BY <1>4 DEF PlanType
    <3>1. CASE b = 1
      <4>1. Len(s) - 1 # 0
        <5> DEFINE n == Len(s)
        <5>1. n \in Nat /\ n > 1
          BY <1>2, <1>4
        <5> HIDE DEF n
        <5>2. n - 1 # 0
          BY <5>1
        <5> QED BY <5>2 DEF n
      <4>2. Len(p[1].requests) # 0
        BY <2>1, <4>1
      <4>3. Len(<<>>) = 0
        OBVIOUS
      <4> QED BY <3>1, <4>2, <4>3
    <3>2. CASE b # 1
      BY <3>2, <1>1, <2>3 DEF PlanType
    <3> QED BY <3>1, <3>2
  <2>5. ASSUME NEW b \in 1..Len(p), NEW i \in 1..Len(p[b].requests), p[b].requests[i].on \in Roots
        PROVE  p[b].requests[i].on \in known \/ After(p, b, i, p[b].requests[i].on)
    <3> DEFINE on == p[b].requests[i].on
    <3>1. CASE b = 1
      <4>1. i \in Nat /\ i + 1 \in 1..Len(s) /\ on = s[i + 1].on /\ 1 \in 1..Len(plan)
        BY <3>1, <2>2, <1>2
      <4>2. on \in k \/ After(plan, 1, i + 1, on)
        BY <4>1, <1>1, <2>5 DEF Planned
      <4>3. CASE \E n \in 1..((i + 1) - 1) : s[n].finds = on
        <5>1. PICK n \in 1..((i + 1) - 1) : s[n].finds = on
          BY <4>3
        <5>2. CASE n = 1
          BY <5>1, <5>2, <1>2, <2>5
        <5>3. CASE n # 1
          <6>1. n - 1 \in 1..(i - 1) /\ n - 1 \in 1..Len(p[1].requests) /\ (n - 1) + 1 = n
            BY <4>1, <5>3, <2>1, <1>2
          <6>2. p[1].requests[n - 1] = s[n]
            BY <6>1, <2>2
          <6> QED BY <3>1, <5>1, <6>1, <6>2 DEF After
        <5> QED BY <5>2, <5>3
      <4> QED BY <4>2, <4>3 DEF After
    <3>2. CASE b # 1
      <4>1. b \in Nat /\ b \in 1..Len(plan) /\ p[b] = plan[b] /\ i \in 1..Len(plan[b].requests)
            /\ on = plan[b].requests[i].on
        BY <3>2, <2>3, <1>2, <1>4
      <4>2. on \in k \/ After(plan, b, i, on)
        BY <4>1, <1>1, <2>5 DEF Planned
      <4>3. CASE on \in k \/ \E n \in 1..(i - 1) : plan[b].requests[n].finds = on
        BY <4>1, <4>3 DEF After
      <4>4. CASE \E a \in 1..(b - 1) : /\ plan[a].onError # "pass"
                                       /\ \E n \in 1..Len(plan[a].requests) : plan[a].requests[n].finds = on
        <5>1. PICK a \in 1..(b - 1) : /\ plan[a].onError # "pass"
                                      /\ \E n \in 1..Len(plan[a].requests) : plan[a].requests[n].finds = on
          BY <4>4
        <5>2. PICK n \in 1..Len(plan[a].requests) : plan[a].requests[n].finds = on
          BY <5>1
        <5>3. CASE a # 1
          <6>1. a \in 2..Len(plan)
            BY <4>1, <5>3, <1>2
          <6>2. p[a] = plan[a]
            BY <6>1, <1>4
          <6> QED BY <5>1, <6>2 DEF After
        <5>4. CASE a = 1 /\ n = 1
          BY <5>2, <5>4, <1>2, <2>5
        <5>5. CASE a = 1 /\ n # 1
          <6>1. n - 1 \in 1..Len(p[1].requests) /\ (n - 1) + 1 = n
            BY <5>5, <2>1, <1>2
          <6>2. p[1].requests[n - 1] = s[n]
            BY <6>1, <2>2
          <6> QED BY <5>1, <5>2, <5>5, <6>1, <6>2, <1>4 DEF After
        <5> QED BY <5>3, <5>4, <5>5
      <4> QED BY <4>2, <4>3, <4>4 DEF After
    <3> QED BY <3>1, <3>2
  <2>6. ASSUME NEW b \in 1..Len(p), NEW i \in 1..Len(p[b].requests)
        PROVE  \E c \in 1..Len(plan) : \E n \in 1..Len(plan[c].requests) : p[b].requests[i] = plan[c].requests[n]
    <3>1. CASE b = 1
      BY <3>1, <2>2, <1>2
    <3>2. CASE b # 1
      BY <3>2, <2>3
    <3> QED BY <3>1, <3>2
  <2>7. Planned(p, known)
    BY <2>5 DEF Planned
  <2>8. Caches(p)
    <3> SUFFICES ASSUME NEW b \in 1..Len(p), NEW i \in 1..Len(p[b].requests), p[b].requests[i].cached
                 PROVE  p[b].requests[i].finds \in Roots /\ p[b].requests[i].kind = "get"
      BY DEF Caches
    <3>1. PICK c \in 1..Len(plan) : \E n \in 1..Len(plan[c].requests) : p[b].requests[i] = plan[c].requests[n]
      BY <2>6
    <3>2. PICK n \in 1..Len(plan[c].requests) : p[b].requests[i] = plan[c].requests[n]
      BY <3>1
    <3> QED BY <1>1, <3>2 DEF Caches
  <2>9. ASSUME NEW S, Within(plan, S)
        PROVE  Within(p, S)
    <3> SUFFICES ASSUME NEW b \in 1..Len(p), NEW i \in 1..Len(p[b].requests)
                 PROVE  p[b].requests[i] \in S
      BY DEF Within
    <3>1. PICK c \in 1..Len(plan) : \E n \in 1..Len(plan[c].requests) : p[b].requests[i] = plan[c].requests[n]
      BY <2>6
    <3>2. PICK n \in 1..Len(plan[c].requests) : p[b].requests[i] = plan[c].requests[n]
      BY <3>1
    <3> QED BY <2>9, <3>2 DEF Within
  <2> QED BY <2>4, <2>7, <2>8, <2>9 DEF Sound, p
<1> QED BY <1>1, <1>3, <1>4, RestIs

\* Of a plan that acts, the request that acts is the last one.
LEMMA RestActs ==
  ASSUME NEW plan \in PlanType, plan # <<>>, ActsLast(plan)
  PROVE  /\ Head(plan).onError = "raise" /\ Next1(plan).empty = "error"
         /\ Next1(plan).kind = "get" => Rest(plan) # <<>> /\ ActsLast(Rest(plan))
         /\ Next1(plan).kind # "get" =>
              Rest(plan) = <<>> /\ Next1(plan).kind = "post" /\ Next1(plan).finds = "nothing"
<1> DEFINE s == plan[1].requests
           p == Rest(plan)
<1>1. Len(plan) = 1 /\ Head(plan) = plan[1] /\ plan[1].onError = "raise" /\ Tail(plan) = <<>>
  <2>1. plan \in Seq(Blocks) /\ Len(plan) = 1 /\ plan[1].onError = "raise"
    BY DEF ActsLast, PlanType
  <2>2. Tail(plan) \in Seq(Blocks) /\ Len(Tail(plan)) = 0 /\ Head(plan) = plan[1]
    BY <2>1
  <2> QED BY <2>1, <2>2, EmptyIs
<1>2. Len(s) \in Nat /\ Len(s) >= 1 /\ Next1(plan) = s[1] /\ s \in Seq(Requests)
  BY RestIs DEF Blocks
<1>3. /\ s[Len(s)].kind = "post" /\ s[Len(s)].finds = "nothing"
      /\ \A i \in 1..Len(s) : s[i].empty = "error" /\ (i < Len(s) => s[i].kind = "get")
  BY DEF ActsLast
<1>4. CASE Len(s) = 1 /\ p = Tail(plan)
  BY <1>1, <1>2, <1>3, <1>4
<1>5. CASE /\ Len(s) > 1 /\ p \in Seq(Blocks) /\ Len(p) = Len(plan)
           /\ p[1].onError = plan[1].onError /\ p[1].requests = Tail(s)
           /\ \A b \in 2..Len(plan) : p[b] = plan[b]
  <2> HIDE DEF p
  <2>1. Len(p[1].requests) = Len(s) - 1 /\ \A i \in 1..(Len(s) - 1) : p[1].requests[i] = s[i + 1]
    BY <1>2, <1>5
  <2> DEFINE q == p[1].requests
             n == Len(s)
  <2>2. n \in Nat /\ n > 1 /\ Len(q) = n - 1 /\ \A i \in 1..(n - 1) : q[i] = s[i + 1]
    BY <1>2, <1>5, <2>1
  <2>3. s[n].kind = "post" /\ s[n].finds = "nothing"
        /\ \A i \in 1..n : s[i].empty = "error" /\ (i < n => s[i].kind = "get")
    BY <1>3
  <2> HIDE DEF q, n, s
  <2>4. s[1].kind = "get" /\ s[1].empty = "error"
    BY <2>2, <2>3
  <2>5. q[n - 1] = s[n]
    <3>1. n - 1 \in 1..(n - 1) /\ (n - 1) + 1 = n
      BY <2>2
    <3> QED BY <2>2, <3>1
  <2>6. \A i \in 1..(n - 1) : q[i].empty = "error" /\ (i < n - 1 => q[i].kind = "get")
    BY <2>2, <2>3
  <2>7. ActsLast(p)
    BY <1>1, <1>5, <2>2, <2>3, <2>5, <2>6 DEF ActsLast, q
  <2>8. p # <<>>
    BY <1>1, <1>5
  <2> QED BY <1>1, <1>2, <2>4, <2>7, <2>8 DEF p
<1> QED BY <1>4, <1>5, RestIs

-----------------------------------------------------------------------------
(***************************************************************************)
(* The operation of a task.                                                *)
(***************************************************************************)
JobType(e) ==
  [plan : PlanType, path : [Roots -> 0..e], answer : 0..e, outcome : Results, looks : BOOLEAN,
   acts : BOOLEAN, since : 0..e, acted : Nat, unexplained : BOOLEAN]

Found(j) == {r \in Roots : j.path[r] # 0}

\* It has acted when only the return is left of it, not before.
Acts(j) ==
  /\ j.acted <= 1
  /\ ~ j.acts => Within(j.plan, Gets) /\ j.acted = 0
  /\ j.acts /\ j.plan # <<>> => ActsLast(j.plan) /\ j.acted = 0
  /\ j.acts /\ j.outcome = "ok" => j.acted = 1

\* One that looks for its system anew has no path of before its call.
Anew(j) ==
  j.looks => /\ Within(j.plan, Uncached)
             /\ j.plan # <<>> => j.since > 0
             /\ j.answer = 0 \/ j.answer >= j.since
             /\ \A r \in Roots : j.path[r] = 0 \/ j.path[r] >= j.since

JobOK(j, e) ==
  /\ j \in JobType(e)
  /\ Sound(j.plan, Found(j))
  /\ j.outcome # "none" => j.plan = <<>>
  /\ Acts(j) /\ Anew(j)

\* It may go on, or is about to return.
Pending(j, e) ==
  JobOK(j, e) /\ j.outcome = "none" /\ (j.acts /\ j.plan = <<>> => j.acted = 1)

LEMMA EmptyPlan ==
  /\ <<>> \in PlanType
  /\ \A known : Sound(<<>>, known)
  /\ \A S : Within(<<>>, S)
BY DEF PlanType, Sound, Planned, Caches, Within

LEMMA NoJobOK ==
  ASSUME NEW e \in Nat
  PROVE  JobOK(NoJob, e)
<1>1. NoJob \in JobType(e)
  BY EmptyPlan DEF NoJob, JobType, Results
<1>2. NoJob.plan = <<>> /\ NoJob.looks = FALSE /\ NoJob.acts = FALSE /\ NoJob.acted = 0
      /\ NoJob.outcome = "none"
  BY DEF NoJob
<1> QED BY <1>1, <1>2, EmptyPlan DEF JobOK, Acts, Anew

\* Time goes by, the job stays.
LEMMA JobLasts ==
  ASSUME NEW e \in Nat, NEW j, JobOK(j, e)
  PROVE  JobOK(j, e + 1)
<1>1. j \in JobType(e + 1)
  <2>1. 0..e \subseteq 0..(e + 1)
    OBVIOUS
  <2>2. [Roots -> 0..e] \subseteq [Roots -> 0..(e + 1)]
    BY <2>1
  <2> HIDE DEF Roots
  <2> DEFINE E == 0..e
             F == 0..(e + 1)
             G == [Roots -> 0..e]
             H == [Roots -> 0..(e + 1)]
  <2>3. E \subseteq F /\ G \subseteq H
    BY <2>1, <2>2
  <2>4. j \in [plan : PlanType, path : G, answer : E, outcome : Results, looks : BOOLEAN,
               acts : BOOLEAN, since : E, acted : Nat, unexplained : BOOLEAN]
    BY DEF JobOK, JobType
  <2> HIDE DEF E, F, G, H
  <2>5. j \in [plan : PlanType, path : H, answer : F, outcome : Results, looks : BOOLEAN,
               acts : BOOLEAN, since : F, acted : Nat, unexplained : BOOLEAN]
    BY <2>3, <2>4
  <2> QED BY <2>5 DEF JobType, F, H
<1> QED BY <1>1 DEF JobOK

\* The end of an operation.
LEMMA EndOK ==
  ASSUME NEW e \in Nat, NEW j, NEW r \in Results,
         j \in JobType(e), j.acted <= 1, j.acts /\ r = "ok" => j.acted = 1, ~ j.acts => j.acted = 0
  PROVE  JobOK([j EXCEPT !.plan = <<>>, !.outcome = r, !.path = NoJob.path, !.answer = 0, !.since = 0], e)
<1> DEFINE n == [j EXCEPT !.plan = <<>>, !.outcome = r, !.path = NoJob.path, !.answer = 0, !.since = 0]
<1>1. NoJob.path \in [Roots -> 0..e] /\ \A x \in Roots : NoJob.path[x] = 0
  BY DEF NoJob
<1> DEFINE p == NoJob.path
<1> HIDE DEF p
<1>2. n \in JobType(e)
  <2> DEFINE E == 0..e
             G == [Roots -> 0..e]
             T == PlanType
             m == [j EXCEPT !.plan = <<>>, !.outcome = r, !.path = p, !.answer = 0, !.since = 0]
  <2>1. p \in G /\ 0 \in E /\ <<>> \in T
    BY <1>1, EmptyPlan DEF p
  <2>2. j \in [plan : T, path : G, answer : E, outcome : Results, looks : BOOLEAN,
               acts : BOOLEAN, since : E, acted : Nat, unexplained : BOOLEAN]
    BY DEF JobType
  <2> HIDE DEF E, G, T
  <2>3. m \in [plan : T, path : G, answer : E, outcome : Results, looks : BOOLEAN,
               acts : BOOLEAN, since : E, acted : Nat, unexplained : BOOLEAN]
    BY <2>1, <2>2
  <2>4. m \in JobType(e)
    BY <2>3 DEF JobType, E, G, T
  <2> QED BY <2>4 DEF m, p
<1>3. n.plan = <<>> /\ n.outcome = r /\ n.path = p /\ n.answer = 0 /\ n.acted = j.acted /\ n.acts = j.acts
  BY DEF JobType, p
<1> HIDE DEF n
<1>4. Acts(n)
  BY <1>3, EmptyPlan DEF Acts
<1>5. Anew(n)
  BY <1>1, <1>3, EmptyPlan DEF Anew, p
<1>6. Sound(n.plan, Found(n))
  BY <1>3, EmptyPlan
<1>7. JobOK(n, e)
  BY <1>2, <1>3, <1>4, <1>5, <1>6 DEF JobOK
<1> QED BY <1>7 DEF n

\* The job with what a request changes of it.
With(j, q, p, a, u) == [j EXCEPT !.plan = q, !.path = p, !.acted = a, !.unexplained = u]

LEMMA WithTyped ==
  ASSUME NEW e \in Nat, NEW j \in JobType(e), NEW q \in PlanType, NEW p \in [Roots -> 0..e],
         NEW a \in Nat, NEW u \in BOOLEAN
  PROVE  /\ With(j, q, p, a, u) \in JobType(e)
         /\ With(j, q, p, a, u).plan = q /\ With(j, q, p, a, u).path = p
         /\ With(j, q, p, a, u).acted = a /\ With(j, q, p, a, u).outcome = j.outcome
         /\ With(j, q, p, a, u).acts = j.acts /\ With(j, q, p, a, u).looks = j.looks
         /\ With(j, q, p, a, u).since = j.since /\ With(j, q, p, a, u).answer = j.answer
         /\ With(j, q, p, a, u).unexplained = u
<1> DEFINE E == 0..e
           G == [Roots -> 0..e]
           T == PlanType
<1>1. p \in G /\ q \in T
  OBVIOUS
<1>2. j \in [plan : T, path : G, answer : E, outcome : Results, looks : BOOLEAN,
             acts : BOOLEAN, since : E, acted : Nat, unexplained : BOOLEAN]
  BY DEF JobType
<1> HIDE DEF E, G, T
<1>3. With(j, q, p, a, u) \in [plan : T, path : G, answer : E, outcome : Results, looks : BOOLEAN,
             acts : BOOLEAN, since : E, acted : Nat, unexplained : BOOLEAN]
  BY <1>1, <1>2 DEF With
<1>4. With(j, q, p, a, u) \in JobType(e)
  BY <1>3 DEF JobType, E, G, T
<1>5. /\ With(j, q, p, a, u).plan = q /\ With(j, q, p, a, u).path = p
      /\ With(j, q, p, a, u).acted = a /\ With(j, q, p, a, u).outcome = j.outcome
      /\ With(j, q, p, a, u).acts = j.acts /\ With(j, q, p, a, u).looks = j.looks
      /\ With(j, q, p, a, u).since = j.since /\ With(j, q, p, a, u).answer = j.answer
      /\ With(j, q, p, a, u).unexplained = u
  BY <1>2 DEF With
<1> QED BY <1>4, <1>5

\* The next request is done with: its root is found, and it acted if it acts.
LEMMA Proceeds ==
  ASSUME NEW e \in Nat, NEW j, JobOK(j, e), j.outcome = "none", j.plan # <<>>,
         NEW p \in [Roots -> 0..e], NEW a \in Nat, NEW u \in BOOLEAN,
         \A r \in Roots : j.path[r] # 0 => p[r] # 0,
         Next1(j.plan).finds \in Roots => p[Next1(j.plan).finds] # 0,
         a = j.acted + IF Next1(j.plan).kind = "post" THEN 1 ELSE 0,
         j.looks => \A r \in Roots : p[r] = 0 \/ p[r] >= j.since
  PROVE  Pending(With(j, Rest(j.plan), p, a, u), e)
<1> DEFINE n == With(j, Rest(j.plan), p, a, u)
           s == Next1(j.plan)
<1>1. j \in JobType(e) /\ Sound(j.plan, Found(j)) /\ Acts(j) /\ Anew(j) /\ j.plan \in PlanType
  BY DEF JobOK, JobType
<1> DEFINE known == {r \in Roots : p[r] # 0}
<1>2. Found(j) \subseteq known /\ (s.finds \in Roots => s.finds \in known)
  BY DEF Found
<1>3. Sound(Rest(j.plan), known) /\ \A S : Within(j.plan, S) => Within(Rest(j.plan), S) /\ s \in S
  BY <1>1, <1>2, RestKeeps, NextReady
<1>4. Rest(j.plan) \in PlanType
  BY <1>3 DEF Sound
<1>5. /\ n \in JobType(e) /\ n.plan = Rest(j.plan) /\ n.path = p /\ n.acted = a /\ n.outcome = j.outcome
      /\ n.acts = j.acts /\ n.looks = j.looks /\ n.since = j.since /\ n.answer = j.answer
  BY <1>1, <1>4, WithTyped
<1> HIDE DEF n
<1>6. Found(n) = known
  BY <1>5 DEF Found
<1>7. Anew(n)
  BY <1>1, <1>3, <1>5 DEF Anew
<1>8. Acts(n) /\ (n.acts /\ n.plan = <<>> => n.acted = 1)
  <2>1. CASE ~ j.acts
    <3>1. s.kind = "get" /\ j.acted = 0 /\ Within(Rest(j.plan), Gets)
      BY <2>1, <1>1, <1>3 DEF Acts, Gets
    <3>2. a = 0
      BY <3>1
    <3> QED BY <2>1, <3>1, <3>2, <1>5 DEF Acts
  <2>2. CASE j.acts
    <3>1. ActsLast(j.plan) /\ j.acted = 0
      BY <2>2, <1>1 DEF Acts
    <3>2. CASE s.kind = "get"
      <4>1. Rest(j.plan) # <<>> /\ ActsLast(Rest(j.plan)) /\ a = 0
        BY <3>1, <3>2, <1>1, RestActs
      <4> QED BY <2>2, <4>1, <1>5 DEF Acts
    <3>3. CASE s.kind # "get"
      <4>1. Rest(j.plan) = <<>> /\ s.kind = "post"
        BY <3>1, <3>3, <1>1, RestActs
      <4>2. a = 1
        BY <3>1, <4>1
      <4> QED BY <2>2, <4>1, <4>2, <1>5 DEF Acts
    <3> QED BY <3>2, <3>3
  <2> QED BY <2>1, <2>2
<1>9. Sound(n.plan, Found(n))
  BY <1>3, <1>5, <1>6
<1> QED BY <1>5, <1>7, <1>8, <1>9 DEF Pending, JobOK, n

\* A path that is cached is not asked for, and the plan is not over with it.
LEMMA ReuseOK ==
  ASSUME NEW e \in Nat, NEW j, Pending(j, e), cache \in [Roots -> 0..e]
  PROVE  /\ Pending(Reuse(j), e) /\ Reuse(j).unexplained = j.unexplained
         /\ Reuse(j).acts = j.acts
<1>1. CASE j.plan # <<>> /\ Next1(j.plan).cached /\ cache[Next1(j.plan).finds] # 0
  <2> DEFINE s == Next1(j.plan)
             p == [j.path EXCEPT ![s.finds] = cache[s.finds]]
  <2>1. j \in JobType(e) /\ Sound(j.plan, Found(j)) /\ Anew(j) /\ JobOK(j, e) /\ j.outcome = "none"
    BY DEF Pending, JobOK
  <2>2. /\ s.finds \in Roots /\ s.kind = "get"
        /\ \A S : Within(j.plan, S) => s \in S
    BY <1>1, <2>1, NextReady DEF Ready
  <2>3. p \in [Roots -> 0..e] /\ j.path \in [Roots -> 0..e]
    BY <2>1, <2>2 DEF JobType
  <2>4. /\ \A r \in Roots : j.path[r] # 0 => p[r] # 0
        /\ p[s.finds] # 0
    BY <2>2, <2>3, <1>1
  <2>5. ~ j.looks
    BY <1>1, <2>1, <2>2 DEF Anew, Uncached
  <2>6. j.acted \in Nat /\ j.unexplained \in BOOLEAN
    BY <2>1 DEF JobType
  <2>7. j.acted = j.acted + IF s.kind = "post" THEN 1 ELSE 0
    BY <2>2, <2>6
  <2>8. Reuse(j) = With(j, Rest(j.plan), p, j.acted, j.unexplained)
    BY <1>1, <2>1 DEF Reuse, With, JobType
  <2> HIDE DEF p
  <2>9. Pending(With(j, Rest(j.plan), p, j.acted, j.unexplained), e)
    BY <1>1, <2>1, <2>3, <2>4, <2>5, <2>6, <2>7, Proceeds
  <2>10. Rest(j.plan) \in PlanType
    <3>1. \A S : Roots \subseteq S => Sound(Rest(j.plan), S)
      BY <2>1, <1>1, RestKeeps DEF Found
    <3> QED BY <3>1 DEF Sound
  <2>11. /\ With(j, Rest(j.plan), p, j.acted, j.unexplained).unexplained = j.unexplained
         /\ With(j, Rest(j.plan), p, j.acted, j.unexplained).acts = j.acts
    BY <2>1, <2>3, <2>6, <2>10, WithTyped
  <2> QED BY <2>8, <2>9, <2>11
<1>2. CASE ~ (j.plan # <<>> /\ Next1(j.plan).cached /\ cache[Next1(j.plan).finds] # 0)
  BY <1>2, Zenon DEF Reuse
<1> QED BY <1>1, <1>2

-----------------------------------------------------------------------------
(***************************************************************************)
(* The inductive invariant: TInv and ExecInv of the requests, and JobInv.  *)
(***************************************************************************)
\* How the job of t and its request go together.
Kept(t) ==
  /\ InCall(t) => job[t].plan # <<>>
  /\ job[t].plan # <<>> => pc[t] # "closing"
  /\ job[t].plan # <<>> /\ execs[t] # 0 => job[t].answer # 0

DeviceOK == epoch \in 1..(MaxRenames + 1) /\ lacks \in Lacks /\ cache \in [Roots -> 0..epoch]

JobInv ==
  /\ DeviceOK
  /\ job \in [Tasks -> JobType(epoch)]
  /\ \A t \in Tasks : JobOK(job[t], epoch) /\ Kept(t)

\* The operation of t goes on with another call or ends.
Moves(t, u) ==
  /\ job' \in [Tasks -> JobType(epoch)] /\ JobOK(job'[t], epoch)
  /\ \A v \in Tasks \ {t} : job'[v] = job[v]
  /\ job'[t].unexplained = u
  /\ \/ job'[t].plan = <<>> /\ UNCHANGED vars
     \/ job'[t].plan # <<>> /\ \E k \in Kinds : Call(t, k)

LEMMA EndMoves ==
  ASSUME JobInv, NEW t \in Tasks, NEW j \in JobType(epoch), NEW r \in Results, End(t, j, r),
         j.acted <= 1, j.acts /\ r = "ok" => j.acted = 1, ~ j.acts => j.acted = 0
  PROVE  Moves(t, j.unexplained)
<1> DEFINE n == [j EXCEPT !.plan = <<>>, !.outcome = r, !.path = NoJob.path, !.answer = 0, !.since = 0]
<1>1. epoch \in Nat
  BY DEF JobInv, DeviceOK
<1>2. JobOK(n, epoch)
  BY <1>1, EndOK
<1>3. n.plan = <<>> /\ n.unexplained = j.unexplained
  BY DEF JobType
<1>4. job' = [job EXCEPT ![t] = n] /\ UNCHANGED vars
  BY DEF End
<1> HIDE DEF n
<1>5. n \in JobType(epoch)
  BY <1>2 DEF JobOK
<1> QED BY <1>2, <1>3, <1>4, <1>5 DEF Moves, JobInv

LEMMA GoOnMoves ==
  ASSUME JobInv, NEW t \in Tasks, NEW j, Pending(j, epoch), GoOn(t, j)
  PROVE  Moves(t, j.unexplained)
<1> DEFINE n == Reuse(j)
<1>1. epoch \in Nat /\ cache \in [Roots -> 0..epoch]
  BY DEF JobInv, DeviceOK
<1>2. Pending(n, epoch) /\ n.unexplained = j.unexplained
  BY <1>1, ReuseOK
<1>3. IF n.plan = <<>> THEN End(t, n, "ok")
      ELSE job' = [job EXCEPT ![t] = n] /\ Call(t, Next1(n.plan).kind)
  BY DEF GoOn
<1> HIDE DEF n
<1>4. n \in JobType(epoch) /\ Sound(n.plan, Found(n)) /\ Acts(n) /\ JobOK(n, epoch)
  BY <1>2 DEF Pending, JobOK
<1>5. CASE n.plan = <<>>
  <2>1. n.acted <= 1 /\ (n.acts => n.acted = 1) /\ (~ n.acts => n.acted = 0)
    BY <1>2, <1>4, <1>5 DEF Pending, Acts
  <2>2. End(t, n, "ok") /\ "ok" \in Results
    BY <1>3, <1>5 DEF Results
  <2>3. Moves(t, n.unexplained)
    BY <1>4, <2>1, <2>2, EndMoves
  <2> QED BY <1>2, <2>3
<1>6. CASE n.plan # <<>>
  <2>1. Next1(n.plan).kind \in Kinds
    BY <1>4, <1>6, NextReady DEF Ready, Requests
  <2>2. job' = [job EXCEPT ![t] = n] /\ Call(t, Next1(n.plan).kind)
    BY <1>3, <1>6
  <2> QED BY <1>2, <1>4, <1>6, <2>1, <2>2 DEF Moves, JobInv
<1> QED BY <1>5, <1>6

LEMMA PerformMoves ==
  ASSUME JobInv, NEW t \in Tasks, NEW plan \in Plans, Perform(t, plan)
  PROVE  Moves(t, FALSE)
<1> DEFINE a == plan \in Looked
           b == plan \in Acting
           n == [NoJob EXCEPT !.plan = plan, !.since = epoch, !.looks = a, !.acts = b]
<1>1. GoOn(t, n)
  BY DEF Perform
<1>a. a \in BOOLEAN /\ b \in BOOLEAN /\ (a <=> plan \in Looked) /\ (b <=> plan \in Acting)
  OBVIOUS
<1> HIDE DEF a, b
<1>2. epoch \in Nat /\ epoch >= 1
  BY DEF JobInv, DeviceOK
<1>3. Begins(plan)
  BY PlansBegin
<1>4. /\ n.plan = plan /\ n.since = epoch /\ n.looks = a /\ n.acts = b
      /\ n.path = [r \in Roots |-> 0] /\ n.answer = 0 /\ n.outcome = "none" /\ n.acted = 0
      /\ n.unexplained = FALSE
  BY DEF NoJob
<1>5. n \in JobType(epoch)
  <2>1. plan \in PlanType
    BY <1>3 DEF Begins, Sound
  <2> DEFINE T == PlanType
             E == 0..epoch
             G == [Roots -> 0..epoch]
             none == NoJob
  <2>2. none \in JobType(epoch)
    BY <1>2, NoJobOK DEF JobOK
  <2>3. none \in [plan : T, path : G, answer : E, outcome : Results, looks : BOOLEAN,
                  acts : BOOLEAN, since : E, acted : Nat, unexplained : BOOLEAN]
    BY <2>2 DEF JobType
  <2>4. plan \in T /\ epoch \in E
    BY <1>2, <2>1
  <2> HIDE DEF T, E, G, none
  <2> DEFINE m == [none EXCEPT !.plan = plan, !.since = epoch, !.looks = a, !.acts = b]
  <2>5. m \in [plan : T, path : G, answer : E, outcome : Results, looks : BOOLEAN,
               acts : BOOLEAN, since : E, acted : Nat, unexplained : BOOLEAN]
    BY <1>a, <2>3, <2>4
  <2>6. m = n
    BY DEF none
  <2> HIDE DEF m, n
  <2> QED BY <2>5, <2>6 DEF JobType, T, E, G
<1> HIDE DEF n
<1>6. Found(n) = {}
  BY <1>4 DEF Found
<1>7. Sound(n.plan, Found(n))
  BY <1>3, <1>4, <1>6 DEF Begins
<1>8. Acts(n) /\ n.plan # <<>>
  BY <1>a, <1>3, <1>4 DEF Begins, Acts
<1>9. Anew(n)
  BY <1>a, <1>2, <1>3, <1>4 DEF Begins, Anew
<1>10. Pending(n, epoch)
  BY <1>4, <1>5, <1>7, <1>8, <1>9 DEF Pending, JobOK
<1> QED BY <1>1, <1>4, <1>10, GoOnMoves

\* The executions of the request that is over count if it acts.
Acted(t) == job[t].acted + IF Next1(job[t].plan).kind = "post" THEN execs[t] ELSE 0

\* The failure of a request without a reason.
Blamed(t) == job[t].unexplained \/ (~ Reason(t) /\ result[t] # "cancelled")

LEMMA FailedIs ==
  ASSUME JobInv, NEW t \in Tasks, ExecInv(t), job[t].plan # <<>>
  PROVE  /\ Acted(t) \in Nat /\ Acted(t) <= 1 /\ Blamed(t) \in BOOLEAN
         /\ ~ job[t].acts => Acted(t) = 0
         /\ Noted(t) = With(job[t], job[t].plan, job[t].path, Acted(t), job[t].unexplained)
         /\ Failed(t) = With(job[t], job[t].plan, job[t].path, Acted(t), Blamed(t))
<1> DEFINE j == job[t]
<1>1. j \in JobType(epoch) /\ Acts(j) /\ Sound(j.plan, Found(j))
  BY DEF JobInv, JobOK
<1>2. j.acted \in Nat /\ j.unexplained \in BOOLEAN
  BY <1>1 DEF JobType
<1>3. execs[t] \in 0..1
  BY DEF ExecInv
<1>4. ~ j.acts => j.acted = 0 /\ Next1(j.plan).kind = "get"
  <2>1. Within(j.plan, Gets) => Next1(j.plan) \in Gets
    BY <1>1, NextReady
  <2> QED BY <2>1, <1>1 DEF Acts, Gets
<1>5. j.acts => j.acted = 0
  BY <1>1 DEF Acts
<1>6. Acted(t) \in Nat /\ Acted(t) <= 1 /\ (~ j.acts => Acted(t) = 0)
  BY <1>2, <1>3, <1>4, <1>5 DEF Acted
<1>7. Blamed(t) \in BOOLEAN
  BY <1>2 DEF Blamed
<1>8. Noted(t) = [j EXCEPT !.acted = Acted(t)]
  BY DEF Noted, Acted
<1>9. Noted(t) = With(j, j.plan, j.path, Acted(t), j.unexplained)
  <2> HIDE DEF j
  <2> QED BY <1>1, <1>8 DEF With, JobType
<1>10. Failed(t) = With(j, j.plan, j.path, Acted(t), Blamed(t))
  <2> DEFINE n == Noted(t)
             b == Blamed(t)
  <2>1. n.unexplained = j.unexplained
    BY <1>8 DEF JobType
  <2>2. Failed(t) = [n EXCEPT !.unexplained = b]
    BY <2>1 DEF Failed, Blamed
  <2> DEFINE a == Acted(t)
  <2>3. n = [j EXCEPT !.acted = a] /\ a \in Nat /\ b \in BOOLEAN
    BY <1>6, <1>7, <1>8
  <2> HIDE DEF a, b, j, n
  <2>4. [n EXCEPT !.unexplained = b] = With(j, j.plan, j.path, a, b)
    BY <1>1, <2>3 DEF With, JobType
  <2> QED BY <2>2, <2>4 DEF a, b, n
<1> QED BY <1>6, <1>7, <1>9, <1>10

\* A request is over: the operation goes on with the path it found.
LEMMA AnsweredMoves ==
  ASSUME TInv, JobInv, NEW t \in Tasks, ExecInv(t), Answered(t)
  PROVE  Moves(t, job[t].unexplained) /\ DeviceOK'
<1> DEFINE j == job[t]
           s == Next1(j.plan)
           p == [r \in Roots |-> IF r = s.finds THEN j.answer ELSE j.path[r]]
           n == With(j, Rest(j.plan), p, Acted(t), j.unexplained)
<1>1. /\ Waits(t) /\ result[t] = "ok" /\ UNCHANGED device
      /\ cache' = IF s.cached THEN [cache EXCEPT ![s.finds] = Noted(t).answer] ELSE cache
      /\ GoOn(t, [Noted(t) EXCEPT !.plan = Rest(@),
                       !.path = [r \in Roots |-> IF r = s.finds THEN Noted(t).answer ELSE @[r]]])
  <2>1. Next1(Noted(t).plan) = s
    BY DEF Noted, JobInv, JobOK, JobType
  <2> QED BY <2>1 DEF Answered
<1>2. /\ j \in JobType(epoch) /\ JobOK(j, epoch) /\ j.plan # <<>> /\ j.outcome = "none" /\ Anew(j)
      /\ Sound(j.plan, Found(j))
  BY <1>1 DEF JobInv, JobOK, Waits
<1>3. epoch \in Nat /\ j.answer \in 0..epoch /\ j.path \in [Roots -> 0..epoch]
      /\ j.unexplained \in BOOLEAN /\ j.acted \in Nat
  BY <1>2 DEF JobInv, DeviceOK, JobType
<1>4. execs[t] = 1 /\ j.answer # 0
  BY <1>1 DEF ExecInv, JobInv, Kept, Waits
<1>5. Acted(t) = j.acted + IF s.kind = "post" THEN 1 ELSE 0
  BY <1>4 DEF Acted
<1>6. p \in [Roots -> 0..epoch] /\ (\A r \in Roots : j.path[r] # 0 => p[r] # 0)
      /\ (s.finds \in Roots => p[s.finds] # 0)
      /\ (j.looks => \A r \in Roots : p[r] = 0 \/ p[r] >= j.since)
  BY <1>2, <1>3, <1>4 DEF Anew
<1>7. Acted(t) \in Nat /\ Noted(t) = With(j, j.plan, j.path, Acted(t), j.unexplained)
  BY <1>1, FailedIs DEF Waits
<1>8. Rest(j.plan) \in PlanType /\ j.plan \in PlanType
  <2>1. Sound(Rest(j.plan), Roots)
    BY <1>2, RestKeeps DEF Found
  <2> QED BY <2>1, <1>2 DEF Sound
<1>9. GoOn(t, n)
  <2> DEFINE m == Noted(t)
  <2>1. m.plan = j.plan /\ m.path = j.path /\ m.answer = j.answer
    BY <1>2 DEF Noted, JobType
  <2>2. GoOn(t, [m EXCEPT !.plan = Rest(j.plan), !.path = p])
    BY <1>1, <2>1
  <2>3. m = [j EXCEPT !.plan = j.plan, !.path = j.path, !.acted = Acted(t), !.unexplained = j.unexplained]
    BY <1>7 DEF With
  <2> DEFINE a == Acted(t)
             q == Rest(j.plan)
  <2>4. [m EXCEPT !.plan = q, !.path = p] = n
    <3> HIDE DEF p, a, q, j, m
    <3> QED BY <2>3, <1>2 DEF With, JobType, a, q
  <2> QED BY <2>2, <2>4
<1>10. Pending(n, epoch)
  <2> HIDE DEF p, s, j, n
  <2>1. Next1(j.plan).finds \in Roots => p[Next1(j.plan).finds] # 0
    BY <1>6 DEF s
  <2>2. Acted(t) = j.acted + IF Next1(j.plan).kind = "post" THEN 1 ELSE 0
    BY <1>5 DEF s
  <2> QED BY <1>2, <1>3, <1>6, <1>7, <2>1, <2>2, Proceeds DEF n
<1>11. n.unexplained = j.unexplained
  BY <1>2, <1>3, <1>6, <1>7, <1>8, WithTyped
<1>12. Noted(t).answer = j.answer
  BY <1>2, <1>3, <1>7, <1>8, WithTyped
<1> HIDE DEF n
<1>13. Moves(t, n.unexplained)
  BY <1>9, <1>10, GoOnMoves
<1>14. s.cached => s.finds \in Roots
  BY <1>2, NextReady DEF Ready
<1>15. cache' \in [Roots -> 0..epoch]
  BY <1>1, <1>3, <1>12, <1>14 DEF JobInv, DeviceOK
<1>16. DeviceOK'
  BY <1>1, <1>15 DEF JobInv, DeviceOK, device
<1> QED BY <1>11, <1>13, <1>16

\* An operation whose request failed ends, or goes on with its next block.
LEMMA FailedMoves ==
  ASSUME JobInv, NEW t \in Tasks, ExecInv(t), Waits(t), NEW r \in Results,
         \/ End(t, Failed(t), r) /\ (job[t].acts => r # "ok")
         \/ Head(job[t].plan).onError = "pass" /\ GoOn(t, [Failed(t) EXCEPT !.plan = Tail(@)])
  PROVE  Moves(t, Blamed(t))
<1> DEFINE j == job[t]
           f == Failed(t)
           a == Acted(t)
           b == Blamed(t)
<1>1. /\ j \in JobType(epoch) /\ JobOK(j, epoch) /\ j.plan # <<>> /\ j.outcome = "none"
      /\ Anew(j) /\ Acts(j) /\ Sound(j.plan, Found(j)) /\ j.plan \in PlanType
  BY DEF JobInv, JobOK, Waits, JobType
<1>2. epoch \in Nat /\ j.path \in [Roots -> 0..epoch]
  BY <1>1 DEF JobInv, DeviceOK, JobType
<1>3. a \in Nat /\ a <= 1 /\ b \in BOOLEAN /\ (~ j.acts => a = 0)
  BY FailedIs DEF Waits
<1>4. f = With(j, j.plan, j.path, a, b)
  BY FailedIs DEF Waits
<1> HIDE DEF j, f, a, b
<1>5. f \in JobType(epoch) /\ f.acted = a /\ f.acts = j.acts /\ f.unexplained = b /\ f.plan = j.plan
  BY <1>1, <1>2, <1>3, <1>4, WithTyped
<1>6. CASE End(t, f, r) /\ (j.acts => r # "ok")
  <2>1. Moves(t, f.unexplained)
    BY <1>3, <1>5, <1>6, EndMoves
  <2> QED BY <1>5, <2>1 DEF b
<1>7. CASE Head(j.plan).onError = "pass" /\ GoOn(t, [f EXCEPT !.plan = Tail(@)])
  <2> DEFINE q == Tail(j.plan)
             n == With(j, q, j.path, a, b)
  <2>1. Head(j.plan) = j.plan[1]
    BY <1>1 DEF PlanType
  <2>2. ~ j.acts
    BY <1>1, <1>7, <2>1 DEF Acts, ActsLast
  <2>3. Sound(q, Found(j)) /\ \A S : Within(j.plan, S) => Within(q, S)
    BY <1>1, <1>7, <2>1, TailKeeps
  <2>4. q \in PlanType
    BY <2>3 DEF Sound
  <2>5. [f EXCEPT !.plan = q] = n
    <3> HIDE DEF q
    <3> QED BY <1>1, <1>3, <1>4 DEF With, JobType
  <2>6. [f EXCEPT !.plan = Tail(@)] = [f EXCEPT !.plan = q]
    BY <1>5
  <2> HIDE DEF q
  <2>7. GoOn(t, n)
    BY <1>7, <2>5, <2>6
  <2>8. /\ n \in JobType(epoch) /\ n.plan = q /\ n.path = j.path /\ n.acted = a /\ n.outcome = j.outcome
        /\ n.acts = j.acts /\ n.looks = j.looks /\ n.since = j.since /\ n.answer = j.answer
        /\ n.unexplained = b
    BY <1>1, <1>2, <1>3, <2>4, WithTyped
  <2> HIDE DEF n
  <2>9. Found(n) = Found(j)
    BY <2>8 DEF Found
  <2>10. Acts(n) /\ (n.acts => FALSE)
    BY <1>1, <1>3, <2>2, <2>3, <2>8 DEF Acts
  <2>11. Anew(n)
    BY <1>1, <2>3, <2>8 DEF Anew
  <2>12. Pending(n, epoch)
    BY <1>1, <2>3, <2>8, <2>9, <2>10, <2>11 DEF Pending, JobOK
  <2>13. Moves(t, n.unexplained)
    BY <2>7, <2>12, GoOnMoves
  <2> QED BY <2>8, <2>13 DEF b
<1> QED BY <1>6, <1>7 DEF j, f

\* Of an operation that acts, only an error ends a block early.
LEMMA ActsRaises ==
  ASSUME JobInv, NEW t \in Tasks, job[t].plan # <<>>, job[t].acts
  PROVE  Head(job[t].plan).onError = "raise" /\ Next1(job[t].plan).empty = "error"
<1>1. job[t].plan \in PlanType /\ ActsLast(job[t].plan)
  BY DEF JobInv, JobOK, JobType, Acts
<1> QED BY <1>1, RestActs

LEMMA ErrsMoves ==
  ASSUME JobInv, NEW t \in Tasks, ExecInv(t), Errs(t) \/ EndsEmpty(t) \/ Raises(t)
  PROVE  Moves(t, Blamed(t)) /\ DeviceOK'
<1>1. DeviceOK'
  BY DEF JobInv, DeviceOK, Errs, EndsEmpty, Raises, device
<1>2. Waits(t) /\ job[t].plan # <<>>
  BY DEF Errs, EndsEmpty, Raises, Waits
<1>3. job[t].acts => Head(job[t].plan).onError = "raise" /\ Next1(job[t].plan).empty = "error"
  BY <1>2, ActsRaises
<1>4. CASE Errs(t)
  <2>1. Head(job[t].plan).onError \in {"raise", "return", "pass"}
    <3>1. job[t].plan \in PlanType
      BY DEF JobInv, JobOK, JobType
    <3>2. Head(job[t].plan) = job[t].plan[1] /\ job[t].plan[1] \in Blocks
      BY <1>2, <3>1 DEF PlanType
    <3> QED BY <3>2 DEF Blocks
  <2>2. Catches(t)
    BY <1>4 DEF Errs
  <2>3. CASE Head(job[t].plan).onError = "raise"
    <3>1. End(t, Failed(t), "RedfishError") /\ "RedfishError" \in Results
      BY <2>2, <2>3 DEF Catches, Results
    <3> QED BY <1>1, <1>2, <3>1, FailedMoves
  <2>4. CASE Head(job[t].plan).onError = "return"
    <3>1. End(t, Failed(t), "ok") /\ "ok" \in Results /\ ~ job[t].acts
      BY <2>2, <2>4, <1>3 DEF Catches, Results
    <3> QED BY <1>1, <1>2, <3>1, FailedMoves
  <2>5. CASE Head(job[t].plan).onError = "pass"
    <3>1. GoOn(t, [Failed(t) EXCEPT !.plan = Tail(@)]) /\ "ok" \in Results
      BY <2>2, <2>5 DEF Catches, Results
    <3> QED BY <1>1, <1>2, <2>5, <3>1, FailedMoves
  <2> QED BY <2>1, <2>3, <2>4, <2>5
<1>5. CASE EndsEmpty(t)
  <2>1. End(t, Failed(t), "ok") /\ "ok" \in Results /\ ~ job[t].acts
    BY <1>5, <1>3 DEF EndsEmpty, Results
  <2> QED BY <1>1, <1>2, <2>1, FailedMoves
<1>6. CASE Raises(t)
  <2>1. End(t, Failed(t), result[t]) /\ result[t] \in Results /\ result[t] # "ok"
    BY <1>6 DEF Raises, Results
  <2> QED BY <1>1, <1>2, <2>1, FailedMoves
<1> QED BY <1>4, <1>5, <1>6

-----------------------------------------------------------------------------
(***************************************************************************)
(* Steps.                                                                  *)
(***************************************************************************)
\* 404 for a path of another time.
NotFound(t) ==
  /\ pc[t] = "request" /\ Reply(t) = "none" /\ Answer(t, "fail", 0) /\ NoFault
  /\ UNCHANGED <<client, pool, bmc, pc, loc, execs, result>>

PInv == TInv /\ (\A t \in Tasks : ExecInv(t)) /\ JobInv

LEMMA PInvInit == PInit => PInv
<1> SUFFICES ASSUME PInit
             PROVE  PInv
  OBVIOUS
<1>1. Init
  BY DEF PInit
<1>2. TInv /\ \A t \in Tasks : ExecInv(t)
  BY <1>1, TInvInit, ExecInvInit
<1>3. DeviceOK
  BY PlansAssumption DEF PInit, DeviceOK
<1>4. job = [t \in Tasks |-> NoJob] /\ epoch = 1
  BY DEF PInit
<1>5. JobOK(NoJob, epoch)
  BY <1>4, NoJobOK
<1>6. \A t \in Tasks : JobOK(job[t], epoch)
  BY <1>4, <1>5
<1>7. job \in [Tasks -> JobType(epoch)]
  <2>1. NoJob \in JobType(epoch)
    BY <1>5 DEF JobOK
  <2> HIDE DEF NoJob
  <2> QED BY <1>4, <2>1
<1>8. \A t \in Tasks : Kept(t)
  <2>1. NoJob.plan = <<>>
    BY DEF NoJob
  <2> QED BY <1>1, <1>4, <2>1 DEF Kept, Init, InCall
<1> QED BY <1>2, <1>3, <1>6, <1>7, <1>8 DEF PInv, JobInv

\* The 404 is an answer like others.
LEMMA NotFoundKeeps ==
  ASSUME TInv, \A u \in Tasks : ExecInv(u), NEW t \in Tasks, NotFound(t)
  PROVE  TInv' /\ \A u \in Tasks : ExecInv(u)'
<1>1. TInv'
  <2>1. "fail" \in Replies /\ 0 \in 0..issued'
    BY DEF NotFound, TInv, BmcOK, Replies, bmc
  <2>2. BmcOK' /\ issued <= issued' /\ execs' \in [Tasks -> Nat] /\ password' = password
    BY DEF NotFound, TInv, BmcOK, LogOK, bmc
  <2> QED BY <2>1, <2>2, AnswerStep DEF NotFound
<1>2. ASSUME NEW u \in Tasks
      PROVE  ExecInv(u)'
  <2>1. pc' = pc /\ execs' = execs /\ result' = result /\ wire' = [wire EXCEPT ![t] = [reply |-> "fail", grant |-> 0]]
    BY DEF NotFound, Answer
  <2>2. wire \in [Tasks -> Wire]
    BY DEF TInv, CallsOK
  <2> QED BY <2>1, <2>2 DEF ExecInv, Reply
<1> QED BY <1>1, <1>2

\* A step of the requests that neither begins a call nor a close().
LEMMA OwnKept ==
  ASSUME TInv, NEW t \in Tasks, Resume(t) \/ Serve(t) \/ Cancel(t) \/ Lose(t)
  PROVE  /\ InCall(t)' => InCall(t)
         /\ pc'[t] = "closing" => pc[t] = "closing"
         /\ execs'[t] = execs[t] \/ ServeRequest(t)
<1>1. CASE Serve(t) \/ Lose(t)
  BY <1>1 DEF Serve, ServeSession, ServeProbe, Lose, InCall, ServeRequest
<1>2. CASE CloseDone(t) \/ PasswordFails(t) \/ Cancel(t) \/ LoginFails(t) \/ ProbeFails(t) \/ RequestDone(t)
             \/ RequestLost(t)
  BY <1>2 DEF CloseDone, PasswordFails, Cancel, LoginFails, ProbeFails, RequestDone, RequestLost, Return, InCall,
              TInv, CallsOK
<1>3. CASE ResolvePassword(t) \/ FallBack(t)
  BY <1>3 DEF ResolvePassword, FallBack, Await, Return, InCall, TInv, CallsOK
<1>4. CASE TokenGranted(t) \/ ProbeAccepted(t)
  BY <1>4 DEF TokenGranted, ProbeAccepted, SendRequest, Await, Return, InCall, TInv, CallsOK
<1>5. CASE Retry(t)
  BY <1>5 DEF Retry, EnsureAuth, SendRequest, Await, Return, InCall, TInv, CallsOK
<1> QED BY <1>1, <1>2, <1>3, <1>4, <1>5 DEF Resume

\* A call begins without an execution.
LEMMA CallKept ==
  ASSUME TInv, NEW t \in Tasks, NEW k \in Kinds, Call(t, k)
  PROVE  pc'[t] # "closing" /\ execs'[t] = 0
BY DEF Call, EnsureAuth, SendRequest, Await, Return, TInv, CallsOK, LogOK

\* The jobs when the operation of t has gone on.
LEMMA MovesKeep ==
  ASSUME TInv, JobInv, DeviceOK', epoch' = epoch, NEW t \in Tasks, NEW u, Moves(t, u), ~ InCall(t)
  PROVE  JobInv'
<1>1. job' \in [Tasks -> JobType(epoch')]
  BY DEF Moves
<1>2. ASSUME NEW v \in Tasks
      PROVE  JobOK(job'[v], epoch') /\ Kept(v)'
  <2>1. CASE v # t
    <3>1. job'[v] = job[v]
      BY <2>1 DEF Moves
    <3>2. pc'[v] = pc[v] /\ execs'[v] = execs[v]
      <4>1. CASE UNCHANGED vars
        BY <4>1 DEF vars
      <4>2. CASE \E k \in Kinds : Call(t, k)
        <5>1. StepOf(t)
          BY <4>2 DEF StepOf
        <5> QED BY <5>1, <2>1, OthersSame
      <4> QED BY <4>1, <4>2 DEF Moves
    <3> QED BY <3>1, <3>2 DEF JobInv, Kept, InCall
  <2>2. CASE v = t /\ job'[t].plan = <<>> /\ UNCHANGED vars
    BY <2>2 DEF Moves, Kept, InCall, vars
  <2>3. CASE v = t /\ job'[t].plan # <<>> /\ \E k \in Kinds : Call(t, k)
    BY <2>3, CallKept DEF Moves, Kept
  <2> QED BY <2>1, <2>2, <2>3 DEF Moves
<1> QED BY <1>1, <1>2 DEF JobInv

\* The steps, by what they do to the jobs.
GoesOn(t) ==
  /\ ~ InCall(t) /\ epoch' = epoch /\ DeviceOK'
  /\ Moves(t, FALSE) \/ Moves(t, job[t].unexplained) \/ (Waits(t) /\ result[t] # "ok" /\ Moves(t, Blamed(t)))
     \/ (Waits(t) /\ ListsNothing(t) /\ Moves(t, Blamed(t)))

BelowOf(t) ==
  \/ Below(Resume(t) \/ Serve(t) \/ Cancel(t) \/ Lose(t)) /\ ~ ServeRequest(t)
  \/ job[t].plan = <<>> /\ Below(Close(t))

Outside == Below(Age \/ Rotate \/ \E s \in live : Expire(s))

LEMMA PerformGoesOn ==
  ASSUME JobInv, NEW t \in Tasks, NEW plan \in Plans, Perform(t, plan)
  PROVE  GoesOn(t)
<1>1. Moves(t, FALSE)
  BY PerformMoves
<1>2. job[t].plan = <<>> /\ UNCHANGED <<device, cache>>
  BY DEF Perform, NoJob
<1>3. ~ InCall(t)
  BY <1>2 DEF JobInv, Kept
<1>4. DeviceOK' /\ epoch' = epoch
  BY <1>2 DEF device, DeviceOK, JobInv
<1> QED BY <1>1, <1>3, <1>4 DEF GoesOn

LEMMA ContinueGoesOn ==
  ASSUME TInv, JobInv, NEW t \in Tasks, ExecInv(t), Continue(t)
  PROVE  GoesOn(t)
<1>1. Waits(t) /\ ~ InCall(t) /\ epoch' = epoch
  BY DEF Continue, Answered, Errs, EndsEmpty, Raises, Waits, InCall, device
<1>2. CASE Answered(t)
  BY <1>1, <1>2, AnsweredMoves DEF GoesOn
<1>3. CASE Errs(t) \/ EndsEmpty(t) \/ Raises(t)
  <2>1. Moves(t, Blamed(t)) /\ DeviceOK'
    BY <1>3, ErrsMoves
  <2>2. result[t] # "ok" \/ ListsNothing(t)
    BY <1>3 DEF Errs, EndsEmpty, Raises
  <2> QED BY <1>1, <2>1, <2>2 DEF GoesOn
<1> QED BY <1>2, <1>3 DEF Continue

LEMMA PSteps ==
  ASSUME PInv, PNext
  PROVE  \/ \E t \in Tasks : GoesOn(t) \/ ServeJob(t) \/ Take(t) \/ BelowOf(t)
         \/ Outside \/ RenamePaths
<1>1. CASE Below(Age \/ Rotate \/ \E s \in live : Expire(s))
  BY <1>1 DEF Outside
<1>2. ASSUME NEW t \in Tasks,
             \/ \E plan \in Plans : Perform(t, plan)
             \/ Progress(t) \/ Take(t)
             \/ Below(Cancel(t))
             \/ job[t].plan = <<>> /\ Below(Close(t))
      PROVE  GoesOn(t) \/ ServeJob(t) \/ Take(t) \/ BelowOf(t)
  <2>1. CASE \E plan \in Plans : Perform(t, plan)
    BY <2>1, PerformGoesOn DEF PInv
  <2>2. CASE Continue(t)
    BY <2>2, ContinueGoesOn DEF PInv
  <2>3. CASE Below(Resume(t) \/ ServeSession(t) \/ ServeProbe(t) \/ Lose(t))
    <3>1. ~ ServeRequest(t)
      <4>1. TInv
        BY DEF PInv
      <4>2. CASE ServeSession(t) \/ ServeProbe(t)
        BY <4>2 DEF ServeSession, ServeProbe, ServeRequest
      <4>3. CASE Lose(t)
        BY <4>1, <4>3 DEF Lose, ServeRequest, Answer, TInv, CallsOK
      <4>4. CASE Resume(t)
        <5>1. CASE pc[t] = "request" /\ Reply(t) = "none"
          BY <4>4, <5>1 DEF Resume, ResolvePassword, PasswordFails, TokenGranted, FallBack, LoginFails,
                       ProbeAccepted, ProbeFails, Retry, Retries, RequestDone, RequestLost, CloseDone
        <5> QED BY <5>1 DEF ServeRequest
      <4> QED BY <2>3, <4>2, <4>3, <4>4 DEF Below
    <3> QED BY <2>3, <3>1 DEF BelowOf, Below, Serve
  <2>4. CASE Below(Cancel(t))
    <3>1. ~ ServeRequest(t)
      BY <2>4 DEF PInv, Below, Cancel, Return, ServeRequest, TInv, CallsOK
    <3> QED BY <2>4, <3>1 DEF BelowOf, Below
  <2>5. CASE job[t].plan = <<>> /\ Below(Close(t))
    BY <2>5 DEF BelowOf
  <2> QED BY <1>2, <2>1, <2>2, <2>3, <2>4, <2>5 DEF Progress
<1> QED BY <1>1, <1>2 DEF PNext

\* What a step does to the requests: one of theirs, or a 404.
LEMMA StepBelow ==
  ASSUME PInv, [PNext]_pvars
  PROVE  [Next]_vars \/ \E t \in Tasks : NotFound(t)
<1>1. CASE UNCHANGED pvars
  BY <1>1 DEF pvars
<1>2. CASE \E t \in Tasks : GoesOn(t)
  BY <1>2 DEF GoesOn, Moves, Next
<1>3. ASSUME NEW t \in Tasks, ServeJob(t)
      PROVE  [Next]_vars \/ NotFound(t)
  <2>1. ServeRequest(t) \/ NotFound(t)
    BY <1>3 DEF ServeJob, NotFound
  <2> QED BY <2>1 DEF Next, Serve
<1>4. CASE \E t \in Tasks : Take(t)
  BY <1>4 DEF Take
<1>5. CASE \E t \in Tasks : BelowOf(t)
  BY <1>5 DEF BelowOf, Below, Next
<1>6. CASE Outside
  BY <1>6 DEF Outside, Below, Next
<1>7. CASE RenamePaths
  BY <1>7 DEF RenamePaths
<1> QED BY <1>1, <1>2, <1>3, <1>4, <1>5, <1>6, <1>7, PSteps

LEMMA ServeJobKeeps ==
  ASSUME TInv, JobInv, NEW t \in Tasks, ServeJob(t)
  PROVE  JobInv'
<1> DEFINE j == job[t]
           n == [j EXCEPT !.answer = epoch]
<1>1. job' = [job EXCEPT ![t] = n] /\ UNCHANGED <<device, cache>>
  BY DEF ServeJob
<1>2. epoch' = epoch /\ DeviceOK' /\ epoch \in Nat /\ epoch >= 1
  BY <1>1 DEF device, JobInv, DeviceOK
<1>3. j \in JobType(epoch) /\ JobOK(j, epoch) /\ Acts(j) /\ Anew(j) /\ Sound(j.plan, Found(j))
  BY DEF JobInv, JobOK
<1> HIDE DEF j
<1>4. n \in JobType(epoch)
  <2> DEFINE E == 0..epoch
             G == [Roots -> 0..epoch]
             T == PlanType
  <2>1. j \in [plan : T, path : G, answer : E, outcome : Results, looks : BOOLEAN,
               acts : BOOLEAN, since : E, acted : Nat, unexplained : BOOLEAN]
    BY <1>3 DEF JobType
  <2>2. epoch \in E
    BY <1>2
  <2> HIDE DEF E, G, T
  <2>3. n \in [plan : T, path : G, answer : E, outcome : Results, looks : BOOLEAN,
               acts : BOOLEAN, since : E, acted : Nat, unexplained : BOOLEAN]
    BY <2>1, <2>2
  <2> QED BY <2>3 DEF JobType, E, G, T
<1>5. /\ n.plan = j.plan /\ n.path = j.path /\ n.answer = epoch /\ n.acted = j.acted /\ n.acts = j.acts
      /\ n.looks = j.looks /\ n.since = j.since /\ n.outcome = j.outcome
  BY <1>3 DEF JobType
<1>6. j.since <= epoch
  BY <1>2, <1>3 DEF JobType
<1> HIDE DEF n
<1>7. Found(n) = Found(j) /\ Acts(n) /\ Anew(n)
  BY <1>3, <1>5, <1>6 DEF Found, Acts, Anew
<1>8. JobOK(n, epoch)
  BY <1>3, <1>4, <1>5, <1>7 DEF JobOK
<1>9. pc' = pc /\ \A v \in Tasks \ {t} : execs'[v] = execs[v]
  BY DEF ServeJob, ServeRequest, TInv, LogOK
<1>10. ASSUME NEW v \in Tasks
       PROVE  JobOK(job'[v], epoch') /\ Kept(v)'
  <2>1. CASE v = t
    <3>1. job'[v] = n
      BY <2>1, <1>1 DEF JobInv
    <3>2. Kept(v)'
      BY <2>1, <3>1, <1>2, <1>5, <1>9 DEF Kept, InCall, JobInv, j
    <3> QED BY <1>2, <1>8, <3>1, <3>2
  <2>2. CASE v # t
    <3>1. job'[v] = job[v] /\ pc'[v] = pc[v] /\ execs'[v] = execs[v]
      BY <2>2, <1>1, <1>9 DEF JobInv
    <3> QED BY <1>2, <3>1 DEF Kept, InCall, JobInv
  <2> QED BY <2>1, <2>2
<1>11. job' \in [Tasks -> JobType(epoch')]
  BY <1>1, <1>2, <1>4 DEF JobInv
<1> QED BY <1>2, <1>10, <1>11 DEF JobInv

\* A step that leaves the jobs and the paths alone keeps JobInv if it keeps
\* each job and its request together.
LEMMA SameJobs ==
  ASSUME JobInv, UNCHANGED <<device, cache, job>>, \A v \in Tasks : Kept(v)'
  PROVE  JobInv'
BY DEF JobInv, DeviceOK, device

LEMMA JobInvStep ==
  ASSUME PInv, [PNext]_pvars
  PROVE  JobInv'
<1>0. TInv /\ JobInv /\ \A t \in Tasks : ExecInv(t)
  BY DEF PInv
<1>1. CASE UNCHANGED pvars
  <2>1. \A v \in Tasks : Kept(v)'
    BY <1>0, <1>1 DEF pvars, vars, JobInv, Kept, InCall
  <2> QED BY <1>0, <1>1, <2>1, SameJobs DEF pvars
<1>2. ASSUME NEW t \in Tasks, GoesOn(t)
      PROVE  JobInv'
  BY <1>0, <1>2, MovesKeep DEF GoesOn
<1>3. CASE \E t \in Tasks : ServeJob(t)
  BY <1>0, <1>3, ServeJobKeeps
<1>4. ASSUME NEW t \in Tasks, Take(t)
      PROVE  JobInv'
  <2>1. job' = [job EXCEPT ![t] = NoJob] /\ UNCHANGED <<vars, device, cache>> /\ job[t].outcome # "none"
    BY <1>4 DEF Take
  <2>2. job[t].plan = <<>> /\ epoch \in Nat
    BY <1>0, <2>1 DEF JobInv, JobOK, DeviceOK
  <2>3. JobOK(NoJob, epoch) /\ NoJob.plan = <<>>
    BY <2>2, NoJobOK DEF NoJob
  <2>4. NoJob \in JobType(epoch)
    BY <2>3 DEF JobOK
  <2> DEFINE none == NoJob
  <2>5. job' = [job EXCEPT ![t] = none] /\ none.plan = <<>> /\ JobOK(none, epoch) /\ none \in JobType(epoch)
    BY <2>1, <2>3, <2>4
  <2> HIDE DEF none
  <2>6. job' \in [Tasks -> JobType(epoch)] /\ epoch' = epoch /\ DeviceOK'
    BY <1>0, <2>1, <2>5 DEF JobInv, DeviceOK, device
  <2>7. ASSUME NEW v \in Tasks
        PROVE  JobOK(job'[v], epoch) /\ Kept(v)'
    <3>1. CASE v = t
      BY <1>0, <2>1, <2>2, <2>5, <3>1 DEF JobInv, Kept, InCall, vars
    <3>2. CASE v # t
      BY <1>0, <2>1, <2>5, <3>2 DEF JobInv, Kept, InCall, vars
    <3> QED BY <3>1, <3>2
  <2> QED BY <2>6, <2>7 DEF JobInv
<1>5. ASSUME NEW t \in Tasks, BelowOf(t)
      PROVE  JobInv'
  <2>1. UNCHANGED <<device, cache, job>> /\ StepOf(t)
    BY <1>5 DEF BelowOf, Below, StepOf
  <2>2. Kept(t)'
    <3>1. CASE Below(Resume(t) \/ Serve(t) \/ Cancel(t) \/ Lose(t)) /\ ~ ServeRequest(t)
      <4>1. InCall(t)' => InCall(t)
        BY <1>0, <3>1, OwnKept DEF Below
      <4>2. pc'[t] = "closing" => pc[t] = "closing"
        BY <1>0, <3>1, OwnKept DEF Below
      <4>3. execs'[t] = execs[t]
        BY <1>0, <3>1, OwnKept DEF Below
      <4> QED BY <1>0, <2>1, <4>1, <4>2, <4>3 DEF JobInv, Kept
    <3>2. CASE job[t].plan = <<>> /\ Below(Close(t))
      BY <1>0, <3>2 DEF Below, Close, Kept, InCall, TInv, CallsOK
    <3> QED BY <1>5, <3>1, <3>2 DEF BelowOf
  <2>3. \A v \in Tasks : Kept(v)'
    BY <1>0, <2>1, <2>2, OthersSame DEF JobInv, Kept, InCall
  <2> QED BY <1>0, <2>1, <2>3, SameJobs
<1>6. CASE Outside
  <2>1. UNCHANGED <<device, cache, job, pc, execs>>
    BY <1>6 DEF Outside, Below, Age, Rotate, Expire
  <2>2. \A v \in Tasks : Kept(v)'
    BY <1>0, <2>1 DEF JobInv, Kept, InCall
  <2> QED BY <1>0, <2>1, <2>2, SameJobs
<1>7. CASE RenamePaths
  <2>1. epoch \in Nat /\ epoch' = epoch + 1 /\ epoch <= MaxRenames /\ UNCHANGED <<vars, lacks, cache, job>>
    BY <1>0, <1>7 DEF RenamePaths, JobInv, DeviceOK
  <2>2. \A v \in Tasks : JobOK(job[v], epoch + 1)
    BY <1>0, <2>1, JobLasts DEF JobInv
  <2>3. job \in [Tasks -> JobType(epoch + 1)]
    BY <1>0, <2>2 DEF JobInv, JobOK
  <2>4. DeviceOK'
    <3>1. 0..epoch \subseteq 0..(epoch + 1) /\ epoch + 1 \in 1..(MaxRenames + 1)
      BY <2>1, PlansAssumption
    <3> HIDE DEF Roots
    <3> QED BY <1>0, <2>1, <3>1 DEF JobInv, DeviceOK
  <2> QED BY <1>0, <2>1, <2>2, <2>3, <2>4 DEF JobInv, Kept, InCall, vars
<1> QED BY <1>1, <1>2, <1>3, <1>4, <1>5, <1>6, <1>7, PSteps

LEMMA PInvStep == PInv /\ [PNext]_pvars => PInv'
<1> SUFFICES ASSUME PInv, [PNext]_pvars
             PROVE  PInv'
  OBVIOUS
<1>1. JobInv'
  BY JobInvStep
<1>2. TInv' /\ \A t \in Tasks : ExecInv(t)'
  <2>1. TInv /\ \A t \in Tasks : ExecInv(t)
    BY DEF PInv
  <2>2. CASE [Next]_vars
    BY <2>1, <2>2, TInvStep, ExecInvStep
  <2>3. CASE \E t \in Tasks : NotFound(t)
    BY <2>1, <2>3, NotFoundKeeps
  <2> QED BY <2>2, <2>3, StepBelow
<1> QED BY <1>1, <1>2 DEF PInv

\* Every variable has its type, and an operation waits for a request of its
\* plan, below a root that it has found, in its call or in the cache
\* (_first_system_path and its siblings).
THEOREM PlansTyped == PSpec => []PTypeOK
<1>1. PInv => PTypeOK
  <2> SUFFICES ASSUME PInv
               PROVE  PTypeOK
    OBVIOUS
  <2>1. epoch \in 1..(MaxRenames + 1) /\ lacks \in Lacks /\ cache \in [Roots -> 0..epoch]
    BY DEF PInv, JobInv, DeviceOK
  <2>2. ASSUME NEW t \in Tasks
        PROVE  LET j == job[t] IN
               /\ DOMAIN j = DOMAIN NoJob
               /\ j.outcome \in Results /\ j.path \in [Roots -> 0..epoch] /\ j.answer \in 0..epoch
               /\ InCall(t) => j.plan # <<>>
               /\ j.plan # <<>> /\ Next1(j.plan).on \in Roots => j.path[Next1(j.plan).on] # 0
    <3> DEFINE j == job[t]
    <3>1. j \in JobType(epoch) /\ Sound(j.plan, Found(j)) /\ (InCall(t) => j.plan # <<>>)
      BY DEF PInv, JobInv, JobOK, Kept
    <3>2. j.outcome \in Results /\ j.path \in [Roots -> 0..epoch] /\ j.answer \in 0..epoch
      BY <3>1 DEF JobType
    <3>3. DOMAIN j = DOMAIN NoJob
      BY <3>1 DEF JobType, NoJob
    <3>4. j.plan # <<>> /\ Next1(j.plan).on \in Roots => j.path[Next1(j.plan).on] # 0
      <4>1. j.plan # <<>> => Ready(Next1(j.plan), Found(j))
        BY <3>1, NextReady
      <4> QED BY <4>1 DEF Ready, Found
    <3> QED BY <3>1, <3>2, <3>3, <3>4
  <2> QED BY <2>1, <2>2 DEF PTypeOK
<1> QED BY <1>1, PInvInit, PInvStep, PTL DEF PSpec

\* A setting or a reset (power_action, set_next_boot, reset_bmc...) is executed
\* once if the operation returns and at most once if it raises, whatever had
\* to be repeated on the way; a snapshot changes nothing.
THEOREM ActsOnceHolds == PSpec => []ActsOnce
<1>1. PInv => ActsOnce
  <2> SUFFICES ASSUME PInv, NEW t \in Tasks
               PROVE  /\ job[t].acted <= IF job[t].acts THEN 1 ELSE 0
                      /\ job[t].acts /\ job[t].outcome = "ok" => job[t].acted = 1
    BY DEF ActsOnce
  <2>1. Acts(job[t])
    BY DEF PInv, JobInv, JobOK
  <2> QED BY <2>1 DEF Acts
<1> QED BY <1>1, PInvInit, PInvStep, PTL DEF PSpec

-----------------------------------------------------------------------------
(***************************************************************************)
(* Why an operation fails, when the client is one task's, as the docstring *)
(* of RedfishClient has it: what explains the failure of a request when    *)
(* its call ends (Explained) is still there when the operation goes on.    *)
(***************************************************************************)
\* What stays until then.
Stays(t) == \/ disturbed[t]
            \/ auth_mode = "basic" /\ basic_header # password
            \/ ~ Reached(t)

Gone(t) ==
  /\ pc[t] = "request" /\ Reply(t) = "fail" => disturbed[t] \/ ~ Reached(t)
  /\ pc[t] = "request" /\ loc[t].cred.mode = "basic" => auth_mode = "basic" /\ loc[t].cred.val = basic_header
  /\ pc[t] \in {"password", "session", "probe"} => loc[t].cred.mode # "basic"
  /\ Waits(t) /\ result[t] \in {"RedfishError", "raw"} => Stays(t)
  /\ Waits(t) => result[t] \in {"ok", "RedfishError", "raw", "cancelled"}

\* How a call begins.
LEMMA CallGone ==
  ASSUME TInv, TInv', NEW t \in Tasks, NEW k \in Kinds, Call(t, k)
  PROVE  /\ pc'[t] \in {"password", "request", "idle"} /\ Reply(t)' = "none"
         /\ pc'[t] = "request" /\ loc'[t].cred.mode = "basic" =>
              auth_mode' = "basic" /\ loc'[t].cred.val = basic_header'
         /\ pc'[t] = "password" => loc'[t].cred.mode # "basic"
         /\ pc'[t] = "idle" => result'[t] = "raw" /\ disturbed'[t]
<1> DEFINE l == [NoCall EXCEPT !.kind = k]
           cred == Headers(auth_mode, session_token, basic_header)
<1>1. CallsOK /\ PoolOK /\ ClientOK /\ BmcOK /\ LogOK
  BY DEF TInv
<1>2. l \in Locals /\ l.refused = NoCred /\ l.cred = NoCred /\ l.conn = 0 /\ l.loginConn = 0
  BY EmptyTyped DEF NoCall, Locals
<1>3. session_token \in Nat /\ cred \in Cred
  BY <1>1 DEF ClientOK, BmcOK, Headers, Cred, CredMode, NoCred
<1>4. EnsureAuth(t, session_token, l) /\ UNCHANGED client
  BY DEF Call
<1>5. auth_mode' = auth_mode /\ basic_header' = basic_header
  BY <1>4 DEF client
<1>6. disturbed'[t] = (http # 0 /\ http \notin open)
  BY <1>1 DEF Call, LogOK
<1>7. cred.mode = "basic" => auth_mode = "basic" /\ cred.val = basic_header
  BY DEF Headers, NoCred
<1> HIDE DEF l, cred
<1>8. wire' = [wire EXCEPT ![t] = NoReply]
  BY <1>1, <1>2, <1>3, <1>4, EnsureAuthCalls
<1>9. Reply(t)' = "none"
  BY <1>1, <1>8 DEF CallsOK, Reply, NoReply
<1>10. CASE NeedsLogin(session_token)
  <2>1. pc' = [pc EXCEPT ![t] = "password"] /\ loc' = [loc EXCEPT ![t] = l]
    BY <1>4, <1>10 DEF EnsureAuth
  <2>2. pc'[t] = "password" /\ loc'[t] = l
    BY <1>1, <2>1 DEF CallsOK
  <2> QED BY <1>2, <1>9, <2>2 DEF NoCred
<1>11. CASE ~ NeedsLogin(session_token)
  <2>1. SendRequest(t, l, cred)
    BY <1>4, <1>11 DEF EnsureAuth, cred
  <2>2. l.conn \in 0..made /\ l.loginConn \in 0..made
    BY <1>1, <1>2 DEF PoolOK
  <2>3. \/ pc'[t] = "request" /\ loc'[t].cred = cred
        \/ Ended(t) /\ HttpClosed
    BY <1>1, <1>2, <1>3, <2>1, <2>2, SendRequestOpen
  <2>4. \/ pc' = [pc EXCEPT ![t] = "request"]
        \/ pc' = [pc EXCEPT ![t] = "idle"] /\ result' = [result EXCEPT ![t] = "raw"]
    BY <1>1, <1>2, <1>3, <2>1, SendRequestCalls
  <2>5. pc'[t] = "idle" => result'[t] = "raw"
    BY <1>1, <2>4 DEF CallsOK
  <2>6. HttpClosed => disturbed'[t]
    BY <1>6 DEF HttpClosed
  <2> QED BY <1>5, <1>7, <1>9, <2>3, <2>5, <2>6 DEF Ended
<1> QED BY <1>10, <1>11

\* How a call goes on.
LEMMA OwnGone ==
  ASSUME TInv, TInv', NEW t \in Tasks, InCall(t), Gone(t),
         Resume(t) \/ Serve(t) \/ Cancel(t) \/ Lose(t), ~ ServeRequest(t)
  PROVE  /\ pc'[t] = "request" /\ Reply(t)' = "fail" => pc[t] = "request" /\ Reply(t) = "fail"
         /\ pc'[t] = "request" /\ loc'[t].cred.mode = "basic" =>
              auth_mode' = "basic" /\ loc'[t].cred.val = basic_header'
         /\ pc'[t] \in {"password", "session", "probe"} => loc'[t].cred.mode # "basic"
         /\ pc'[t] = "idle" => /\ result'[t] \in {"ok", "RedfishError", "raw", "cancelled"}
                               /\ pc[t] = "request" /\ auth_mode # "session" =>
                                    UNCHANGED <<auth_mode, basic_header, password>>
<1>1. CallsOK /\ PoolOK /\ ClientOK /\ BmcOK /\ LogOK
  BY DEF TInv
<1>2. CASE PasswordFails(t) \/ Cancel(t) \/ LoginFails(t) \/ ProbeFails(t) \/ RequestDone(t) \/ RequestLost(t)
  <2>1. pc'[t] = "idle" /\ UNCHANGED <<client, bmc>>
        /\ result'[t] \in {"ok", "RedfishError", "raw", "cancelled"}
    BY <1>1, <1>2 DEF PasswordFails, Cancel, LoginFails, ProbeFails, RequestDone, RequestLost, Return, CallsOK
  <2> QED BY <2>1 DEF client, bmc
<1>3. CASE ServeSession(t) \/ ServeProbe(t) \/ Lose(t)
  <2>1. pc' = pc /\ loc' = loc /\ UNCHANGED client
    BY <1>3 DEF ServeSession, ServeProbe, Lose
  <2>2. pc[t] = "request" => Lose(t)
    BY <1>3 DEF ServeSession, ServeProbe
  <2>3. Lose(t) => Reply(t)' = "lost"
    BY <1>1 DEF Lose, Answer, Reply, CallsOK
  <2> QED BY <2>1, <2>2, <2>3 DEF Gone, InCall, client
<1>4. CASE ResolvePassword(t)
  <2>1. pc[t] = "password" /\ loc[t].cred.mode # "basic"
    BY <1>4 DEF ResolvePassword, Gone
  <2> DEFINE l == [loc[t] EXCEPT !.pw = password, !.loginConn = Http]
  <2>2. l.cred = loc[t].cred
    BY <1>1 DEF CallsOK, Locals
  <2>3. Await(t, "session", Http, l)
    BY <1>4 DEF ResolvePassword
  <2> HIDE DEF l
  <2>4. \/ pc'[t] = "session" /\ loc'[t].cred = loc[t].cred
        \/ pc'[t] = "idle" /\ result'[t] = "raw"
    BY <1>1, <2>2, <2>3 DEF Await, Return, CallsOK
  <2> QED BY <2>1, <2>4
<1>5. CASE FallBack(t)
  <2>1. pc[t] = "session" /\ loc[t].cred.mode # "basic"
    BY <1>5 DEF FallBack, Gone
  <2>2. \/ pc'[t] = "probe" /\ loc'[t].cred = loc[t].cred
        \/ pc'[t] = "idle" /\ result'[t] = "raw"
    BY <1>1, <1>5 DEF FallBack, Await, Return, CallsOK, Locals
  <2> QED BY <2>1, <2>2
<1>6. CASE TokenGranted(t) \/ ProbeAccepted(t)
  <2>1. PICK cred \in Cred : SendRequest(t, loc[t], cred) /\
               (cred.mode = "basic" => auth_mode' = "basic" /\ cred.val = basic_header')
    <3>1. CASE TokenGranted(t)
      <4> DEFINE cred == Headers("session", wire[t].grant, basic_header)
      <4>1. wire[t].grant \in Nat
        BY <1>1 DEF CallsOK, Wire
      <4>2. cred \in Cred /\ cred.mode # "basic"
        BY <4>1 DEF Headers, Cred, CredMode
      <4>3. SendRequest(t, loc[t], cred)
        BY <3>1 DEF TokenGranted
      <4> HIDE DEF cred
      <4> QED BY <4>2, <4>3
    <3>2. CASE ProbeAccepted(t)
      <4> DEFINE cred == Headers(auth_mode, session_token, basic_header)
      <4>1. cred \in Cred
        BY <1>1 DEF ClientOK, BmcOK, Headers, Cred, CredMode, NoCred
      <4>2. SendRequest(t, loc[t], cred) /\ UNCHANGED client
        BY <3>2 DEF ProbeAccepted
      <4>3. cred.mode = "basic" => auth_mode' = "basic" /\ cred.val = basic_header'
        BY <4>2 DEF Headers, NoCred, client
      <4> HIDE DEF cred
      <4> QED BY <4>1, <4>2, <4>3
    <3> QED BY <1>6, <3>1, <3>2
  <2>2. pc[t] \in {"session", "probe"} /\ loc[t] \in Locals
    BY <1>1, <1>6 DEF TokenGranted, ProbeAccepted, CallsOK
  <2>3. /\ wire' = [wire EXCEPT ![t] = NoReply]
        /\ \/ pc' = [pc EXCEPT ![t] = "request"] /\ loc'[t].cred = cred
           \/ pc' = [pc EXCEPT ![t] = "idle"] /\ result' = [result EXCEPT ![t] = "raw"]
    BY <1>1, <2>1, <2>2, SendRequestCalls
  <2>4. Reply(t)' = "none"
    BY <1>1, <2>3 DEF CallsOK, Reply, NoReply
  <2>5. pc'[t] \in {"request", "idle"} /\ (pc'[t] = "idle" => result'[t] = "raw")
        /\ (pc'[t] = "request" => loc'[t].cred = cred)
    BY <1>1, <2>3 DEF CallsOK
  <2> QED BY <2>1, <2>2, <2>4, <2>5
<1>7. CASE Retry(t)
  <2>1. pc[t] = "request" /\ auth_mode = "session" /\ UNCHANGED <<auth_mode, basic_header>>
        /\ EnsureAuth(t, 0, [loc[t] EXCEPT !.refused = loc[t].cred]) /\ loc[t] \in Locals
    BY <1>1, <1>7 DEF Retry, Retries, RefusedToken, CallsOK
  <2> DEFINE l == [loc[t] EXCEPT !.refused = loc[t].cred]
  <2>2. loc[t].cred.mode # "basic"
    BY <2>1 DEF Gone
  <2>3. NeedsLogin(0)
    BY <2>1 DEF NeedsLogin, TokenFresh
  <2>4. pc'[t] = "password" /\ loc'[t].cred = loc[t].cred
    BY <1>1, <2>1, <2>3 DEF EnsureAuth, CallsOK, Locals
  <2> QED BY <2>2, <2>4
<1>8. CASE CloseDone(t)
  BY <1>8 DEF CloseDone, InCall
<1> QED BY <1>2, <1>3, <1>4, <1>5, <1>6, <1>7, <1>8 DEF Resume, Serve

\* The next request of an operation, and where its resource is.
LEMMA NextOn ==
  ASSUME JobInv, NEW t \in Tasks, job[t].plan # <<>>, Next1(job[t].plan).on # "service"
  PROVE  /\ Next1(job[t].plan).on \in Roots
         /\ job[t].path[Next1(job[t].plan).on] \in 1..epoch
         /\ job[t].looks => job[t].since <= job[t].path[Next1(job[t].plan).on] /\ job[t].since \in Nat
<1> DEFINE j == job[t]
<1>1. j \in JobType(epoch) /\ Sound(j.plan, Found(j)) /\ Anew(j) /\ epoch \in Nat
  BY DEF JobInv, JobOK, DeviceOK
<1>2. Ready(Next1(j.plan), Found(j))
  BY <1>1, NextReady
<1>3. Next1(j.plan).on \in Found(j)
  BY <1>2 DEF Ready, Requests
<1>4. j.path \in [Roots -> 0..epoch] /\ j.since \in 0..epoch
  BY <1>1 DEF JobType
<1>5. j.looks => \A r \in Roots : j.path[r] = 0 \/ j.path[r] >= j.since
  BY <1>1 DEF Anew
<1> DEFINE on == Next1(j.plan).on
<1>6. on \in Roots /\ j.path[on] # 0
  BY <1>3 DEF Found
<1> HIDE DEF on, j
<1>7. j.path[on] \in 1..epoch
  BY <1>1, <1>4, <1>6
<1>8. j.looks => j.since <= j.path[on] /\ j.since \in Nat
  BY <1>4, <1>5, <1>6, <1>7
<1> QED BY <1>6, <1>7, <1>8 DEF on, j

\* An operation whose request failed has a reason.
LEMMA HasReason ==
  ASSUME JobInv, NEW t \in Tasks, Waits(t), Gone(t), ~ job[t].unexplained,
         result[t] # "ok" \/ ListsNothing(t)
  PROVE  ~ Blamed(t)
<1>1. CASE ListsNothing(t)
  BY <1>1 DEF Blamed, Reason
<1>2. CASE result[t] = "cancelled"
  BY <1>2 DEF Blamed
<1>3. CASE result[t] \in {"RedfishError", "raw"}
  <2>1. Stays(t)
    BY <1>3 DEF Gone
  <2>2. CASE ~ Reached(t)
    <3>1. Next1(job[t].plan).on # "service" /\ job[t].path[Next1(job[t].plan).on] # epoch
      BY <2>2 DEF Reached
    <3>2. job[t].plan # <<>> /\ epoch \in Nat
      BY DEF Waits, JobInv, DeviceOK
    <3>3. job[t].looks => epoch # job[t].since
      BY <3>1, <3>2, NextOn
    <3> QED BY <2>2, <3>3 DEF Blamed, Reason
  <2>3. CASE disturbed[t] \/ (auth_mode = "basic" /\ basic_header # password)
    BY <2>3 DEF Blamed, Reason
  <2> QED BY <2>1, <2>2, <2>3 DEF Stays
<1> QED BY <1>1, <1>2, <1>3 DEF Gone

\* The operation goes on.
LEMMA GoesOnGone ==
  ASSUME TInv, TInv', JobInv, NEW t \in Tasks, GoesOn(t), Gone(t), ~ job[t].unexplained
  PROVE  Gone(t)' /\ ~ job'[t].unexplained
<1>1. PICK u : /\ Moves(t, u)
               /\ \/ u = FALSE
                  \/ u = job[t].unexplained
                  \/ Waits(t) /\ (result[t] # "ok" \/ ListsNothing(t)) /\ u = Blamed(t)
  BY DEF GoesOn
<1>2. ~ u
  BY <1>1, HasReason
<1>3. job'[t].unexplained = u
  BY <1>1 DEF Moves
<1>4. CASE job'[t].plan = <<>> /\ UNCHANGED vars
  <2>1. ~ Waits(t)'
    BY <1>4 DEF Waits
  <2>2. pc'[t] \notin {"password", "session", "probe", "request"}
    BY <1>4 DEF vars, GoesOn, InCall
  <2> QED BY <1>2, <1>3, <2>1, <2>2 DEF Gone
<1>5. CASE \E k \in Kinds : Call(t, k)
  <2>1. PICK k \in Kinds : Call(t, k)
    BY <1>5
  <2>2. /\ pc'[t] \in {"password", "request", "idle"} /\ Reply(t)' = "none"
        /\ pc'[t] = "request" /\ loc'[t].cred.mode = "basic" =>
             auth_mode' = "basic" /\ loc'[t].cred.val = basic_header'
        /\ pc'[t] = "password" => loc'[t].cred.mode # "basic"
        /\ pc'[t] = "idle" => result'[t] = "raw" /\ disturbed'[t]
    BY <2>1, CallGone
  <2>3. Waits(t)' => result'[t] = "raw" /\ Stays(t)'
    BY <2>2 DEF Waits, Stays
  <2> QED BY <1>2, <1>3, <2>2, <2>3 DEF Gone
<1> QED BY <1>1, <1>4, <1>5 DEF Moves

\* What the operation is after does not change.
LEMMA SameReached ==
  ASSUME JobInv, NEW t \in Tasks, job'[t].plan = job[t].plan, job'[t].path = job[t].path,
         job[t].plan # <<>>, epoch' \in {epoch, epoch + 1}, ~ Reached(t)
  PROVE  ~ Reached(t)'
<1>1. Next1(job[t].plan).on # "service" /\ job[t].path[Next1(job[t].plan).on] # epoch
  BY DEF Reached
<1>2. job[t].path[Next1(job[t].plan).on] \in 1..epoch /\ epoch \in Nat
  BY <1>1, NextOn DEF JobInv, DeviceOK
<1> DEFINE x == job[t].path[Next1(job[t].plan).on]
           e == epoch'
<1>3. x \in 1..epoch /\ epoch \in Nat /\ x # epoch /\ e \in {epoch, epoch + 1}
  BY <1>1, <1>2
<1> HIDE DEF x, e
<1>4. x # e
  BY <1>3
<1>5. job'[t].path[Next1(job'[t].plan).on] = x
  BY DEF x
<1> QED BY <1>1, <1>4, <1>5 DEF Reached, e

\* The request of the operation is answered.
LEMMA ServeJobGone ==
  ASSUME TInv, TInv', JobInv, NEW t \in Tasks, ServeJob(t), Gone(t)
  PROVE  Gone(t)' /\ job'[t].unexplained = job[t].unexplained
<1>1. CallsOK /\ LogOK
  BY DEF TInv
<1>2. job[t] \in JobType(epoch) /\ job' = [job EXCEPT ![t].answer = epoch] /\ epoch' = epoch
  BY DEF JobInv, ServeJob, device
<1>3. job'[t].plan = job[t].plan /\ job'[t].path = job[t].path /\ job'[t].unexplained = job[t].unexplained
  BY <1>2 DEF JobInv, JobType
<1>4. pc[t] = "request" /\ UNCHANGED <<client, pc, loc>>
  BY DEF ServeJob, ServeRequest
<1>5. job[t].plan # <<>>
  BY <1>4 DEF JobInv, Kept, InCall
<1>6. Reply(t)' = "fail" => disturbed'[t] \/ ~ Reached(t)'
  <2>1. CASE ServeRequest(t)
    <3>1. CASE Answer(t, "fail", 0) /\ Fault({t})
      BY <1>1, <1>4, <3>1 DEF Fault, Disturb, LogOK
    <3>2. CASE Answer(t, "ok", 0) \/ Answer(t, "denied", 0)
      BY <1>1, <3>2 DEF Answer, CallsOK, Reply
    <3> QED BY <2>1, <3>1, <3>2 DEF ServeRequest
  <2>2. CASE ~ Reached(t)
    <3>1. ~ Reached(t)'
      BY <1>2, <1>3, <1>5, <2>2, SameReached
    <3> QED BY <3>1
  <2> QED BY <2>1, <2>2 DEF ServeJob
<1>7. ~ Waits(t)' /\ pc'[t] = "request" /\ loc' = loc /\ auth_mode' = auth_mode /\ basic_header' = basic_header
  BY <1>4 DEF Waits, client
<1> QED BY <1>3, <1>4, <1>6, <1>7 DEF Gone

\* A step of its requests.
LEMMA BelowGone ==
  ASSUME TInv, TInv', WhyInv, JobInv, NEW t \in Tasks, BelowOf(t), Gone(t)
  PROVE  Gone(t)'
<1>1. UNCHANGED <<device, cache, job>> /\ [Next]_vars /\ CallsOK
  BY DEF BelowOf, Below, Next, TInv
<1>2. job[t].plan # <<>> /\ ~ Reached(t) => ~ Reached(t)'
  BY <1>1, SameReached DEF device
<1>3. Kept(t)
  BY DEF JobInv
<1>4. CASE ~ InCall(t)
  <2>1. pc'[t] \in {"idle", "closing"} /\ job[t].plan = <<>>
    <3>1. CASE Resume(t) \/ Serve(t) \/ Cancel(t) \/ Lose(t)
      <4>1. CloseDone(t) \/ (Cancel(t) /\ pc[t] = "closing")
        BY <1>1, <1>4, <3>1 DEF Resume, ResolvePassword, PasswordFails, TokenGranted, FallBack, LoginFails,
           ProbeAccepted, ProbeFails, Retry, RequestDone, RequestLost, Serve, ServeSession, ServeProbe,
           ServeRequest, Cancel, Lose, OnWire, InCall, CallsOK, Pcs
      <4>2. pc[t] = "closing" /\ pc'[t] = "idle"
        BY <1>1, <4>1 DEF CloseDone, Cancel, Return, CallsOK
      <4> QED BY <1>3, <4>2 DEF Kept
    <3>2. CASE job[t].plan = <<>> /\ Close(t)
      BY <1>1, <3>2 DEF Close, CallsOK
    <3> QED BY <3>1, <3>2 DEF BelowOf, Below
  <2>2. ~ Waits(t)'
    BY <1>1, <2>1 DEF Waits
  <2> QED BY <2>1, <2>2 DEF Gone
<1>5. CASE InCall(t)
  <2>1. job[t].plan # <<>> /\ pc[t] # "idle" /\ (disturbed[t] => disturbed'[t])
    BY <1>1, <1>3, <1>5, EndingKeepsLog DEF Kept, InCall
  <2>2. Resume(t) \/ Serve(t) \/ Cancel(t) \/ Lose(t)
    BY <2>1 DEF BelowOf, Below
  <2>3. ~ ServeRequest(t)
    BY <2>1 DEF BelowOf
  <2>4. /\ pc'[t] = "request" /\ Reply(t)' = "fail" => pc[t] = "request" /\ Reply(t) = "fail"
        /\ pc'[t] = "request" /\ loc'[t].cred.mode = "basic" =>
             auth_mode' = "basic" /\ loc'[t].cred.val = basic_header'
        /\ pc'[t] \in {"password", "session", "probe"} => loc'[t].cred.mode # "basic"
        /\ pc'[t] = "idle" => /\ result'[t] \in {"ok", "RedfishError", "raw", "cancelled"}
                              /\ pc[t] = "request" /\ auth_mode # "session" =>
                                   UNCHANGED <<auth_mode, basic_header, password>>
    BY <1>5, <2>2, <2>3, OwnGone
  <2>5. pc'[t] = "request" /\ Reply(t)' = "fail" => disturbed'[t] \/ ~ Reached(t)'
    BY <1>2, <2>1, <2>4 DEF Gone
  <2>6. ASSUME pc'[t] = "idle", result'[t] \in {"RedfishError", "raw"}
        PROVE  Stays(t)'
    <3>1. Explained(t)
      <4>1. ~ UNCHANGED vars
        BY <2>1, <2>6 DEF vars
      <4> QED BY <1>1, <4>1, WhyStep
    <3>2. CASE disturbed'[t]
      BY <3>2 DEF Stays
    <3>3. CASE loc[t].cred.mode = "basic" /\ loc[t].cred.val # password
      <4>1. pc[t] = "request"
        BY <1>5, <3>3 DEF Gone, InCall
      <4>2. auth_mode = "basic" /\ loc[t].cred.val = basic_header
        BY <3>3, <4>1 DEF Gone
      <4>3. UNCHANGED <<auth_mode, basic_header, password>>
        BY <2>4, <2>6, <4>1, <4>2
      <4> QED BY <3>3, <4>2, <4>3 DEF Stays
    <3>4. CASE pc[t] = "request" /\ Reply(t) = "fail"
      <4>1. disturbed'[t] \/ ~ Reached(t)'
        BY <1>2, <2>1, <3>4 DEF Gone
      <4> QED BY <4>1 DEF Stays
    <3> QED BY <1>5, <2>6, <3>1, <3>2, <3>3, <3>4 DEF Explained
  <2>7. Waits(t)' => pc'[t] = "idle"
    BY DEF Waits
  <2> QED BY <2>4, <2>5, <2>6, <2>7 DEF Gone
<1> QED BY <1>4, <1>5

\* A step of the BMC.
LEMMA OutsideGone ==
  ASSUME TInv, TInv', JobInv, NEW t \in Tasks, Outside \/ RenamePaths, Gone(t)
  PROVE  Gone(t)' /\ job'[t].unexplained = job[t].unexplained
<1>1. /\ UNCHANGED <<job, pc, loc, wire, result, auth_mode, basic_header>> /\ epoch' \in {epoch, epoch + 1}
      /\ disturbed[t] => disturbed'[t]
      /\ password' \in {password, password + 1}
  <2>1. CASE Outside
    <3>1. UNCHANGED <<job, pc, loc, wire, result, auth_mode, basic_header>> /\ epoch' = epoch
      BY <2>1 DEF Outside, Below, Age, Rotate, Expire, client, device
    <3>2. disturbed[t] => disturbed'[t]
      BY <2>1, HarmlessOutside DEF Outside, Below, Harmless
    <3>3. password' \in {password, password + 1}
      BY <2>1 DEF Outside, Below, Age, Rotate, Expire, bmc
    <3> QED BY <3>1, <3>2, <3>3
  <2>2. CASE RenamePaths
    BY <2>2 DEF RenamePaths, vars, client, bmc, log
  <2> QED BY <2>1, <2>2
<1>2. auth_mode = "basic" /\ basic_header # password => basic_header' # password'
  <2>1. basic_header \in 0..password /\ password \in Nat
    BY DEF TInv, ClientOK, BmcOK
  <2>2. PICK p : p = password'
    OBVIOUS
  <2>3. basic_header # password => basic_header # p
    BY <1>1, <2>1, <2>2
  <2> QED BY <1>1, <2>2, <2>3
<1>3. job[t].plan # <<>> /\ ~ Reached(t) => ~ Reached(t)'
  BY <1>1, SameReached
<1>4. pc[t] = "request" => job[t].plan # <<>>
  BY DEF JobInv, Kept, InCall
<1>5. Reply(t)' = Reply(t) /\ (Waits(t)' <=> Waits(t))
  BY <1>1 DEF Reply, Waits
<1>6. Waits(t) /\ Stays(t) => Stays(t)'
  BY <1>1, <1>2, <1>3 DEF Stays, Waits
<1>7. pc[t] = "request" /\ Reply(t) = "fail" => disturbed'[t] \/ ~ Reached(t)'
  BY <1>1, <1>3, <1>4 DEF Gone
<1> QED BY <1>1, <1>5, <1>6, <1>7 DEF Gone

\* Any step.
WInv == WhyInv /\ \A t \in Tasks : Gone(t) /\ ~ job[t].unexplained

LEMMA WhyKept ==
  ASSUME PInv, PInv', WhyInv, \A a, b \in Tasks : a = b, [PNext]_pvars
  PROVE  WhyInv'
<1>0. TInv /\ TInv'
  BY DEF PInv
<1>1. CASE [Next]_vars
  BY <1>0, <1>1, WhyStep
<1>2. ASSUME NEW t \in Tasks, NotFound(t)
      PROVE  WhyInv'
  <2>1. Own(t)
    <3>1. pc[t] = "request" /\ Answer(t, "fail", 0) /\ disturbed' = disturbed
          /\ UNCHANGED <<client, pool, bmc, pc, loc>>
      BY <1>2 DEF NotFound, NoFault, log
    <3> QED BY <1>0, <3>1, OwnAnswered
  <2>2. auth_mode' = auth_mode /\ service' = service
    BY <1>2 DEF NotFound, client, bmc
  <2>3. ASSUME NEW u \in Tasks
        PROVE  Connected(u)' /\ Informed(u)' /\ Admitted(u)'
    <3>1. u = t
      OBVIOUS
    <3> QED BY <2>1, <3>1 DEF Own
  <2> QED BY <2>2, <2>3 DEF WhyInv
<1> QED BY <1>1, <1>2, StepBelow

LEMMA WInvStep ==
  ASSUME PInv, PInv', WInv, \A a, b \in Tasks : a = b, [PNext]_pvars
  PROVE  WInv'
<1>0. TInv /\ TInv' /\ JobInv /\ WhyInv
  BY DEF PInv, WInv
<1>1. WhyInv'
  BY <1>0, WhyKept
<1>2. ASSUME NEW u \in Tasks
      PROVE  Gone(u)' /\ ~ job'[u].unexplained
  <2>0. Gone(u) /\ ~ job[u].unexplained /\ \A t \in Tasks : t = u
    BY DEF WInv
  <2>1. CASE UNCHANGED pvars
    <3>1. job' = job /\ epoch' = epoch /\ UNCHANGED <<pc, loc, wire, result, auth_mode, basic_header, password, disturbed>>
      BY <2>1 DEF pvars, vars, device, client, bmc, log
    <3> QED BY <2>0, <3>1 DEF Gone, Waits, Stays, Reply, Reached
  <2>2. CASE GoesOn(u)
    BY <1>0, <2>0, <2>2, GoesOnGone
  <2>3. CASE ServeJob(u)
    BY <1>0, <2>0, <2>3, ServeJobGone
  <2>4. CASE Take(u)
    <3>1. job[u].outcome # "none" /\ job' = [job EXCEPT ![u] = NoJob] /\ pc' = pc
      BY <2>4 DEF Take, vars
    <3>2. job[u].plan = <<>>
      BY <1>0, <3>1 DEF JobInv, JobOK
    <3>3. ~ InCall(u)
      BY <1>0, <3>2 DEF JobInv, Kept
    <3>4. NoJob.plan = <<>> /\ NoJob.unexplained = FALSE
      BY DEF NoJob
    <3>5. job'[u].plan = <<>> /\ job'[u].unexplained = FALSE
      BY <1>0, <3>1, <3>4 DEF JobInv
    <3> QED BY <3>1, <3>3, <3>5 DEF Gone, Waits, InCall
  <2>5. CASE BelowOf(u)
    <3>1. Gone(u)'
      BY <1>0, <2>0, <2>5, BelowGone
    <3>2. job' = job
      BY <2>5 DEF BelowOf, Below
    <3> QED BY <2>0, <3>1, <3>2
  <2>6. CASE Outside \/ RenamePaths
    BY <1>0, <2>0, <2>6, OutsideGone
  <2>7. \/ UNCHANGED pvars
        \/ \E t \in Tasks : GoesOn(t) \/ ServeJob(t) \/ Take(t) \/ BelowOf(t)
        \/ Outside \/ RenamePaths
    BY PSteps
  <2> QED BY <2>0, <2>1, <2>2, <2>3, <2>4, <2>5, <2>6, <2>7
<1> QED BY <1>1, <1>2 DEF WInv

\* With one task, as the docstring of RedfishClient has it: an operation
\* raises, or goes on without a part, only for a reason; a token that expired,
\* on whichever of its requests, is none, and neither is a change of the paths
\* before the call for heartbeat and power_action (_get, _post_action, _patch,
\* and the except clauses of the operations).
THEOREM OutcomeExplainedHolds ==
  ASSUME \A a, b \in Tasks : a = b
  PROVE  PSpec => []OutcomeExplained
<1> DEFINE Inv == PInv /\ WInv
<1>1. PInit => Inv
  <2> SUFFICES ASSUME PInit
               PROVE  WInv
    BY PInvInit
  <2>1. WhyInv
    BY WhyInit DEF PInit
  <2>2. NoJob.plan = <<>> /\ NoJob.unexplained = FALSE
    BY DEF NoJob
  <2>3. \A t \in Tasks : pc[t] = "idle" /\ job[t].plan = <<>> /\ job[t].unexplained = FALSE
    BY <2>2 DEF PInit, Init
  <2> QED BY <2>1, <2>3 DEF WInv, Gone, Waits
<1>2. Inv /\ [PNext]_pvars => Inv'
  BY PInvStep, WInvStep
<1>3. Inv => OutcomeExplained
  BY DEF WInv, OutcomeExplained
<1> QED BY <1>1, <1>2, <1>3, PTL DEF PSpec
=============================================================================
