-------------------------- MODULE RaritanPduProofs --------------------------
(***************************************************************************)
(* Theorems about RaritanPdu, for any tasks, outlets and names, and any    *)
(* number of faults and renames.                                           *)
(***************************************************************************)
EXTENDS RaritanPdu, FiniteSetTheorems, TLAPS

-----------------------------------------------------------------------------
(***************************************************************************)
(* What is true of a call: its session, the outlet it asks for, what it    *)
(* reached, and why it fails.                                              *)
(***************************************************************************)
Credited(c) ==
  /\ c.cred <= issued
  /\ c.pc = "returned" <=> c.result # "none"
  /\ c.pc \in {"list", "command", "logout"} => c.cred # 0 /\ token # 0
  /\ c.pc = "login" /\ c.reply = "ok" => c.cred # 0

\* Whoever had the name all along has it now, and in what the PDU listed.
Known(c) ==
  /\ c.kept \subseteq c.had
  /\ c.name # NoName =>
       \A i \in Labels : /\ name[i] = c.name => i \in c.had
                         /\ i \in c.kept => name[i] = c.name
  /\ c.name # NoName /\ c.index # 0 => c.index \in c.had

Asked(c) ==
  /\ Known(c)
  /\ c.pc = "list" => c.index = 0
  /\ c.pc = "list" /\ c.reply = "ok" /\ c.name # NoName =>
       \A i \in Labels : /\ c.listed[i] = c.name => i \in c.had
                         /\ i \in c.kept => c.listed[i] = c.name

Aimed(c) ==
  /\ c.reached \subseteq {c.index}
  /\ c.pc = "command" => c.index # 0
  /\ c.pc = "command" /\ c.reply = "ok" => c.reached # {}
  /\ c.result = "ok" /\ c.index # 0 => c.reached # {}
  /\ c.result = "KeyError" => c.kept = {}

Excused(c) ==
  \/ c.result # "raised" /\ (c.pc \in {"login", "list", "command"} => c.reply \in {"none", "ok"})
  \/ c.disturbed \/ closed \/ (c.cred # 0 /\ c.cred \notin live)

Sound == {c \in Call : Credited(c) /\ Asked(c) /\ Aimed(c) /\ Excused(c)}

VarsTyped ==
  /\ name \in [Labels -> Names] /\ live \subseteq 1..issued /\ issued \in Nat /\ token \in 0..issued
  /\ closed \in BOOLEAN /\ faults \in 0..MaxFaults /\ renames \in 0..MaxRenames

CInv == VarsTyped /\ call \in [Tasks -> Sound]

LEMMA IdleIs ==
  /\ Idle \in Call
  /\ Idle.pc = "idle" /\ Idle.name = NoName /\ Idle.index = 0 /\ Idle.cred = 0 /\ Idle.reply = "none"
  /\ Idle.reached = {} /\ Idle.kept = {} /\ Idle.had = {} /\ Idle.disturbed = FALSE /\ Idle.result = "none"
BY RaritanAssumption DEF Idle, Call, Pcs, Replies, Results

LEMMA IdleSound ==
  ASSUME issued \in Nat
  PROVE  Idle \in Sound
BY IdleIs DEF Sound, Credited, Known, Asked, Aimed, Excused

LEMMA CInvInit == Init => CInv
<1> SUFFICES ASSUME Init PROVE CInv
  OBVIOUS
<1>1. VarsTyped
  <2>1. live \subseteq 1..issued /\ issued \in Nat /\ token \in 0..issued
    BY DEF Init
  <2>2. faults \in 0..MaxFaults /\ renames \in 0..MaxRenames
    BY RaritanAssumption DEF Init
  <2>3. name \in [Labels -> Names] /\ closed \in BOOLEAN
    BY DEF Init
  <2>4. QED
    BY <2>1, <2>2, <2>3 DEF VarsTyped
<1>2. Idle \in Sound
  BY IdleSound DEF Init
<1>3. QED
  BY <1>1, <1>2 DEF CInv, Init

-----------------------------------------------------------------------------
(***************************************************************************)
(* How a call goes on.                                                     *)
(***************************************************************************)
LEMMA EndedIs ==
  ASSUME NEW c \in Call, NEW r \in Results
  PROVE  LET e == Ended(c, r) IN
         /\ e \in Call /\ e.pc = "returned" /\ e.result = r /\ e.reply = "none"
         /\ e.name = c.name /\ e.index = c.index /\ e.cred = c.cred /\ e.reached = c.reached
         /\ e.kept = c.kept /\ e.had = c.had /\ e.disturbed = c.disturbed
BY DEF Ended, Call, Pcs, Replies

LEMMA RpcIs ==
  ASSUME NEW c \in Call, NEW tk \in Nat, closed \in BOOLEAN
  PROVE  LET e == Rpc(c, tk) IN
         /\ e \in Call /\ e.reply = "none"
         /\ closed => e.pc = "returned" /\ e.result = "raised" /\ e.cred = c.cred
         /\ ~ closed => /\ e.pc = (IF tk = 0 THEN "login" ELSE IF c.index = 0 THEN "list" ELSE "command")
                        /\ e.cred = tk /\ e.result = c.result
         /\ e.name = c.name /\ e.index = c.index /\ e.reached = c.reached
         /\ e.kept = c.kept /\ e.had = c.had /\ e.disturbed = c.disturbed
<1>1. CASE closed
  BY <1>1, EndedIs DEF Rpc, Results
<1>2. CASE ~ closed
  BY <1>2 DEF Rpc, Call, Pcs, Replies
<1>3. QED
  BY <1>1, <1>2

LEMMA AnswerIs ==
  ASSUME NEW t \in Tasks, call[t] \in Call, NEW r \in Replies
  PROVE  LET e == Answer(t, r)  c == call[t] IN
         /\ e \in Call /\ e.reply = r /\ e.pc = c.pc /\ e.result = c.result
         /\ e.name = c.name /\ e.index = c.index /\ e.cred = c.cred /\ e.reached = c.reached
         /\ e.kept = c.kept /\ e.had = c.had /\ e.disturbed = c.disturbed /\ e.listed = c.listed
BY DEF Answer, Call

LEMMA MetIs ==
  ASSUME NEW c \in Call
  PROVE  LET e == Met(c) IN
         /\ e \in Call /\ e.reply = c.reply /\ e.pc = c.pc /\ e.result = c.result
         /\ e.name = c.name /\ e.index = c.index /\ e.cred = c.cred /\ e.reached = c.reached
         /\ e.kept = c.kept /\ e.had = c.had /\ e.disturbed = TRUE /\ e.listed = c.listed
BY DEF Met, Call

LEMMA ReachingIs ==
  ASSUME NEW c \in Call, c.index # 0
  PROVE  LET e == Reaching(c) IN
         /\ e \in Call /\ e.reply = c.reply /\ e.pc = c.pc /\ e.result = c.result
         /\ e.name = c.name /\ e.index = c.index /\ e.cred = c.cred
         /\ e.reached = c.reached \cup {c.index}
         /\ e.kept = c.kept /\ e.had = c.had /\ e.disturbed = c.disturbed /\ e.listed = c.listed
<1>1. c.index \in Labels /\ WireIndex(c.index) + 1 = c.index
  BY RaritanAssumption DEF Call, Labels, WireIndex
<1>2. QED
  BY <1>1 DEF Reaching, Call

\* What no step but a rename changes to the worse for a call it is not about.
Steady ==
  /\ name' = name /\ (closed => closed') /\ (token # 0 => token' # 0)
  /\ issued' \in Nat /\ issued <= issued'
  /\ \A s \in 1..issued : s \in live' => s \in live

LEMMA SteadySound ==
  ASSUME VarsTyped, Steady
  PROVE  Sound \subseteq Sound'
<1> SUFFICES ASSUME NEW c \in Sound PROVE c \in Sound'
  OBVIOUS
<1>1. c \in Call /\ c.cred \in Nat
  BY DEF Sound, Call
<1>2. Credited(c)'
  BY <1>1 DEF Sound, Credited, VarsTyped, Steady
<1>3. Asked(c)' /\ Aimed(c)'
  BY DEF Sound, Known, Asked, Aimed, Steady
<1>4. Excused(c)'
  BY <1>1 DEF Sound, Credited, Excused, VarsTyped, Steady
<1>5. QED
  BY <1>1, <1>2, <1>3, <1>4 DEF Sound

\* A step of one call, to what is sound after it.
LEMMA OneSound ==
  ASSUME CInv, VarsTyped', Steady, NEW t \in Tasks, NEW c \in Sound', Become(t, c)
  PROVE  CInv'
BY SteadySound DEF CInv, Become

LEMMA CallIsSound ==
  ASSUME CInv, NEW t \in Tasks
  PROVE  call[t] \in Call /\ Credited(call[t]) /\ Asked(call[t]) /\ Aimed(call[t]) /\ Excused(call[t])
BY DEF CInv, Sound

\* A step that changes a call only, and counts its fault.
LEMMA CallStep ==
  ASSUME CInv, NEW t \in Tasks, NEW c \in Sound, Become(t, c),
         UNCHANGED <<pdu, token, closed, renames>>, faults' = faults \/ Fault
  PROVE  CInv'
<1>1. faults' \in 0..MaxFaults
  BY RaritanAssumption DEF CInv, VarsTyped, Fault
<1>2. VarsTyped'
  BY <1>1 DEF CInv, VarsTyped, pdu
<1>3. Steady
  BY DEF CInv, VarsTyped, Steady, pdu
<1>4. c \in Sound'
  BY <1>3, SteadySound DEF CInv
<1>5. QED
  BY <1>2, <1>3, <1>4, OneSound

LEMMA EndedSound ==
  ASSUME CInv, NEW t \in Tasks, NEW r \in Results \ {"none"},
         r = "raised" => \/ call[t].disturbed \/ closed
                         \/ call[t].cred # 0 /\ call[t].cred \notin live,
         r = "ok" /\ call[t].index # 0 => call[t].reached # {},
         r = "KeyError" => call[t].kept = {}
  PROVE  Ended(call[t], r) \in Sound
<1> DEFINE e == Ended(call[t], r)
<1>1. /\ e \in Call /\ e.pc = "returned" /\ e.result = r /\ e.reply = "none"
      /\ e.name = call[t].name /\ e.index = call[t].index /\ e.cred = call[t].cred
      /\ e.reached = call[t].reached
      /\ e.kept = call[t].kept /\ e.had = call[t].had /\ e.disturbed = call[t].disturbed
  BY CallIsSound, EndedIs
<1> HIDE DEF e
<1>2. Credited(e)
  BY <1>1, CallIsSound DEF Credited
<1>3. Asked(e)
  BY <1>1, CallIsSound DEF Asked, Known
<1>4. Aimed(e)
  BY <1>1, CallIsSound DEF Aimed
<1>5. Excused(e)
  BY <1>1, CallIsSound DEF Excused
<1>6. e \in Sound
  BY <1>1, <1>2, <1>3, <1>4, <1>5 DEF Sound
<1>7. QED
  BY <1>6 DEF e

LEMMA RpcSound ==
  ASSUME VarsTyped, NEW c \in Call, NEW tk \in 0..issued, tk # 0 => token # 0,
         c.result = "none", c.cred <= issued, Known(c), c.reached \subseteq {c.index}
  PROVE  Rpc(c, tk) \in Sound
<1> DEFINE e == Rpc(c, tk)
<1>0. tk \in Nat /\ closed \in BOOLEAN
  BY DEF VarsTyped
<1>1. /\ e \in Call /\ e.reply = "none"
      /\ closed => e.pc = "returned" /\ e.result = "raised" /\ e.cred = c.cred
      /\ ~ closed => /\ e.pc = (IF tk = 0 THEN "login" ELSE IF c.index = 0 THEN "list" ELSE "command")
                     /\ e.cred = tk /\ e.result = c.result
      /\ e.name = c.name /\ e.index = c.index /\ e.reached = c.reached
      /\ e.kept = c.kept /\ e.had = c.had /\ e.disturbed = c.disturbed
  BY <1>0, RpcIs
<1> HIDE DEF e
<1>2. Credited(e)
  BY <1>1, <1>0 DEF Credited
<1>3. Asked(e)
  BY <1>1, <1>0 DEF Asked, Known
<1>4. Aimed(e)
  BY <1>1, <1>0 DEF Aimed
<1>5. Excused(e)
  BY <1>1, <1>0 DEF Excused
<1>6. e \in Sound
  BY <1>1, <1>2, <1>3, <1>4, <1>5 DEF Sound
<1>7. QED
  BY <1>6 DEF e

LEMMA AnswerSound ==
  ASSUME CInv, NEW t \in Tasks, call[t].pc \in {"list", "command", "login", "logout"},
         NEW r \in {"refused", "lost"}
  PROVE  /\ Met(Answer(t, r)) \in Sound
         /\ closed \/ (call[t].cred # 0 /\ call[t].cred \notin live) => Answer(t, r) \in Sound
<1> DEFINE a == Answer(t, r)
           e == Met(a)
<1>0. call[t] \in Call /\ r \in Replies
  BY CallIsSound DEF Replies
<1>1. /\ a \in Call /\ a.reply = r /\ a.pc = call[t].pc /\ a.result = call[t].result
      /\ a.name = call[t].name /\ a.index = call[t].index /\ a.cred = call[t].cred
      /\ a.reached = call[t].reached
      /\ a.kept = call[t].kept /\ a.had = call[t].had /\ a.disturbed = call[t].disturbed
  BY <1>0, AnswerIs
<1> HIDE DEF a
<1>2. /\ e \in Call /\ e.reply = r /\ e.pc = call[t].pc /\ e.result = call[t].result
      /\ e.name = call[t].name /\ e.index = call[t].index /\ e.cred = call[t].cred
      /\ e.reached = call[t].reached
      /\ e.kept = call[t].kept /\ e.had = call[t].had /\ e.disturbed = TRUE
  BY <1>1, MetIs
<1> HIDE DEF e
<1>3. Credited(a) /\ Credited(e)
  BY <1>1, <1>2, CallIsSound DEF Credited
<1>4. Asked(a) /\ Asked(e)
  BY <1>1, <1>2, CallIsSound DEF Asked, Known
<1>5. Aimed(a) /\ Aimed(e)
  BY <1>1, <1>2, CallIsSound DEF Aimed
<1>6. Excused(e) /\ (closed \/ (call[t].cred # 0 /\ call[t].cred \notin live) => Excused(a))
  BY <1>1, <1>2 DEF Excused
<1>7. QED
  BY <1>1, <1>2, <1>3, <1>4, <1>5, <1>6 DEF Sound, e, a

-----------------------------------------------------------------------------
(***************************************************************************)
(* Every step.                                                             *)
(***************************************************************************)
LEMMA BeginSound ==
  ASSUME CInv, NEW t \in Tasks, NEW c \in Call, Begin(t, c), Known(c),
         c.result = "none", c.cred = 0, c.reached = {}
  PROVE  CInv'
<1>1. Rpc(c, token) \in Sound
  BY RpcSound DEF CInv, VarsTyped
<1>2. QED
  BY <1>1, CallStep DEF Begin

LEMMA CallsSound ==
  ASSUME CInv, NEW t \in Tasks, Calls(t)
  PROVE  CInv'
<1>1. ASSUME NEW i \in Labels, CallIndex(t, i) PROVE CInv'
  <2> DEFINE c == [Idle EXCEPT !.index = i]
  <2>1. /\ c \in Call /\ c.result = "none" /\ c.cred = 0 /\ c.reached = {}
        /\ c.name = NoName /\ c.kept = {} /\ c.had = {} /\ c.pc = "idle"
    BY IdleIs, RaritanAssumption DEF Call, Labels
  <2>2. Begin(t, c)
    BY <1>1 DEF CallIndex
  <2> HIDE DEF c
  <2>3. Known(c)
    BY <2>1 DEF Known
  <2>4. QED
    BY <2>1, <2>2, <2>3, BeginSound
<1>2. ASSUME NEW n \in Names, CallName(t, n) PROVE CInv'
  <2> DEFINE now == {i \in Labels : name[i] = n}
             c == [Idle EXCEPT !.name = n, !.kept = now, !.had = now]
  <2>1. /\ c \in Call /\ c.result = "none" /\ c.cred = 0 /\ c.reached = {}
        /\ c.name = n /\ c.kept = now /\ c.had = now /\ c.pc = "idle" /\ c.index = 0
    BY IdleIs DEF Call
  <2>2. Begin(t, c)
    BY <1>2 DEF CallName
  <2> HIDE DEF c
  <2>3. Known(c)
    BY <2>1 DEF Known
  <2>4. QED
    BY <2>1, <2>2, <2>3, BeginSound
<1>3. ASSUME CallRead(t) PROVE CInv'
  <2>1. Known(Idle)
    BY IdleIs DEF Known
  <2>2. QED
    BY <1>3, <2>1, IdleIs, BeginSound DEF CallRead
<1>4. ASSUME Close(t) PROVE CInv'
  <2>1. VarsTyped' /\ Steady
    BY <1>4 DEF Close, CInv, VarsTyped, Steady, pdu
  <2>2. PICK c : /\ Become(t, c)
                 /\ c = IF token = 0 THEN Ended(Idle, "closed")
                        ELSE [Idle EXCEPT !.pc = "logout", !.cred = token]
    BY <1>4 DEF Close
  <2>3. issued' = issued /\ token' = token /\ issued \in Nat /\ token \in 0..issued /\ name' = name
    BY <1>4 DEF Close, pdu, CInv, VarsTyped
  <2>4. /\ c \in Call /\ c.reply = "none" /\ c.cred = token
        /\ c.name = NoName /\ c.index = 0 /\ c.reached = {} /\ c.kept = {} /\ c.had = {}
        /\ \/ token = 0 /\ c.pc = "returned" /\ c.result = "closed"
           \/ token # 0 /\ c.pc = "logout" /\ c.result = "none"
    <3>1. CASE token = 0
      BY <3>1, <2>2, IdleIs, EndedIs DEF Results
    <3>2. CASE token # 0
      <4>1. c = [Idle EXCEPT !.pc = "logout", !.cred = token] /\ token \in Nat
        BY <2>2, <2>3, <3>2
      <4>2. QED
        BY <4>1, <3>2, IdleIs DEF Call, Pcs
    <3>3. QED
      BY <3>1, <3>2
  <2>5. Credited(c)' /\ Asked(c)'
    BY <2>3, <2>4 DEF Credited, Asked, Known
  <2>6. Aimed(c)' /\ Excused(c)'
    BY <2>4 DEF Aimed, Excused
  <2>7. c \in Sound'
    BY <2>4, <2>5, <2>6 DEF Sound
  <2>8. QED
    BY <2>1, <2>2, <2>7, OneSound
<1>5. QED
  BY <1>1, <1>2, <1>3, <1>4 DEF Calls

LEMMA LoggedInSound ==
  ASSUME CInv, NEW t \in Tasks, LoggedIn(t)
  PROVE  CInv'
<1> DEFINE e == Rpc(call[t], call[t].cred)
<1>1. VarsTyped' /\ Steady
  BY CallIsSound DEF LoggedIn, Got, Credited, Call, CInv, VarsTyped, Steady, pdu
<1>2. call[t] \in Call /\ call[t].cred \in 0..issued /\ call[t].cred # 0 /\ token' # 0
  BY CallIsSound DEF LoggedIn, Got, Credited, Call
<1>3. UNCHANGED <<name, live, issued, closed>> /\ token' = call[t].cred /\ Become(t, e)
  BY DEF LoggedIn, pdu
<1>4. /\ e \in Call /\ e.reply = "none"
      /\ closed => e.pc = "returned" /\ e.result = "raised" /\ e.cred = call[t].cred
      /\ ~ closed => e.pc \in {"list", "command"} /\ e.cred = call[t].cred /\ e.result = "none"
      /\ ~ closed /\ e.pc = "command" => call[t].index # 0
      /\ ~ closed /\ e.pc = "list" => call[t].index = 0
      /\ e.name = call[t].name /\ e.index = call[t].index /\ e.reached = call[t].reached
      /\ e.kept = call[t].kept /\ e.had = call[t].had
  <2>1. call[t].result = "none" /\ closed \in BOOLEAN /\ call[t].cred \in Nat
    BY CallIsSound, <1>2 DEF LoggedIn, Got, Credited, CInv, VarsTyped
  <2>2. /\ e \in Call /\ e.reply = "none"
        /\ closed => e.pc = "returned" /\ e.result = "raised" /\ e.cred = call[t].cred
        /\ ~ closed => /\ e.pc = (IF call[t].cred = 0 THEN "login"
                                  ELSE IF call[t].index = 0 THEN "list" ELSE "command")
                       /\ e.cred = call[t].cred /\ e.result = call[t].result
        /\ e.name = call[t].name /\ e.index = call[t].index /\ e.reached = call[t].reached
        /\ e.kept = call[t].kept /\ e.had = call[t].had
    BY <1>2, <2>1, RpcIs
  <2> HIDE DEF e
  <2>3. ~ closed => e.pc = IF call[t].index = 0 THEN "list" ELSE "command"
    BY <1>2, <2>2
  <2>4. QED
    BY <2>1, <2>2, <2>3
<1> HIDE DEF e
<1>c. PICK c : c = e
  OBVIOUS
<1>5. issued \in Nat /\ token \in 0..issued /\ closed \in BOOLEAN
  BY DEF CInv, VarsTyped
<1>6. Credited(c)'
  BY <1>2, <1>c, <1>3, <1>4, <1>5 DEF Credited
<1>7. Asked(c)'
  BY <1>c, <1>3, <1>4, <1>5, CallIsSound DEF Asked, Known
<1>8. Aimed(c)'
  BY <1>c, <1>3, <1>4, <1>5, CallIsSound DEF Aimed
<1>9. Excused(c)'
  BY <1>c, <1>3, <1>4, <1>5 DEF Excused
<1>10. c \in Sound'
  BY <1>c, <1>4, <1>6, <1>7, <1>8, <1>9 DEF Sound
<1>11. QED
  BY <1>c, <1>1, <1>3, <1>10, OneSound

LEMMA ListedSound ==
  ASSUME CInv, NEW t \in Tasks, Listed(t)
  PROVE  CInv'
<1>1. /\ call[t] \in Call /\ call[t].pc = "list" /\ call[t].reply = "ok" /\ call[t].result = "none"
      /\ Known(call[t]) /\ call[t].index = 0 /\ call[t].reached = {} /\ call[t].cred <= issued
      /\ call[t].name # NoName =>
           \A i \in Labels : /\ call[t].listed[i] = call[t].name => i \in call[t].had
                             /\ i \in call[t].kept => call[t].listed[i] = call[t].name
  <2>1. 0 \notin Labels /\ call[t].reached \subseteq Labels
    BY CallIsSound DEF Call, Labels
  <2>2. QED
    BY <2>1, CallIsSound DEF Listed, Got, Credited, Asked, Aimed
<1>2. ASSUME Become(t, Ended(call[t], "ok")) PROVE CInv'
  <2>1. Ended(call[t], "ok") \in Sound
    BY <1>1, EndedSound DEF Results
  <2>2. QED
    BY <1>2, <2>1, CallStep DEF Listed
<1>3. ASSUME Matches(call[t]) = {}, call[t].name # NoName, Become(t, Ended(call[t], "KeyError")) PROVE CInv'
  <2>1. call[t].kept = {}
    BY <1>1, <1>3 DEF Matches, Call
  <2>2. Ended(call[t], "KeyError") \in Sound
    BY <1>1, <2>1, EndedSound DEF Results
  <2>3. QED
    BY <1>3, <2>2, CallStep DEF Listed
<1>4. ASSUME call[t].name # NoName, NEW i \in Matches(call[t]),
             Become(t, Rpc([call[t] EXCEPT !.index = i], token)) PROVE CInv'
  <2> DEFINE c == [call[t] EXCEPT !.index = i]
  <2>1. i \in Labels /\ i \in 0..Outlets /\ i \in call[t].had
    BY <1>1, <1>4, RaritanAssumption DEF Matches, Labels
  <2>2. /\ c \in Call /\ c.index = i /\ c.name = call[t].name /\ c.kept = call[t].kept /\ c.had = call[t].had
        /\ c.result = "none" /\ c.cred = call[t].cred /\ c.reached = {}
    BY <1>1, <2>1 DEF Call
  <2> HIDE DEF c
  <2>3. Known(c)
    BY <1>1, <2>1, <2>2 DEF Known
  <2>4. Rpc(c, token) \in Sound
    BY <1>1, <2>2, <2>3, RpcSound DEF CInv, VarsTyped
  <2>5. QED
    BY <1>4, <2>4, CallStep DEF Listed, c
<1>5. QED
  BY <1>2, <1>3, <1>4 DEF Listed

LEMMA ResumeSound ==
  ASSUME CInv, NEW t \in Tasks, Resume(t)
  PROVE  CInv'
<1>1. ASSUME CommandDone(t) PROVE CInv'
  <2>1. Ended(call[t], "ok") \in Sound
    BY <1>1, CallIsSound, EndedSound DEF Results, CommandDone, Got, Aimed
  <2>2. QED
    BY <1>1, <2>1, CallStep DEF CommandDone
<1>2. ASSUME Fails(t) PROVE CInv'
  <2>1. Ended(call[t], "raised") \in Sound
    BY <1>2, CallIsSound, EndedSound DEF Results, Fails, Excused
  <2>2. QED
    BY <1>2, <2>1, CallStep DEF Fails
<1>3. ASSUME LoggedOut(t) PROVE CInv'
  <2>1. Ended(call[t], "closed") \in Sound
    BY <1>3, EndedSound DEF Results
  <2>2. VarsTyped' /\ Steady
    BY <1>3 DEF LoggedOut, CInv, VarsTyped, Steady, pdu
  <2>3. PICK c : c = Ended(call[t], "closed")
    OBVIOUS
  <2>4. c \in Sound' /\ Become(t, c)
    BY <1>3, <2>1, <2>2, <2>3, SteadySound DEF CInv, LoggedOut
  <2>5. QED
    BY <2>2, <2>4, OneSound
<1>4. QED
  BY <1>1, <1>2, <1>3, LoggedInSound, ListedSound DEF Resume

LEMMA CancelTakeLoseSound ==
  ASSUME CInv, NEW t \in Tasks, Cancel(t) \/ Take(t) \/ Lose(t)
  PROVE  CInv'
<1>1. ASSUME Cancel(t) PROVE CInv'
  <2>1. Ended(call[t], "cancelled") \in Sound
    BY <1>1, EndedSound DEF Results
  <2>2. QED
    BY <1>1, <2>1, CallStep DEF Cancel
<1>2. ASSUME Take(t) PROVE CInv'
  <2>1. Idle \in Sound
    BY IdleSound DEF CInv, VarsTyped
  <2>2. QED
    BY <1>2, <2>1, CallStep DEF Take
<1>3. ASSUME Lose(t) PROVE CInv'
  <2>1. Met(Answer(t, "lost")) \in Sound /\ (closed => Answer(t, "lost") \in Sound)
    BY <1>3, AnswerSound DEF Lose
  <2>2. CASE closed
    BY <1>3, <2>1, <2>2, CallStep DEF Lose
  <2>3. CASE ~ closed
    BY <1>3, <2>1, <2>3, CallStep DEF Lose
  <2>4. QED
    BY <2>2, <2>3
<1>4. QED
  BY <1>1, <1>2, <1>3

LEMMA ServeSound ==
  ASSUME CInv, NEW t \in Tasks, Serve(t)
  PROVE  CInv'
<1>0. call[t] \in Call /\ {"ok", "refused", "lost"} \subseteq Replies
  BY CallIsSound DEF Replies
<1> DEFINE ok == Answer(t, "ok")
<1>ok. /\ ok \in Call /\ ok.reply = "ok" /\ ok.pc = call[t].pc /\ ok.result = call[t].result
      /\ ok.name = call[t].name /\ ok.index = call[t].index /\ ok.cred = call[t].cred
      /\ ok.reached = call[t].reached /\ ok.kept = call[t].kept /\ ok.had = call[t].had
      /\ ok.disturbed = call[t].disturbed /\ ok.listed = call[t].listed
  BY <1>0, AnswerIs
<1> HIDE DEF ok
<1>1. ASSUME ServeLogin(t) PROVE CInv'
  <2>1. PICK c : c = [ok EXCEPT !.cred = issued'] /\ Become(t, c)
    BY <1>1 DEF ServeLogin, ok
  <2>2. /\ issued \in Nat /\ token \in 0..issued /\ issued' = issued + 1 /\ live' = live \cup {issued + 1}
        /\ name' = name /\ token' = token /\ closed' = closed /\ call[t].pc = "login"
    BY <1>1 DEF ServeLogin, Got, CInv, VarsTyped
  <2>3. /\ c \in Call /\ c.reply = "ok" /\ c.pc = "login" /\ c.result = call[t].result
        /\ c.name = call[t].name /\ c.index = call[t].index /\ c.cred = issued + 1
        /\ c.reached = call[t].reached /\ c.kept = call[t].kept /\ c.had = call[t].had
    BY <1>ok, <2>1, <2>2 DEF Call
  <2>4. VarsTyped' /\ Steady
    BY <1>1, <2>2 DEF ServeLogin, CInv, VarsTyped, Steady
  <2>5. Credited(c)'
    BY <2>2, <2>3, CallIsSound DEF Credited
  <2>6. Asked(c)' /\ Aimed(c)'
    BY <2>2, <2>3, CallIsSound DEF Asked, Known, Aimed
  <2>7. Excused(c)'
    BY <2>2, <2>3, CallIsSound DEF Excused, Credited
  <2>8. c \in Sound'
    BY <2>3, <2>5, <2>6, <2>7 DEF Sound
  <2>9. QED
    BY <2>1, <2>4, <2>8, OneSound
<1>2. ASSUME ServeList(t) PROVE CInv'
  <2>1. PICK c : c = [ok EXCEPT !.listed = name] /\ Become(t, c)
    BY <1>2 DEF ServeList, ok
  <2>2. /\ c \in Call /\ c.reply = "ok" /\ c.pc = "list" /\ c.result = call[t].result /\ call[t].pc = "list"
        /\ c.name = call[t].name /\ c.index = call[t].index /\ c.cred = call[t].cred /\ c.listed = name
        /\ c.reached = call[t].reached /\ c.kept = call[t].kept /\ c.had = call[t].had
    <3>1. call[t].pc = "list" /\ name \in [Labels -> Names]
      BY <1>2 DEF ServeList, Got, CInv, VarsTyped
    <3>2. name \in {<<>>} \cup [Labels -> Names]
      BY <3>1
    <3> DEFINE L == {<<>>} \cup [Labels -> Names]
    <3>3. Call = [pc: Pcs, name: Names \cup {NoName}, index: 0..Outlets, cred: Nat, reply: Replies,
                  listed: L, reached: SUBSET Labels, kept: SUBSET Labels, had: SUBSET Labels,
                  disturbed: BOOLEAN, result: Results]
      BY DEF Call
    <3> HIDE DEF L
    <3>4. QED
      BY <1>ok, <2>1, <3>1, <3>2, <3>3 DEF L
  <2>3. Credited(c) /\ Aimed(c) /\ Excused(c)
    BY <2>2, CallIsSound DEF Credited, Aimed, Excused
  <2>4. Asked(c)
    BY <2>2, CallIsSound DEF Asked, Known
  <2>5. c \in Sound
    BY <2>2, <2>3, <2>4 DEF Sound
  <2>6. QED
    BY <1>2, <2>1, <2>5, CallStep DEF ServeList
<1>3. ASSUME ServeCommand(t) PROVE CInv'
  <2>1. ASSUME NEW r \in {"ok", "refused"} 
        PROVE  LET e == Reaching(Answer(t, r)) IN
               /\ e \in Call /\ e.reply = r /\ e.pc = "command" /\ e.result = call[t].result
               /\ e.name = call[t].name /\ e.index = call[t].index /\ e.cred = call[t].cred
               /\ e.reached = call[t].reached \cup {call[t].index} /\ call[t].pc = "command"
               /\ e.kept = call[t].kept /\ e.had = call[t].had /\ e.disturbed = call[t].disturbed
    <3> DEFINE a == Answer(t, r)
    <3>1. /\ a \in Call /\ a.reply = r /\ a.pc = call[t].pc /\ a.result = call[t].result
          /\ a.name = call[t].name /\ a.index = call[t].index /\ a.cred = call[t].cred
          /\ a.reached = call[t].reached
          /\ a.kept = call[t].kept /\ a.had = call[t].had /\ a.disturbed = call[t].disturbed
      BY <1>0, AnswerIs
    <3> HIDE DEF a
    <3>2. a.index # 0 /\ call[t].pc = "command"
      BY <1>3, <3>1, CallIsSound DEF ServeCommand, Got, Aimed
    <3>3. QED
      BY <3>1, <3>2, ReachingIs DEF a
  <2>2. Reaching(ok) \in Sound
    <3> DEFINE e == Reaching(ok)
    <3>1. /\ e \in Call /\ e.reply = "ok" /\ e.pc = "command" /\ e.result = call[t].result
          /\ e.name = call[t].name /\ e.index = call[t].index /\ e.cred = call[t].cred
          /\ e.reached = call[t].reached \cup {call[t].index} /\ call[t].pc = "command"
          /\ e.kept = call[t].kept /\ e.had = call[t].had /\ e.disturbed = call[t].disturbed
      BY <2>1 DEF ok
    <3> HIDE DEF e
    <3>2. Credited(e) /\ Asked(e) /\ Aimed(e) /\ Excused(e)
      BY <3>1, CallIsSound DEF Credited, Asked, Known, Aimed, Excused
    <3>3. QED
      BY <3>1, <3>2 DEF Sound, e
  <2>3. Met(Reaching(Answer(t, "refused"))) \in Sound
    <3> DEFINE a == Reaching(Answer(t, "refused"))
               e == Met(a)
    <3>1. /\ a \in Call /\ a.reply = "refused" /\ a.pc = "command" /\ a.result = call[t].result
          /\ a.name = call[t].name /\ a.index = call[t].index /\ a.cred = call[t].cred
          /\ a.reached = call[t].reached \cup {call[t].index} /\ call[t].pc = "command"
          /\ a.kept = call[t].kept /\ a.had = call[t].had /\ a.disturbed = call[t].disturbed
      BY <2>1
    <3> HIDE DEF a
    <3>2. /\ e \in Call /\ e.reply = "refused" /\ e.pc = "command" /\ e.result = call[t].result
          /\ e.name = call[t].name /\ e.index = call[t].index /\ e.cred = call[t].cred
          /\ e.reached = call[t].reached \cup {call[t].index}
          /\ e.kept = call[t].kept /\ e.had = call[t].had /\ e.disturbed = TRUE
      BY <3>1, MetIs
    <3> HIDE DEF e
    <3>3. Credited(e) /\ Asked(e) /\ Aimed(e) /\ Excused(e)
      BY <3>1, <3>2, CallIsSound DEF Credited, Asked, Known, Aimed, Excused
    <3>4. QED
      BY <3>2, <3>3 DEF Sound, e, a
  <2>4. QED
    BY <1>3, <2>2, <2>3, CallStep DEF ServeCommand, ok
<1>4. ASSUME ServeLogout(t) PROVE CInv'
  <2>0. UNCHANGED <<name, issued, token, closed, faults, renames>> /\ live' \subseteq live
    BY <1>4 DEF ServeLogout
  <2>1. VarsTyped' /\ Steady
    <3>1. VarsTyped'
      BY <2>0 DEF CInv, VarsTyped
    <3>2. Steady
      BY <2>0 DEF CInv, VarsTyped, Steady
    <3>3. QED
      BY <3>1, <3>2
  <2>2. PICK c : c = ok /\ Become(t, c)
    BY <1>4 DEF ServeLogout, ok
  <2>3. call[t].pc = "logout"
    BY <1>4 DEF ServeLogout, Got
  <2>4. Credited(ok) /\ Asked(ok) /\ Aimed(ok)
    BY <1>ok, <2>3, CallIsSound DEF Credited, Asked, Known, Aimed
  <2>5. Excused(ok)
    BY <1>ok, <2>3, CallIsSound DEF Excused, Credited
  <2>6. c \in Sound
    BY <1>ok, <2>2, <2>4, <2>5 DEF Sound
  <2>7. QED
    BY <2>1, <2>2, <2>6, OneSound, SteadySound DEF CInv
<1>5. ASSUME Refuse(t) PROVE CInv'
  <2>1. CASE call[t].pc # "login" /\ call[t].cred \notin live
    <3>1. call[t].cred # 0
      BY <1>5, <2>1, CallIsSound DEF Refuse, Credited
    <3>2. Answer(t, "refused") \in Sound
      BY <1>5, <2>1, <3>1, AnswerSound DEF Refuse
    <3>3. QED
      BY <1>5, <2>1, <3>2, CallStep DEF Refuse
  <2>2. CASE ~ (call[t].pc # "login" /\ call[t].cred \notin live)
    <3>1. Met(Answer(t, "refused")) \in Sound
      BY <1>5, AnswerSound DEF Refuse
    <3>2. QED
      BY <1>5, <2>2, <3>1, CallStep DEF Refuse
  <2>3. QED
    BY <2>1, <2>2
<1>6. QED
  BY <1>1, <1>2, <1>3, <1>4, <1>5 DEF Serve

LEMMA ExpireSound ==
  ASSUME CInv, NEW s \in live, Expire(s)
  PROVE  CInv'
<1>0. UNCHANGED <<name, issued, token, closed, call, renames>> /\ live' \subseteq live
  BY DEF Expire
<1>1. faults' \in 0..MaxFaults
  BY RaritanAssumption DEF CInv, VarsTyped, Expire, Fault
<1>2. VarsTyped'
  BY <1>0, <1>1 DEF CInv, VarsTyped
<1>3. Steady
  BY <1>0 DEF CInv, VarsTyped, Steady
<1>4. QED
  BY <1>0, <1>2, <1>3, SteadySound DEF CInv

\* The names that a call's outlet has had, and has kept, follow the PDU's.
LEMMA RenameSound ==
  ASSUME CInv, NEW i \in Labels, NEW n \in Names, Rename(i, n)
  PROVE  CInv'
<1>1. /\ UNCHANGED <<live, issued, token, closed, faults>>
      /\ name' \in [Labels -> Names] /\ name \in [Labels -> Names]
      /\ name'[i] = n /\ \A j \in Labels \ {i} : name'[j] = name[j]
  BY DEF Rename, CInv, VarsTyped
<1>2. VarsTyped'
  <2>1. renames' \in 0..MaxRenames
    <3>1. renames < MaxRenames /\ renames' = renames + 1 /\ renames \in 0..MaxRenames
      BY DEF Rename, CInv, VarsTyped
    <3>2. QED
      BY <3>1, RaritanAssumption
  <2>2. QED
    BY <1>1, <2>1 DEF CInv, VarsTyped
<1>3. ASSUME NEW t \in Tasks PROVE call'[t] \in Sound'
  <2> DEFINE c == call[t]
  <2>0. c \in Call /\ c.kept \subseteq Labels /\ c.had \subseteq Labels
    BY CallIsSound DEF Call
  <2> DEFINE had == IF c.name = n THEN c.had \cup {i} ELSE c.had
  <2>1. PICK d : d = [c EXCEPT !.kept = c.kept \ {i}, !.had = had]
    OBVIOUS
  <2>2. call'[t] = d
    BY <2>1 DEF Rename
  <2>3. /\ d \in Call /\ d.pc = c.pc /\ d.reply = c.reply /\ d.result = c.result /\ d.disturbed = c.disturbed
        /\ d.name = c.name /\ d.index = c.index /\ d.cred = c.cred /\ d.reached = c.reached
        /\ d.listed = c.listed /\ d.kept = c.kept \ {i}
        /\ d.had = IF c.name = n THEN c.had \cup {i} ELSE c.had
    <3>1. had \subseteq Labels /\ c.kept \ {i} \subseteq Labels
      BY <2>0
    <3> HIDE DEF had
    <3>2. QED
      BY <2>0, <2>1, <3>1 DEF Call, had
  <2> HIDE DEF c
  <2>4. Credited(c) /\ Asked(c) /\ Aimed(c) /\ Excused(c)
    BY CallIsSound DEF c
  <2>5. Credited(d)'
    BY <1>1, <2>3, <2>4 DEF Credited
  <2>6. Known(d)'
    BY <1>1, <2>0, <2>3, <2>4 DEF Asked, Known
  <2>7. Asked(d)'
    BY <2>3, <2>4, <2>6 DEF Asked
  <2>8. Aimed(d)'
    BY <2>3, <2>4 DEF Aimed
  <2>9. Excused(d)'
    BY <1>1, <2>3, <2>4 DEF Excused
  <2>10. QED
    BY <2>2, <2>3, <2>5, <2>7, <2>8, <2>9 DEF Sound
<1>4. call' \in [Tasks -> Sound']
  <2>1. call' = [t \in Tasks |-> call'[t]]
    BY DEF Rename
  <2>2. QED
    BY <1>3, <2>1
<1>5. QED
  BY <1>2, <1>4 DEF CInv

LEMMA CInvStep == CInv /\ [Next]_vars => CInv'
<1> SUFFICES ASSUME CInv, [Next]_vars PROVE CInv'
  OBVIOUS
<1>1. ASSUME NEW t \in Tasks, Calls(t) \/ Resume(t) \/ Serve(t) \/ Lose(t) \/ Cancel(t) \/ Take(t) PROVE CInv'
  BY <1>1, CallsSound, ResumeSound, ServeSound, CancelTakeLoseSound
<1>2. ASSUME NEW s \in live, Expire(s) PROVE CInv'
  BY <1>2, ExpireSound
<1>3. ASSUME NEW i \in Labels, NEW n \in Names, Rename(i, n) PROVE CInv'
  BY <1>3, RenameSound
<1>4. ASSUME UNCHANGED vars PROVE CInv'
  BY <1>4 DEF vars, CInv, VarsTyped, Sound, Credited, Asked, Known, Aimed, Excused
<1>5. QED
  BY <1>1, <1>2, <1>3, <1>4 DEF Next

LEMMA CInvAlways == Spec => []CInv
BY CInvInit, CInvStep, PTL DEF Spec

-----------------------------------------------------------------------------
(***************************************************************************)
(* The theorems about calls.                                               *)
(***************************************************************************)

\* Every variable keeps its type, and no RPC leaves the client without a
\* session, whichever tasks log in.
THEOREM RaritanTyped == Spec => []TypeOK
<1>1. CInv => TypeOK
  BY DEF CInv, VarsTyped, Sound, Credited, Asked, Known, TypeOK
<1>2. QED
  BY <1>1, CInvAlways, PTL

\* A command reaches the outlet that was asked for, by its label or by a name
\* it has had since the call began, and a name that stays is found.
THEOREM NamedOutletHolds == Spec => []NamedOutlet
<1>1. CInv => NamedOutlet
  <2> SUFFICES ASSUME CInv, NEW t \in Tasks
               PROVE  /\ \A i \in call[t].reached : i = call[t].index
                                                   /\ (call[t].name # NoName => i \in call[t].had)
                      /\ call[t].result = "KeyError" => call[t].kept = {}
                      /\ call[t].result = "ok" /\ call[t].index # 0 => call[t].reached # {}
    BY DEF NamedOutlet
  <2>1. 0 \notin Labels /\ call[t].reached \subseteq Labels
    BY CallIsSound DEF Call, Labels
  <2>2. QED
    BY <2>1, CallIsSound DEF Aimed, Asked, Known
<1>2. QED
  BY <1>1, CInvAlways, PTL

\* A call raises only when a fault met it, when the client was closed, or when
\* the PDU has forgotten the session it used.
THEOREM FailureExplainedHolds == Spec => []FailureExplained
<1>1. CInv => FailureExplained
  BY CallIsSound DEF FailureExplained, Excused
<1>2. QED
  BY <1>1, CInvAlways, PTL

-----------------------------------------------------------------------------
(***************************************************************************)
(* Sessions.  No session is handed out twice, so it is enough to count     *)
(* them: while no task has a token each is that of a login under way or    *)
(* was lost to a fault, and after that no login begins.  The client closes *)
(* when one of those left is that of the closing task, or is logged out,   *)
(* or a fault stopped the logout.                                          *)
(***************************************************************************)
Waiting == {t \in Tasks : call[t].pc = "login" /\ call[t].reply = "none"}
Holding == {t \in Tasks : call[t].pc = "login" /\ call[t].reply = "ok"}
LoggedOff == \E t \in Tasks : call[t].pc = "logout" /\ call[t].reply # "none"

Spared == issued + Cardinality(Waiting) < Cardinality(Tasks) + faults \/ live # 1..issued

Sessions ==
  /\ token = 0 /\ ~ closed => issued <= Cardinality(Holding) + faults
  /\ issued + Cardinality(Waiting) <= Cardinality(Tasks) + faults
  /\ closed \/ LoggedOff => Spared

RInv == CInv /\ Sessions

LEMMA Counts ==
  /\ IsFiniteSet(Tasks) /\ Cardinality(Tasks) \in Nat
  /\ IsFiniteSet(Waiting) /\ Cardinality(Waiting) \in Nat
  /\ IsFiniteSet(Holding) /\ Cardinality(Holding) \in Nat
<1>1. IsFiniteSet(Tasks) /\ Waiting \subseteq Tasks /\ Holding \subseteq Tasks
  BY RaritanAssumption DEF Waiting, Holding
<1>2. QED
  BY <1>1, FS_Subset, FS_CardinalityType

\* Two disjoint sets of tasks, and both without a task.
LEMMA Disjoint ==
  ASSUME NEW W \in SUBSET Tasks, NEW H \in SUBSET Tasks, W \cap H = {}
  PROVE  /\ Cardinality(W) + Cardinality(H) <= Cardinality(Tasks)
         /\ \A t \in Tasks \ (W \cup H) : Cardinality(W) + Cardinality(H) < Cardinality(Tasks)
<1>1. IsFiniteSet(Tasks) /\ IsFiniteSet(W) /\ IsFiniteSet(H) /\ IsFiniteSet(W \cup H)
  BY RaritanAssumption, FS_Subset
<1>2. Cardinality(W \cup H) = Cardinality(W) + Cardinality(H)
  <2>1. Cardinality(W \cup H) = Cardinality(W) + Cardinality(H) - Cardinality(W \cap H)
    BY <1>1, FS_Union
  <2>2. Cardinality(W \cap H) = 0
    BY FS_EmptySet
  <2>3. Cardinality(W) \in Nat /\ Cardinality(H) \in Nat
    BY <1>1, FS_CardinalityType
  <2>4. QED
    BY <2>1, <2>2, <2>3
<1>3. Cardinality(W \cup H) <= Cardinality(Tasks)
  BY <1>1, FS_Subset
<1>4. ASSUME NEW t \in Tasks \ (W \cup H) PROVE Cardinality(W \cup H) < Cardinality(Tasks)
  <2>1. W \cup H \subseteq Tasks /\ W \cup H # Tasks
    BY <1>4
  <2>2. Cardinality(W \cup H) # Cardinality(Tasks)
    BY <1>1, <2>1, FS_Subset
  <2>3. Cardinality(W \cup H) \in Nat /\ Cardinality(Tasks) \in Nat
    BY <1>1, FS_CardinalityType
  <2>4. QED
    BY <1>3, <2>2, <2>3
<1>5. QED
  BY <1>2, <1>3, <1>4

\* A task goes on to c: who waits and who holds a session then.
LEMMA Moved ==
  ASSUME CInv, NEW t \in Tasks, NEW c, Become(t, c)
  PROVE  /\ Waiting' = (Waiting \ {t}) \cup (IF c.pc = "login" /\ c.reply = "none" THEN {t} ELSE {})
         /\ Holding' = (Holding \ {t}) \cup (IF c.pc = "login" /\ c.reply = "ok" THEN {t} ELSE {})
         /\ LoggedOff' => LoggedOff \/ (c.pc = "logout" /\ c.reply # "none")
<1>1. \A u \in Tasks : call'[u] = IF u = t THEN c ELSE call[u]
  BY DEF Become, CInv
<1>2. QED
  BY <1>1 DEF Waiting, Holding, LoggedOff

\* One element less.
LEMMA Without ==
  ASSUME NEW S, IsFiniteSet(S), NEW x
  PROVE  /\ IsFiniteSet(S \ {x}) /\ Cardinality(S \ {x}) \in Nat /\ Cardinality(S) \in Nat
         /\ Cardinality(S \ {x}) = IF x \in S THEN Cardinality(S) - 1 ELSE Cardinality(S)
<1>1. CASE x \in S
  BY <1>1, FS_RemoveElement, FS_CardinalityType
<1>2. CASE x \notin S
  <2>1. S \ {x} = S
    BY <1>2
  <2>2. QED
    BY <1>2, <2>1, FS_CardinalityType
<1>3. QED
  BY <1>1, <1>2

LEMMA With ==
  ASSUME NEW S, IsFiniteSet(S), NEW x
  PROVE  /\ IsFiniteSet((S \ {x}) \cup {x}) /\ Cardinality((S \ {x}) \cup {x}) \in Nat
         /\ Cardinality((S \ {x}) \cup {x}) = IF x \in S THEN Cardinality(S) ELSE Cardinality(S) + 1
<1>1. CASE x \in S
  <2>1. (S \ {x}) \cup {x} = S
    BY <1>1
  <2>2. QED
    BY <1>1, <2>1, FS_CardinalityType
<1>2. CASE x \notin S
  <2>1. (S \ {x}) \cup {x} = S \cup {x}
    OBVIOUS
  <2>2. QED
    BY <1>2, <2>1, FS_AddElement, FS_CardinalityType
<1>3. QED
  BY <1>1, <1>2

\* A step that starts no login and hands out no session.
LEMMA NoLogin ==
  ASSUME RInv, NEW t \in Tasks, NEW c, Become(t, c), CInv',
         ~ (c.pc = "login" /\ c.reply = "none"),
         issued' = issued, live' \subseteq live, faults' \in {faults, faults + 1},
         token' = 0 /\ ~ closed' =>
           /\ token = 0 /\ ~ closed
           /\ t \in Holding => (c.pc = "login" /\ c.reply = "ok") \/ faults' = faults + 1,
         closed' \/ (c.pc = "logout" /\ c.reply # "none") =>
           closed \/ LoggedOff \/ faults' = faults + 1 \/ live' # 1..issued
  PROVE  Sessions'
<1> DEFINE w == Cardinality(Waiting)   w2 == Cardinality(Waiting')
           h == Cardinality(Holding)   h2 == Cardinality(Holding')  n == Cardinality(Tasks)
           i2 == issued'   f2 == faults'
<1>0. /\ n \in Nat /\ w \in Nat /\ h \in Nat /\ issued \in Nat /\ faults \in Nat /\ live \subseteq 1..issued
      /\ IsFiniteSet(Waiting) /\ IsFiniteSet(Holding)
  BY Counts DEF RInv, CInv, VarsTyped
<1>1. Waiting' = Waiting \ {t}
  BY Moved DEF RInv
<1>2. Holding' = Holding \ {t} \/ Holding' = (Holding \ {t}) \cup {t}
  BY Moved DEF RInv
<1>3. c.pc = "login" /\ c.reply = "ok" => Holding' = (Holding \ {t}) \cup {t}
  BY Moved DEF RInv
<1>4. w2 \in Nat /\ w2 <= w
  <2>1. w2 = Cardinality(Waiting \ {t})
    BY <1>1
  <2>2. w2 \in Nat /\ w2 = IF t \in Waiting THEN w - 1 ELSE w
    BY <2>1, <1>0, Without
  <2> HIDE DEF w2, w
  <2>3. QED
    BY <2>2, <1>0
<1>5. h2 \in Nat /\ h2 >= h - 1 /\ ((c.pc = "login" /\ c.reply = "ok") \/ t \notin Holding => h2 >= h)
  <2>1. CASE Holding' = Holding \ {t} /\ ~ (c.pc = "login" /\ c.reply = "ok")
    <3>1. h2 \in Nat /\ h2 = IF t \in Holding THEN h - 1 ELSE h
      BY <2>1, <1>0, Without
    <3> HIDE DEF h, h2
    <3>2. QED
      BY <2>1, <3>1, <1>0
  <2>2. CASE Holding' = (Holding \ {t}) \cup {t}
    <3>1. h2 \in Nat /\ h2 = IF t \in Holding THEN h ELSE h + 1
      BY <2>2, <1>0, With
    <3> HIDE DEF h, h2
    <3>2. QED
      BY <3>1, <1>0
  <2>3. QED
    BY <2>1, <2>2, <1>2, <1>3
<1>6. f2 \in Nat /\ (f2 = faults \/ f2 = faults + 1) /\ i2 = issued
  BY <1>0
<1>7. LoggedOff' => LoggedOff \/ (c.pc = "logout" /\ c.reply # "none")
  BY Moved DEF RInv
<1>8. /\ token = 0 /\ ~ closed => issued <= h + faults
      /\ issued + w <= n + faults
      /\ closed \/ LoggedOff => issued + w < n + faults \/ live # 1..issued
  BY DEF RInv, Sessions, Spared
<1>9. live # 1..issued => live' # 1..issued
  BY <1>0
<1> HIDE DEF w, w2, h, h2, n, i2, f2
<1>10. token' = 0 /\ ~ closed' => i2 <= h2 + f2
  <2> SUFFICES ASSUME token' = 0, ~ closed' PROVE i2 <= h2 + f2
    OBVIOUS
  <2>1. issued <= h + faults /\ (h2 >= h \/ f2 = faults + 1)
    BY <1>5, <1>8 DEF f2
  <2>2. h \in Nat /\ h2 \in Nat /\ issued \in Nat /\ faults \in Nat /\ h2 >= h - 1
    BY <1>0, <1>5
  <2>3. QED
    BY ONLY <2>1, <2>2, <1>6
<1>11. i2 + w2 <= n + f2
  <2>1. /\ w \in Nat /\ w2 \in Nat /\ w2 <= w /\ n \in Nat /\ issued \in Nat /\ faults \in Nat
        /\ issued + w <= n + faults
    BY <1>0, <1>4, <1>8
  <2>2. QED
    BY ONLY <2>1, <1>6
<1>12. closed' \/ LoggedOff' => i2 + w2 < n + f2 \/ live' # 1..i2
  <2> SUFFICES ASSUME closed' \/ LoggedOff', live' = 1..issued PROVE i2 + w2 < n + f2
    BY <1>6
  <2>1. issued + w < n + faults \/ f2 = faults + 1
    BY <1>7, <1>8, <1>9 DEF f2
  <2>2. /\ w \in Nat /\ w2 \in Nat /\ w2 <= w /\ n \in Nat /\ issued \in Nat /\ faults \in Nat
        /\ issued + w <= n + faults
    BY <1>0, <1>4, <1>8
  <2>3. QED
    BY ONLY <2>1, <2>2, <1>6
<1>13. QED
  BY <1>10, <1>11, <1>12 DEF Sessions, Spared, w, w2, h, h2, n, i2, f2

\* A step that moves no task.
LEMMA NoMove ==
  ASSUME RInv, \A t \in Tasks : call'[t].pc = call[t].pc /\ call'[t].reply = call[t].reply,
         UNCHANGED <<issued, token, closed>>, live' \subseteq live, faults' \in {faults, faults + 1}
  PROVE  Sessions'
<1> DEFINE w == Cardinality(Waiting)  h == Cardinality(Holding)  n == Cardinality(Tasks)  f2 == faults'
<1>1. Waiting' = Waiting /\ Holding' = Holding /\ (LoggedOff' <=> LoggedOff)
  BY DEF Waiting, Holding, LoggedOff
<1>2. /\ n \in Nat /\ w \in Nat /\ h \in Nat /\ issued \in Nat /\ faults \in Nat
      /\ f2 \in Nat /\ (f2 = faults \/ f2 = faults + 1)
  BY Counts DEF RInv, CInv, VarsTyped
<1>3. live # 1..issued => live' # 1..issued
  BY DEF RInv, CInv, VarsTyped
<1>4. /\ token = 0 /\ ~ closed => issued <= h + faults
      /\ issued + w <= n + faults
      /\ closed \/ LoggedOff => issued + w < n + faults \/ live # 1..issued
  BY DEF RInv, Sessions, Spared
<1> HIDE DEF w, h, n, f2
<1>5. /\ token = 0 /\ ~ closed => issued <= h + f2
      /\ issued + w <= n + f2
      /\ issued + w < n + faults => issued + w < n + f2
  BY <1>2, <1>4
<1>6. Cardinality(Waiting') = w /\ Cardinality(Holding') = h
  BY <1>1 DEF w, h
<1>7. QED
  BY <1>1, <1>3, <1>4, <1>5, <1>6 DEF Sessions, Spared, n, f2

LEMMA LoginBegins ==
  ASSUME RInv, NEW t \in Tasks, NEW c, Become(t, c), c.pc = "login", c.reply = "none",
         call[t].pc = "idle", token = 0, ~ closed, UNCHANGED <<pdu, token, closed, faults>>
  PROVE  Sessions'
<1> DEFINE w == Cardinality(Waiting)  h == Cardinality(Holding)  n == Cardinality(Tasks)  w2 == Cardinality(Waiting')
<1>1. t \in Tasks \ (Waiting \cup Holding) /\ Waiting \cap Holding = {}
  BY DEF Waiting, Holding
<1>2. Waiting' = Waiting \cup {t} /\ Holding' = Holding /\ (LoggedOff' => LoggedOff)
  BY <1>1, Moved DEF RInv
<1>3. ~ LoggedOff
  BY CallIsSound DEF LoggedOff, Credited, RInv
<1>4. n \in Nat /\ w \in Nat /\ h \in Nat /\ issued \in Nat /\ faults \in Nat /\ IsFiniteSet(Waiting)
  BY Counts DEF RInv, CInv, VarsTyped
<1>5. w2 = w + 1
  BY <1>1, <1>2, <1>4, FS_AddElement
<1>6. w + h < n
  BY <1>1, Disjoint DEF Waiting, Holding
<1>7. issued <= h + faults
  BY DEF RInv, Sessions
<1>8. UNCHANGED <<issued, token, closed, faults>>
  BY DEF pdu
<1> HIDE DEF w, h, n, w2
<1>9. issued + w2 <= n + faults
  BY <1>4, <1>5, <1>6, <1>7
<1>10. Cardinality(Holding') = h
  BY <1>2 DEF h
<1>11. QED
  BY <1>2, <1>3, <1>7, <1>8, <1>9, <1>10 DEF Sessions, w2, n

LEMMA BeginSessions ==
  ASSUME RInv, NEW t \in Tasks, NEW c \in Call, Begin(t, c), c.result = "none", CInv'
  PROVE  Sessions'
<1>1. PICK e : e = Rpc(c, token) /\ Become(t, e)
  BY DEF Begin
<1>2. closed \in BOOLEAN /\ token \in Nat /\ issued \in Nat
  BY DEF RInv, CInv, VarsTyped
<1>3. /\ e.reply = "none"
      /\ closed => e.pc = "returned"
      /\ ~ closed => e.pc = IF token = 0 THEN "login" ELSE IF c.index = 0 THEN "list" ELSE "command"
  BY <1>1, <1>2, RpcIs
<1>4. UNCHANGED <<name, live, issued, token, closed, faults>> /\ call[t].pc = "idle"
  BY DEF Begin, pdu
<1>5. CASE token = 0 /\ ~ closed
  BY <1>1, <1>3, <1>4, <1>5, LoginBegins DEF pdu
<1>6. CASE ~ (token = 0 /\ ~ closed)
  BY <1>1, <1>3, <1>4, <1>6, NoLogin
<1>7. QED
  BY <1>5, <1>6

LEMMA CallsSessions ==
  ASSUME RInv, NEW t \in Tasks, Calls(t), CInv'
  PROVE  Sessions'
<1>1. ASSUME NEW i \in Labels, CallIndex(t, i) PROVE Sessions'
  <2> DEFINE c == [Idle EXCEPT !.index = i]
  <2>1. c \in Call /\ c.result = "none"
    BY IdleIs, RaritanAssumption DEF Call, Labels
  <2>2. Begin(t, c)
    BY <1>1 DEF CallIndex
  <2> HIDE DEF c
  <2>3. QED
    BY <2>1, <2>2, BeginSessions
<1>2. ASSUME NEW n \in Names, CallName(t, n) PROVE Sessions'
  <2> DEFINE now == {i \in Labels : name[i] = n}
             c == [Idle EXCEPT !.name = n, !.kept = now, !.had = now]
  <2>1. c \in Call /\ c.result = "none"
    BY IdleIs DEF Call
  <2>2. Begin(t, c)
    BY <1>2 DEF CallName
  <2> HIDE DEF c
  <2>3. QED
    BY <2>1, <2>2, BeginSessions
<1>3. ASSUME CallRead(t) PROVE Sessions'
  BY <1>3, IdleIs, BeginSessions DEF CallRead
<1>4. ASSUME Close(t) PROVE Sessions'
  <2>1. PICK c : /\ Become(t, c)
                 /\ c = IF token = 0 THEN Ended(Idle, "closed")
                        ELSE [Idle EXCEPT !.pc = "logout", !.cred = token]
    BY <1>4 DEF Close
  <2>2. /\ UNCHANGED <<name, live, issued, token, faults>> /\ ~ closed
        /\ (closed' <=> token = 0) /\ call[t].pc = "idle"
    <3>1. (closed' = (token = 0)) /\ ~ closed
      BY <1>4 DEF Close
    <3>2. UNCHANGED <<name, live, issued, token, faults>> /\ call[t].pc = "idle"
      BY <1>4 DEF Close, pdu
    <3>3. QED
      BY <3>1, <3>2
  <2>3. CASE token = 0
    <3> DEFINE w == Cardinality(Waiting)  h == Cardinality(Holding)  n == Cardinality(Tasks)
    <3>1. c.pc = "returned"
      BY <2>1, <2>3, IdleIs, EndedIs DEF Results
    <3>2. t \in Tasks \ (Waiting \cup Holding) /\ Waiting \cap Holding = {}
      BY <2>2 DEF Waiting, Holding
    <3>3. Waiting' = Waiting
      BY <2>1, <3>1, <3>2, Moved DEF RInv
    <3>4. n \in Nat /\ w \in Nat /\ h \in Nat /\ issued \in Nat /\ faults \in Nat
      BY Counts DEF RInv, CInv, VarsTyped
    <3>5. w + h < n
      BY <3>2, Disjoint DEF Waiting, Holding
    <3>6. issued <= h + faults
      BY <2>2, <2>3 DEF RInv, Sessions
    <3>7. Cardinality(Waiting') = w
      BY <3>3
    <3> HIDE DEF w, h, n
    <3>8. issued + w < n + faults
      BY <3>4, <3>5, <3>6
    <3>9. issued + w <= n + faults
      BY <3>4, <3>8
    <3>10. QED
      BY <2>2, <2>3, <3>7, <3>8, <3>9 DEF Sessions, Spared, n
  <2>4. CASE token # 0
    <3>1. c = [Idle EXCEPT !.pc = "logout", !.cred = token]
      BY <2>1, <2>4
    <3>2. c.pc = "logout" /\ c.reply = "none"
      BY <3>1, IdleIs DEF Call
    <3>3. QED
      BY <2>1, <2>2, <2>4, <3>2, NoLogin
  <2>5. QED
    BY <2>3, <2>4
<1>5. QED
  BY <1>1, <1>2, <1>3, <1>4 DEF Calls

LEMMA ResumeSessions ==
  ASSUME RInv, NEW t \in Tasks, Resume(t), CInv'
  PROVE  Sessions'
<1>0. /\ call[t] \in Call /\ token \in Nat /\ closed \in BOOLEAN /\ issued \in Nat /\ call[t].cred \in Nat
      /\ {"ok", "raised", "KeyError", "closed"} \subseteq Results
  BY CallIsSound DEF RInv, CInv, VarsTyped, Results, Call
<1>1. ASSUME LoggedIn(t) PROVE Sessions'
  <2>1. PICK c : c = Rpc(call[t], call[t].cred) /\ Become(t, c)
    BY <1>1 DEF LoggedIn
  <2>2. UNCHANGED <<name, live, issued, closed, faults>> /\ token' # 0 /\ call[t].cred # 0
    BY <1>1, CallIsSound DEF LoggedIn, Got, Credited, RInv, pdu
  <2>3. c.reply = "none" /\ (closed => c.pc = "returned") /\ (~ closed => c.pc \in {"list", "command"})
    BY <1>0, <2>1, <2>2, RpcIs
  <2>4. QED
    BY <2>1, <2>2, <2>3, NoLogin
<1>2. ASSUME Listed(t) PROVE Sessions'
  <2>1. UNCHANGED <<name, live, issued, token, closed, faults>> /\ t \notin Holding /\ token # 0
    BY <1>2, CallIsSound DEF Listed, Got, Credited, RInv, pdu, Holding
  <2>2. ASSUME NEW c, Become(t, c), c.pc \in {"returned", "list", "command"} PROVE Sessions'
    BY <2>1, <2>2, NoLogin
  <2>3. ASSUME NEW r \in Results, Become(t, Ended(call[t], r)) PROVE Sessions'
    BY <1>0, <2>2, <2>3, EndedIs
  <2>4. ASSUME NEW i \in Matches(call[t]), Become(t, Rpc([call[t] EXCEPT !.index = i], token)) PROVE Sessions'
    <3> DEFINE c == [call[t] EXCEPT !.index = i]
    <3>1. i \in 0..Outlets
      BY RaritanAssumption DEF Matches, Labels
    <3>2. c \in Call
      BY <1>0, <3>1 DEF Call
    <3> HIDE DEF c
    <3>3. PICK e : e = Rpc(c, token) /\ Become(t, e)
      BY <2>4 DEF c
    <3>4. e.pc \in {"returned", "list", "command"}
      BY <1>0, <2>1, <3>2, <3>3, RpcIs
    <3>5. QED
      BY <2>2, <3>3, <3>4
  <2>5. QED
    BY <1>0, <1>2, <2>3, <2>4 DEF Listed
<1>3. ASSUME CommandDone(t) \/ Fails(t) \/ LoggedOut(t) PROVE Sessions'
  <2>1. PICK c : /\ Become(t, c) /\ c.pc = "returned"
    BY <1>0, <1>3, EndedIs DEF CommandDone, Fails, LoggedOut
  <2>2. /\ UNCHANGED <<name, live, issued, token, faults>> /\ (closed' => closed \/ LoggedOff)
        /\ (~ closed' => ~ closed)
    BY <1>3 DEF CommandDone, Fails, LoggedOut, pdu, LoggedOff
  <2>3. t \in Holding => FALSE
    BY <1>3 DEF CommandDone, Fails, LoggedOut, Got, Holding
  <2>4. QED
    BY <2>1, <2>2, <2>3, NoLogin
<1>4. QED
  BY <1>1, <1>2, <1>3 DEF Resume

LEMMA CancelTakeLoseSessions ==
  ASSUME RInv, NEW t \in Tasks, Cancel(t) \/ Take(t) \/ Lose(t), CInv'
  PROVE  Sessions'
<1>0. /\ call[t] \in Call /\ {"cancelled"} \subseteq Results /\ {"lost"} \subseteq Replies
  BY CallIsSound DEF RInv, Results, Replies
<1>1. ASSUME Cancel(t) PROVE Sessions'
  <2>1. PICK c : /\ Become(t, c) /\ c.pc = "returned"
    BY <1>0, <1>1, EndedIs DEF Cancel
  <2>2. UNCHANGED <<name, live, issued, token, closed>> /\ faults' = faults + 1
    BY <1>1 DEF Cancel, Fault, pdu
  <2>3. QED
    BY <2>1, <2>2, NoLogin
<1>2. ASSUME Take(t) PROVE Sessions'
  <2>1. UNCHANGED <<name, live, issued, token, closed, faults>> /\ t \notin Holding
    BY <1>2 DEF Take, pdu, Holding
  <2>2. Become(t, Idle)
    BY <1>2 DEF Take
  <2>3. QED
    BY <2>1, <2>2, IdleIs, NoLogin
<1>3. ASSUME Lose(t) PROVE Sessions'
  <2>1. PICK c : /\ Become(t, c) /\ c.reply = "lost"
    <3>1. Answer(t, "lost") \in Call /\ Answer(t, "lost").reply = "lost"
      BY <1>0, AnswerIs
    <3>2. Met(Answer(t, "lost")).reply = "lost"
      BY <3>1, MetIs
    <3>3. QED
      BY <1>3, <3>1, <3>2 DEF Lose
  <2>2. /\ UNCHANGED <<name, live, issued, token, closed>>
        /\ (closed /\ faults' = faults) \/ (~ closed /\ faults' = faults + 1)
    BY <1>3 DEF Lose, Fault, pdu
  <2>3. QED
    BY <2>1, <2>2, NoLogin
<1>4. QED
  BY <1>1, <1>2, <1>3

LEMMA ServeLoginSessions ==
  ASSUME RInv, NEW t \in Tasks, ServeLogin(t), CInv'
  PROVE  Sessions'
<1> DEFINE w == Cardinality(Waiting)   w2 == Cardinality(Waiting')
           h == Cardinality(Holding)   h2 == Cardinality(Holding')  n == Cardinality(Tasks)
<1>1. PICK c : Become(t, c) /\ c.pc = "login" /\ c.reply = "ok"
  <2>1. call[t] \in Call /\ "ok" \in Replies
    BY CallIsSound DEF RInv, Replies
  <2>2. Answer(t, "ok") \in Call /\ Answer(t, "ok").reply = "ok" /\ Answer(t, "ok").pc = "login"
    BY <2>1, AnswerIs DEF ServeLogin, Got
  <2>3. QED
    BY <2>2 DEF ServeLogin, Call
<1>2. t \in Waiting /\ t \notin Holding
  BY DEF ServeLogin, Got, Waiting, Holding
<1>3. Waiting' = Waiting \ {t} /\ Holding' = Holding \cup {t} /\ (LoggedOff' => LoggedOff)
  BY <1>1, <1>2, Moved DEF RInv
<1>4. /\ n \in Nat /\ w \in Nat /\ h \in Nat /\ issued \in Nat /\ faults \in Nat
      /\ IsFiniteSet(Waiting) /\ IsFiniteSet(Holding)
  BY Counts DEF RInv, CInv, VarsTyped
<1>5. w2 = w - 1 /\ h2 = h + 1
  BY <1>2, <1>3, <1>4, FS_AddElement, FS_RemoveElement
<1>6. issued' = issued + 1 /\ UNCHANGED <<token, closed, faults>> /\ live' = live \cup {issued + 1}
  BY DEF ServeLogin
<1>7. /\ token = 0 /\ ~ closed => issued <= h + faults
      /\ issued + w <= n + faults
      /\ closed \/ LoggedOff => issued + w < n + faults \/ live # 1..issued
  BY DEF RInv, Sessions, Spared
<1>8. live # 1..issued => live' # 1..(issued + 1)
  <2>1. live \subseteq 1..issued
    BY DEF RInv, CInv, VarsTyped
  <2>2. live' = 1..(issued + 1) => live = 1..issued
    <3> SUFFICES ASSUME live \cup {issued + 1} = 1..(issued + 1), NEW x \in 1..issued PROVE x \in live
      BY <1>6, <2>1
    <3>1. x \in 1..(issued + 1) /\ x # issued + 1
      BY <1>4
    <3>2. QED
      BY <3>1
  <2>3. QED
    BY <2>2
<1> HIDE DEF w, w2, h, h2, n
<1>9. /\ token = 0 /\ ~ closed => issued + 1 <= h2 + faults
      /\ issued + 1 + w2 <= n + faults
      /\ issued + w < n + faults => issued + 1 + w2 < n + faults
  BY <1>4, <1>5, <1>7
<1>10. QED
  BY <1>3, <1>6, <1>7, <1>8, <1>9 DEF Sessions, Spared, w2, h2, n

LEMMA ServeSessions ==
  ASSUME RInv, NEW t \in Tasks, Serve(t), CInv'
  PROVE  Sessions'
<1>0. call[t] \in Call /\ {"ok", "refused"} \subseteq Replies
  BY CallIsSound DEF RInv, Replies
<1>a. ASSUME NEW r \in {"ok", "refused"}
      PROVE  Answer(t, r) \in Call /\ Answer(t, r).pc = call[t].pc /\ Answer(t, r).reply = r
             /\ Answer(t, r).index = call[t].index
  BY <1>0, AnswerIs
<1>1. ASSUME ServeList(t) PROVE Sessions'
  <2>1. PICK c : Become(t, c) /\ c.pc = "list"
    BY <1>a, <1>1 DEF ServeList, Got, Call
  <2>2. UNCHANGED <<name, live, issued, token, closed, faults>> /\ t \notin Holding
    BY <1>1 DEF ServeList, Got, pdu, Holding
  <2>3. QED
    BY <2>1, <2>2, NoLogin
<1>2. ASSUME ServeCommand(t) PROVE Sessions'
  <2>1. call[t].pc = "command" /\ call[t].index # 0
    BY <1>2, CallIsSound DEF ServeCommand, Got, Aimed, RInv
  <2>2. \A r \in {"ok", "refused"} : /\ Reaching(Answer(t, r)) \in Call /\ Reaching(Answer(t, r)).pc = "command"
                                     /\ Met(Reaching(Answer(t, r))).pc = "command"
    <3> SUFFICES ASSUME NEW r \in {"ok", "refused"}
                 PROVE  /\ Reaching(Answer(t, r)) \in Call /\ Reaching(Answer(t, r)).pc = "command"
                        /\ Met(Reaching(Answer(t, r))).pc = "command"
      OBVIOUS
    <3>1. Reaching(Answer(t, r)) \in Call /\ Reaching(Answer(t, r)).pc = "command"
      BY <1>a, <2>1, ReachingIs
    <3>2. QED
      BY <3>1, MetIs
  <2>3. PICK c : Become(t, c) /\ c.pc = "command"
    BY <1>2, <2>2 DEF ServeCommand
  <2>4. UNCHANGED <<name, live, issued, token, closed>> /\ t \notin Holding /\ faults' \in {faults, faults + 1}
    BY <1>2 DEF ServeCommand, Got, pdu, Holding, Fault
  <2>5. QED
    BY <2>3, <2>4, NoLogin
<1>3. ASSUME ServeLogout(t) PROVE Sessions'
  <2>1. PICK c : Become(t, c) /\ c.pc = "logout"
    BY <1>a, <1>3 DEF ServeLogout, Got
  <2>2. /\ UNCHANGED <<name, issued, token, closed, faults>> /\ t \notin Holding
        /\ live' = live \ {call[t].cred}
    BY <1>3 DEF ServeLogout, Got, Holding
  <2>3. live' # 1..issued
    <3>1. call[t].cred \in 1..issued
      BY <1>0, <1>3, CallIsSound DEF ServeLogout, Got, Credited, RInv, CInv, VarsTyped, Call
    <3>2. QED
      BY <2>2, <3>1
  <2>4. QED
    BY <2>1, <2>2, <2>3, NoLogin
<1>4. ASSUME Refuse(t) PROVE Sessions'
  <2>1. PICK c : Become(t, c) /\ c.pc = call[t].pc /\ c.reply = "refused"
    <3>1. Met(Answer(t, "refused")).pc = call[t].pc /\ Met(Answer(t, "refused")).reply = "refused"
      BY <1>a, MetIs
    <3>2. QED
      BY <1>a, <1>4, <3>1 DEF Refuse
  <2>2. UNCHANGED <<name, live, issued, token, closed>> /\ t \notin Holding /\ faults' \in {faults, faults + 1}
    BY <1>4 DEF Refuse, pdu, Holding, Fault
  <2>3. c.pc = "logout" => faults' = faults + 1 \/ live' # 1..issued
    <3>1. ASSUME c.pc = "logout", call[t].cred \notin live PROVE live # 1..issued
      <4>1. call[t].cred \in 1..issued
        <5>1. call[t].pc = "logout" /\ call[t].cred # 0 /\ call[t].cred <= issued
          BY <2>1, <3>1, CallIsSound DEF Credited, RInv
        <5>2. call[t].cred \in Nat /\ issued \in Nat
          BY <1>0 DEF Call, RInv, CInv, VarsTyped
        <5>3. QED
          BY <5>1, <5>2
      <4>2. QED
        BY <3>1, <4>1
    <3>2. c.pc = "logout" /\ call[t].cred \in live => faults' = faults + 1
      BY <1>4, <2>1 DEF Refuse, Fault
    <3>3. QED
      BY <2>2, <3>1, <3>2
  <2>4. QED
    BY <2>1, <2>2, <2>3, NoLogin
<1>5. QED
  BY <1>1, <1>2, <1>3, <1>4, ServeLoginSessions DEF Serve

LEMMA RInvInit == Init => RInv
<1> SUFFICES ASSUME Init PROVE RInv
  OBVIOUS
<1>1. CInv
  BY CInvInit
<1>2. Waiting = {} /\ Holding = {} /\ ~ LoggedOff
  BY IdleIs DEF Init, Waiting, Holding, LoggedOff
<1>3. Cardinality(Waiting) = 0 /\ Cardinality(Holding) = 0 /\ Cardinality(Tasks) \in Nat
  BY <1>2, FS_EmptySet, RaritanAssumption, FS_CardinalityType
<1>4. issued = 0 /\ faults = 0 /\ ~ closed
  BY DEF Init
<1>5. QED
  BY <1>1, <1>2, <1>3, <1>4 DEF RInv, Sessions

LEMMA RInvStep == RInv /\ [Next]_vars => RInv'
<1> SUFFICES ASSUME RInv, [Next]_vars PROVE RInv'
  OBVIOUS
<1>0. CInv'
  BY CInvStep DEF RInv
<1>1. ASSUME NEW t \in Tasks, Calls(t) \/ Resume(t) \/ Serve(t) \/ Lose(t) \/ Cancel(t) \/ Take(t) PROVE Sessions'
  BY <1>0, <1>1, CallsSessions, ResumeSessions, ServeSessions, CancelTakeLoseSessions
<1>2. ASSUME NEW s \in live, Expire(s) PROVE Sessions'
  BY <1>2, NoMove DEF Expire, Fault
<1>3. ASSUME NEW i \in Labels, NEW n \in Names, Rename(i, n) PROVE Sessions'
  <2>1. UNCHANGED <<live, issued, token, closed, faults>>
    BY <1>3 DEF Rename
  <2>2. ASSUME NEW t \in Tasks PROVE call'[t].pc = call[t].pc /\ call'[t].reply = call[t].reply
    BY <1>3, CallIsSound DEF Rename, RInv, Call
  <2>3. QED
    BY <2>1, <2>2, NoMove
<1>4. ASSUME UNCHANGED vars PROVE Sessions'
  BY <1>4, NoMove DEF vars
<1>5. QED
  BY <1>0, <1>1, <1>2, <1>3, <1>4 DEF Next, RInv

\* Once the client is closed and every call is over, at most one session for
\* each other task, and one for every fault, is left on the PDU.
THEOREM SessionsReleasedHolds == Spec => []SessionsReleased
<1>1. RInv => SessionsReleased
  <2> SUFFICES ASSUME RInv, closed, Quiet PROVE Cardinality(live) <= Cardinality(Tasks) - 1 + faults
    BY DEF SessionsReleased
  <2> DEFINE l == Cardinality(live)  n == Cardinality(Tasks)
  <2>1. Waiting = {}
    BY DEF Quiet, Waiting
  <2>2. Cardinality(Waiting) = 0
    BY <2>1, FS_EmptySet
  <2>3. n \in Nat /\ issued \in Nat /\ faults \in Nat /\ live \subseteq 1..issued
    BY Counts DEF RInv, CInv, VarsTyped
  <2>4. IsFiniteSet(1..issued) /\ Cardinality(1..issued) = issued
    BY <2>3, FS_Interval
  <2>5. l \in Nat /\ l <= issued /\ (l = issued => live = 1..issued)
    BY <2>3, <2>4, FS_Subset, FS_CardinalityType
  <2>6. issued <= n + faults /\ (issued < n + faults \/ live # 1..issued)
    BY <2>2, <2>3 DEF RInv, Sessions, Spared
  <2> HIDE DEF l, n
  <2>7. l <= n - 1 + faults
    BY <2>3, <2>5, <2>6
  <2>8. QED
    BY <2>7 DEF l, n
<1>2. QED
  BY <1>1, RInvInit, RInvStep, PTL DEF Spec
=============================================================================
