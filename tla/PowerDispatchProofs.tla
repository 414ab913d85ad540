------------------------- MODULE PowerDispatchProofs -------------------------
(***************************************************************************)
(* Proofs about PowerDispatch and the outlets under it, for any number of  *)
(* outlets, names, verbs, resends, losses, errors, renames and failures.   *)
(***************************************************************************)
EXTENDS PowerDispatch, TLAPS

\* Of what the walk has read and of what the outlets are called now: who has
\* kept the name is called so, and whoever is called so is among those who had
\* it.
Names0 ==
  /\ \A i \in 1..Len(found) : /\ found[i] = call.name => i \in had
                              /\ i \in kept => found[i] = call.name
  /\ \A i \in Indices : /\ i \in kept => name[i] = call.name
                        /\ name[i] = call.name => i \in had

\* The command is for one outlet, looked up before the first request.
Aimed ==
  /\ pc \in {"idle", "names", "columns"} => sets = <<>>
  /\ pc \in {"request", "answer"} /\ call.name # NoName => call.index \in had
  /\ \A k \in 1..Len(sets) : sets[k] = call.index /\ (call.name # NoName => sets[k] \in had)

\* Every send is answered, or lost and counted; what ended a walk early is on
\* record.
Counted ==
  /\ pc # "idle" => lost + tries >= Resends
  /\ pc = "columns" => Len(found) = Outlets \/ Struck
  /\ pc = "request" => Len(sets) + tries <= Resends
  /\ pc = "answer" => Len(sets) + tries <= Resends + 1
  /\ pc = "returned" => Len(sets) <= Resends + 1

Ended ==
  /\ pc = "idle" => call = NoCall /\ found = <<>>
  /\ result = "none" <=> pc # "returned"
  /\ pc = "answer" \/ result = "ok" => call.cmd = "state" \/ sets # <<>>
  /\ result = "KeyError" => kept = {} \/ Struck
  /\ result = "listed" => Len(found) = Outlets \/ Struck
  /\ result = "RuntimeError" => Struck

PInv == PTypeOK /\ Names0 /\ Aimed /\ Counted /\ Ended

-----------------------------------------------------------------------------
\* The outlets keep PInv, whoever calls.

LEMMA PInvInit == PInit => PInv
  BY PduAssumption DEF PInit, PInv, PTypeOK, Names0, Aimed, Counted, Ended, NoCall, Indices, Cmds, Results, Pcs, Struck

LEMMA CallPduInv ==
  ASSUME PInv, NEW c \in Calls, CallPdu(c)
  PROVE  PInv'
  <1> USE PduAssumption DEF CallPdu, Sent, Named, walks, Calls, ByIndex, ByName, NoCall, Indices
  <1>1. PTypeOK'
    BY DEF PInv, PTypeOK, Cmds, Results, Pcs
  <1>2. Names0'
    BY DEF PInv, PTypeOK, Names0, Aimed, Ended, Struck
  <1>3. Aimed'
    BY DEF PInv, PTypeOK, Aimed, Ended, Struck
  <1>4. Counted'
    BY DEF PInv, PTypeOK, Aimed, Counted, Ended, Struck
  <1>5. Ended'
    BY DEF PInv, PTypeOK, Aimed, Ended, Struck
  <1> QED BY <1>1, <1>2, <1>3, <1>4, <1>5 DEF PInv

LEMMA TakeInv ==
  ASSUME PInv, Take
  PROVE  PInv'
  <1> USE PduAssumption DEF Take, NoCall, walks, ghosts, Indices
  <1>1. PTypeOK'
    BY DEF PInv, PTypeOK, Cmds, Results, Pcs
  <1>2. Names0'
    BY DEF PInv, PTypeOK, Names0, Ended, Struck
  <1>3. Aimed'
    BY DEF PInv, PTypeOK, Names0, Aimed, Ended, Struck
  <1>4. Counted'
    BY DEF PInv, PTypeOK, Aimed, Counted, Ended, Struck
  <1>5. Ended'
    BY DEF PInv, PTypeOK, Names0, Aimed, Counted, Ended, Struck
  <1> QED BY <1>1, <1>2, <1>3, <1>4, <1>5 DEF PInv

LEMMA WalkNameInv ==
  ASSUME PInv, WalkName
  PROVE  PInv'
  <1> USE PduAssumption DEF WalkName, Sent, walks, ghosts, Indices
  <1>1. PTypeOK'
    BY DEF PInv, PTypeOK, Cmds, Results, Pcs
  <1>2. Names0'
    BY DEF PInv, PTypeOK, Names0, Ended, Struck
  <1>3. Aimed'
    BY DEF PInv, PTypeOK, Names0, Aimed, Ended, Struck
  <1>4. Counted'
    BY DEF PInv, PTypeOK, Aimed, Counted, Ended, Struck
  <1>5. Ended'
    BY DEF PInv, PTypeOK, Names0, Aimed, Counted, Ended, Struck
  <1> QED BY <1>1, <1>2, <1>3, <1>4, <1>5 DEF PInv

LEMMA WalkColumnInv ==
  ASSUME PInv, WalkColumn
  PROVE  PInv'
  <1> USE PduAssumption DEF WalkColumn, Sent, walks, ghosts, Indices
  <1>1. PTypeOK'
    BY DEF PInv, PTypeOK, Cmds, Results, Pcs
  <1>2. Names0'
    BY DEF PInv, PTypeOK, Names0, Ended, Struck
  <1>3. Aimed'
    BY DEF PInv, PTypeOK, Names0, Aimed, Ended, Struck
  <1>4. Counted'
    BY DEF PInv, PTypeOK, Aimed, Counted, Ended, Struck
  <1>5. Ended'
    BY DEF PInv, PTypeOK, Names0, Aimed, Counted, Ended, Struck
  <1> QED BY <1>1, <1>2, <1>3, <1>4, <1>5 DEF PInv

LEMMA ExecutesInv ==
  ASSUME PInv, Executes
  PROVE  PInv'
  <1> USE PduAssumption DEF Executes, walks, ghosts, Indices
  <1> DEFINE i == call.index
  <1>1. /\ sets \in Seq(1..Outlets) /\ i \in 1..Outlets /\ Len(sets) \in Nat
        /\ \A k \in 1..Len(sets) : sets[k] = i
    BY DEF PInv, PTypeOK, Aimed
  <1> HIDE DEF i
  <1>2. /\ Append(sets, i) \in Seq(1..Outlets) /\ Len(Append(sets, i)) = Len(sets) + 1
        /\ Append(sets, i) # <<>>
        /\ \A k \in 1..(Len(sets) + 1) : Append(sets, i)[k] = i
    <2>1. Append(sets, i) \in Seq(1..Outlets) /\ Len(Append(sets, i)) = Len(sets) + 1
      BY <1>1
    <2>2. Append(sets, i) # <<>>
      BY <1>1, <2>1
    <2>3. \A k \in 1..(Len(sets) + 1) : Append(sets, i)[k] = i
      BY <1>1
    <2> QED BY <2>1, <2>2, <2>3
  <1>3. \/ sets' = sets /\ call.cmd = "state"
        \/ sets' = Append(sets, i)
    BY DEF i
  <1>4. PTypeOK'
    BY <1>1, <1>2, <1>3 DEF PInv, PTypeOK, Cmds, Results, Pcs
  <1>5. Names0'
    BY DEF PInv, PTypeOK, Names0
  <1>6. Aimed'
    BY <1>1, <1>2, <1>3 DEF PInv, PTypeOK, Aimed, i
  <1>7. Counted'
    BY <1>1, <1>2, <1>3 DEF PInv, PTypeOK, Counted, Struck
  <1>8. Ended'
    BY <1>1, <1>2, <1>3 DEF PInv, PTypeOK, Ended, Struck
  <1> QED BY <1>4, <1>5, <1>6, <1>7, <1>8 DEF PInv

LEMMA AnsweredInv ==
  ASSUME PInv, Answered
  PROVE  PInv'
  <1> USE PduAssumption DEF Answered, Return, walks, ghosts, Indices
  <1>1. PTypeOK'
    BY DEF PInv, PTypeOK, Cmds, Results, Pcs
  <1>2. Names0'
    BY DEF PInv, PTypeOK, Names0, Ended, Struck
  <1>3. Aimed'
    BY DEF PInv, PTypeOK, Names0, Aimed, Ended, Struck
  <1>4. Counted'
    BY DEF PInv, PTypeOK, Aimed, Counted, Ended, Struck
  <1>5. Ended'
    BY DEF PInv, PTypeOK, Names0, Aimed, Counted, Ended, Struck
  <1> QED BY <1>1, <1>2, <1>3, <1>4, <1>5 DEF PInv

LEMMA ResendInv ==
  ASSUME PInv, Resend
  PROVE  PInv'
  <1> USE PduAssumption DEF Resend, Loses, Trouble, walks, ghosts, Indices
  <1>1. PTypeOK'
    BY DEF PInv, PTypeOK, Cmds, Results, Pcs
  <1>2. Names0'
    BY DEF PInv, PTypeOK, Names0, Ended, Struck
  <1>3. Aimed'
    BY DEF PInv, PTypeOK, Names0, Aimed, Ended, Struck
  <1>4. Counted'
    BY DEF PInv, PTypeOK, Aimed, Counted, Ended, Struck
  <1>5. Ended'
    BY DEF PInv, PTypeOK, Names0, Aimed, Counted, Ended, Struck
  <1> QED BY <1>1, <1>2, <1>3, <1>4, <1>5 DEF PInv

\* A step that ends a walk or a request, at its end or at an error.
Over ==
  /\ UNCHANGED <<name, walks, renames, kept, had, sets>>
  /\ losses' \in 0..MaxLosses /\ lost' \in 0..losses' /\ lost <= lost'
  /\ errors' \in 0..losses' /\ errors <= errors'

LEMMA StruckStays ==
  ASSUME PTypeOK, Over, Struck
  PROVE  Struck'
  <1>1. CASE errors > 0
    <2>1. errors \in Nat /\ errors' \in Nat
      BY DEF PTypeOK, Over
    <2>2. errors' > 0
      BY <1>1, <2>1 DEF Over
    <2> QED BY <2>2 DEF Struck
  <1>2. CASE lost > Resends
    <2>1. lost \in Nat /\ lost' \in Nat /\ Resends \in Nat
      BY PduAssumption DEF PTypeOK, Over
    <2>2. lost' > Resends
      BY <1>2, <2>1 DEF Over
    <2> QED BY <2>2 DEF Struck
  <1> QED BY <1>1, <1>2 DEF Struck

LEMMA NamesOverInv ==
  ASSUME PInv, NamesOver, Over, Len(found) = Outlets \/ Struck'
  PROVE  PInv'
  <1> USE PduAssumption DEF NamesOver, Over, Sent, walks, Indices
  <1>1. PTypeOK'
    BY DEF PInv, PTypeOK, Cmds, Results, Pcs
  <1>2. Names0'
    BY DEF PInv, PTypeOK, Names0
  <1>3. Aimed'
    BY DEF PInv, PTypeOK, Aimed
  <1>4. Counted'
    <2>1. lost' \in Nat /\ tries' = Resends /\ Resends \in Nat /\ pc' = "columns"
      BY DEF PInv, PTypeOK
    <2>2. \A a, b \in Nat : a + b >= b
      OBVIOUS
    <2>3. lost' + tries' >= Resends
      BY <2>1, <2>2
    <2> QED BY <2>1, <2>3 DEF Counted, Struck
  <1>5. Ended'
    BY DEF PInv, PTypeOK, Ended, Struck
  <1> QED BY <1>1, <1>2, <1>3, <1>4, <1>5 DEF PInv

LEMMA ColumnsOverInv ==
  ASSUME PInv, ColumnsOver, Over
  PROVE  PInv'
  <1> USE PduAssumption DEF Over, walks, Indices
  <1>1. /\ PTypeOK /\ Names0 /\ pc = "columns" /\ Len(found) \in 0..Outlets
        /\ sets = <<>> /\ result = "none"
        /\ lost \in Nat /\ lost' \in Nat /\ tries \in Nat /\ lost + tries >= Resends
        /\ Len(found) = Outlets \/ Struck'
    <2>1. PTypeOK /\ Names0 /\ Aimed /\ Counted /\ Ended /\ pc = "columns"
      BY DEF ColumnsOver, PInv
    <2>2. sets = <<>> /\ result = "none"
      BY <2>1 DEF Aimed, Ended
    <2>3. lost + tries >= Resends /\ (Len(found) = Outlets \/ Struck)
      BY <2>1 DEF Counted
    <2>4. Len(found) \in 0..Outlets
      BY <2>1 DEF PTypeOK
    <2>5. lost \in Nat /\ lost' \in Nat /\ tries \in Nat
      BY <2>1 DEF PTypeOK
    <2> QED BY <2>1, <2>2, <2>3, <2>4, <2>5, StruckStays
  <1>2. Len(sets) = 0 /\ Len(sets') = 0 /\ Len(sets') <= Resends + 1
    BY <1>1
  <1>3. lost' + tries >= Resends
    <2>1. \A a, b, c, d \in Nat : a <= b /\ a + c >= d => b + c >= d
      OBVIOUS
    <2> QED BY <1>1, <2>1
  <1>4. CASE Return("listed")
    <2> USE <1>4 DEF Return
    <2>1. PTypeOK' /\ Names0' /\ Aimed'
      BY <1>1, <1>2 DEF PTypeOK, Names0, Aimed, Results, Pcs
    <2>2. Counted'
      <3>1. tries' = tries /\ pc' = "returned"
        OBVIOUS
      <3> QED BY <1>2, <1>3, <3>1 DEF Counted, Struck
    <2>3. Ended'
      BY <1>1 DEF Ended, Struck
    <2> QED BY <2>1, <2>2, <2>3 DEF PInv
  <1>5. CASE Matches = {} /\ Return("KeyError")
    <2> USE <1>5 DEF Return
    <2>1. PTypeOK' /\ Names0' /\ Aimed'
      BY <1>1, <1>2 DEF PTypeOK, Names0, Aimed, Results, Pcs
    <2>2. kept = {} \/ Struck'
      BY <1>1 DEF PTypeOK, Names0, Matches
    <2>3. Counted'
      <3>1. tries' = tries /\ pc' = "returned"
        OBVIOUS
      <3> QED BY <1>2, <1>3, <3>1 DEF Counted, Struck
    <2>4. Ended'
      BY <1>1, <2>2 DEF Ended, Struck
    <2> QED BY <2>1, <2>3, <2>4 DEF PInv
  <1>6. ASSUME NEW i \in Matches, call' = [call EXCEPT !.index = i], pc' = "request", Sent,
               UNCHANGED result
        PROVE  PInv'
    <2> USE <1>6 DEF Sent
    <2>1. i \in 1..Outlets /\ i \in had
      BY <1>1 DEF Matches, Names0
    <2>2. call'.name = call.name /\ call'.cmd = call.cmd /\ call'.index = i
      BY <1>1 DEF PTypeOK
    <2>3. PTypeOK'
      <3>1. call' \in [cmd : Cmds \cup {"list"}, name : Names \cup {NoName}, index : 1..Outlets]
        BY <1>1, <2>1 DEF PTypeOK
      <3> QED BY <1>1, <3>1 DEF PTypeOK, Pcs
    <2>4. Names0' /\ Aimed'
      BY <1>1, <1>2, <2>1, <2>2 DEF PTypeOK, Names0, Aimed
    <2>5. Counted' /\ Ended'
      BY <1>1, <1>2 DEF Counted, Ended, Struck
    <2> QED BY <2>3, <2>4, <2>5 DEF PInv
  <1> QED BY <1>4, <1>5, <1>6 DEF ColumnsOver

LEMMA WalkEndsInv ==
  ASSUME PInv, WalkEnds
  PROVE  PInv'
  <1>1. Over
    BY DEF WalkEnds, Over, walks, ghosts, PInv, PTypeOK
  <1> QED BY <1>1, NamesOverInv, ColumnsOverInv DEF WalkEnds

LEMMA FailsInv ==
  ASSUME PInv, Fails, Over, Struck', pc \notin {"idle", "returned"}
  PROVE  PInv'
  <1> USE PduAssumption
  <1>1. CASE pc \in {"request", "answer"} /\ Return("RuntimeError")
    <2> USE <1>1 DEF Return, Over, walks, Indices
    <2>1. PTypeOK' /\ Names0' /\ Aimed'
      BY DEF PInv, PTypeOK, Names0, Aimed, Results, Pcs
    <2>2. lost \in Nat /\ lost' \in Nat /\ tries \in Nat /\ lost + tries >= Resends
      BY DEF PInv, PTypeOK, Counted, Struck
    <2>3. lost' + tries >= Resends
      <3>1. \A a, b, c, d \in Nat : a <= b /\ a + c >= d => b + c >= d
        OBVIOUS
      <3> QED BY <2>2, <3>1
    <2>4. Counted'
      <3>1. Len(sets) \in Nat /\ Len(sets) + tries <= Resends + 1 /\ sets' = sets
        BY DEF PInv, PTypeOK, Counted
      <3>2. Len(sets') <= Resends + 1 /\ pc' = "returned" /\ tries' = tries
        BY <2>2, <3>1
      <3> QED BY <2>3, <3>2 DEF Counted
    <2>5. Ended'
      BY DEF PInv, PTypeOK, Ended, Struck
    <2> QED BY <2>1, <2>4, <2>5 DEF PInv
  <1> QED BY <1>1, NamesOverInv, ColumnsOverInv DEF Fails

LEMMA GiveUpInv ==
  ASSUME PInv, GiveUp
  PROVE  PInv'
  <1> USE PduAssumption
  <1>1. PTypeOK /\ Loses /\ Fails /\ tries = 0
    BY DEF GiveUp, PInv
  <1>2. Over /\ pc \notin {"idle", "returned"}
    BY <1>1 DEF Loses, Trouble, Over, walks, PTypeOK
  <1>3. lost' > Resends
    BY <1>1 DEF Loses, Trouble, PInv, PTypeOK, Counted, Struck
  <1>4. Struck'
    BY <1>3 DEF Struck
  <1> QED BY <1>1, <1>2, <1>4, FailsInv

LEMMA ErrorAnswerInv ==
  ASSUME PInv, ErrorAnswer
  PROVE  PInv'
  <1> USE PduAssumption
  <1>1. PTypeOK /\ Trouble /\ Fails /\ errors' = errors + 1 /\ lost' = lost
    BY DEF ErrorAnswer, PInv
  <1>2. Over /\ pc \notin {"idle", "returned"}
    BY <1>1 DEF Trouble, Over, walks, PTypeOK
  <1>3. Struck'
    BY <1>1 DEF Struck, PTypeOK
  <1> QED BY <1>1, <1>2, <1>3, FailsInv

LEMMA RenameInv ==
  ASSUME PInv, NEW i \in Indices, NEW n \in Names, Rename(i, n)
  PROVE  PInv'
  <1> USE PduAssumption DEF Rename, walks, ghosts, Indices
  <1>1. PTypeOK'
    BY DEF PInv, PTypeOK, Cmds, Results, Pcs
  <1>2. Names0'
    BY DEF PInv, PTypeOK, Names0, Ended, Struck
  <1>3. Aimed'
    BY DEF PInv, PTypeOK, Names0, Aimed, Ended, Struck
  <1>4. Counted'
    BY DEF PInv, PTypeOK, Aimed, Counted, Ended, Struck
  <1>5. Ended'
    BY DEF PInv, PTypeOK, Names0, Aimed, Counted, Ended, Struck
  <1> QED BY <1>1, <1>2, <1>3, <1>4, <1>5 DEF PInv

LEMMA PduStepInv == PInv /\ (PduStep \/ Renames) => PInv'
  BY WalkNameInv, WalkColumnInv, WalkEndsInv, ExecutesInv, AnsweredInv, ResendInv, GiveUpInv,
     ErrorAnswerInv, RenameInv
     DEF PduStep, Renames

LEMMA PInvStutter == PInv /\ UNCHANGED pvars => PInv'
  BY DEF PInv, PTypeOK, Names0, Aimed, Counted, Ended, pvars, walks, ghosts, MatchesNext, Struck

\* The outlets of PInv are those of the properties.
LEMMA PInvExplains == PInv => PTypeOK /\ RightOutlet /\ CallExplained
  <1> SUFFICES ASSUME PInv PROVE PTypeOK /\ RightOutlet /\ CallExplained
    OBVIOUS
  <1>1. PTypeOK /\ Names0 /\ Aimed /\ Counted /\ Ended
    BY DEF PInv
  <1>2. RightOutlet
    BY <1>1 DEF RightOutlet, Aimed, PTypeOK
  <1>3. Len(sets) <= 1 + Resends
    BY <1>1, PduAssumption DEF Aimed, Counted, PTypeOK, Pcs, Struck
  <1> QED BY <1>1, <1>2, <1>3 DEF CallExplained, Ended, Struck

-----------------------------------------------------------------------------
\* power_action over the outlets

AdapterSet == {"redfish", "ipmi", "pdu"}

\* The transports before rank n that know the verb.
Behind(n) == {p \in Protocols \cap bmc.adapters : Knows(p, verb) /\ Rank[p] < n}

\* What the stage says of the other variables: nothing is left of the last
\* call at its beginning, the PDU is at work only where it is asked, and
\* whoever has the action is there, after every one before has failed.
Staged ==
  /\ stage \in {"idle", "direct"} => bmc.adapters = {} /\ acted = <<>> /\ failed = {}
  /\ stage # "replied" => reply = "none"
  /\ stage \in {"direct", "pduWait"} => pc # "idle"
  /\ pc # "idle" => stage \in {"direct", "pduWait", "replied"}
  /\ pc # "idle" /\ stage # "direct" => call.cmd \in {"on", "off", "cycle"}
  /\ \A p \in Protocols : stage = DoneBy[p] => Knows(p, verb) /\ \E k \in 1..Len(acted) : acted[k] = p
  /\ Turn \in AdapterSet => Turn \in bmc.adapters /\ failed = Behind(Rank[Turn])
  /\ reply = "pdu" => failed = Behind(3)

DInv == PInv /\ DTypeOK /\ Staged

LEMMA DInvInit == DInit => DInv
  <1> SUFFICES ASSUME DInit PROVE DInv
    OBVIOUS
  <1>1. PInv /\ PTypeOK
    BY PInvInit DEF DInit, PInv
  <1>2. NoBmc \in BmcConfigs /\ NoBmc.adapters = {}
    BY PduAssumption DEF NoBmc, BmcConfigs, Indices
  <1>3. DTypeOK
    BY <1>1, <1>2 DEF DInit, PInit, DTypeOK, Stages
  <1>4. Staged
    BY <1>2 DEF DInit, PInit, Staged, Turn, DoneBy, Protocols, AdapterSet
  <1> QED BY <1>1, <1>3, <1>4 DEF DInv

LEMMA PowerActionInv ==
  ASSUME DInv, NEW b \in BmcConfigs, NEW v \in Verbs, PowerAction(b, v)
  PROVE  DInv'
  <1> USE DEF PowerAction
  <1>1. PInv' /\ pc = "idle" /\ pc' = "idle"
    BY PInvStutter DEF DInv, Staged, pvars
  <1>2. b.adapters \subseteq AdapterSet
    BY DEF BmcConfigs, AdapterSet
  <1>3. DTypeOK'
    BY <1>1, <1>2 DEF DInv, DTypeOK, PInv, MoveOn, Stages, AdapterSet, pvars
  <1>4. Staged'
    <2>1. CASE stage' = "replied" /\ reply' = "raised"
      BY <1>1, <2>1 DEF DInv, Staged, Turn, DoneBy, Protocols, AdapterSet
    <2>2. CASE stage' \in b.adapters /\ (\A a \in b.adapters : Rank[stage'] <= Rank[a]) /\ UNCHANGED reply
      <3>1. stage' \in AdapterSet /\ Turn' = stage' /\ failed' = {} /\ reply' = "none"
        BY <1>2, <2>2 DEF DInv, Staged, AdapterSet, Turn
      <3>2. Behind(Rank[Turn])' = {}
        BY <1>2, <2>2, <3>1 DEF Behind, Rank, Protocols, AdapterSet
      <3> QED BY <1>1, <2>2, <3>1, <3>2 DEF Staged, AdapterSet, DoneBy, Protocols
    <2> QED BY <2>1, <2>2 DEF MoveOn
  <1> QED BY <1>1, <1>3, <1>4 DEF DInv

LEMMA ActsInv ==
  ASSUME DInv, NEW p \in Protocols, Acts(p)
  PROVE  DInv'
  <1> USE DEF Acts
  <1>1. PInv' /\ pc = "idle" /\ pc' = "idle"
    BY PInvStutter DEF DInv, Staged, pvars, Protocols
  <1>2. /\ acted' \in Seq(Protocols) /\ Len(acted') = Len(acted) + 1 /\ acted'[Len(acted')] = p
        /\ Len(acted) \in Nat
    BY DEF DInv, DTypeOK
  <1>3. Turn = p /\ Turn' = p /\ p \in AdapterSet /\ stage' \in {"redfishDone", "ipmiDone"}
    BY DEF Turn, DoneBy, Protocols, AdapterSet
  <1>4. DTypeOK'
    BY <1>1, <1>2, <1>3 DEF DInv, DTypeOK, PInv, Stages, pvars
  <1>5. \E k \in 1..Len(acted') : acted'[k] = p
    BY <1>2
  <1>6. \A q \in Protocols : stage' = DoneBy[q] => q = p
    BY DEF DoneBy, Protocols
  <1>7. failed' = Behind(Rank[Turn])' /\ Turn' \in bmc'.adapters
    BY <1>3 DEF DInv, Staged, Behind
  <1>8. Staged'
    <2>1. reply = "none" /\ reply' = "none" /\ stage' \notin {"idle", "direct", "pduWait", "replied"}
      BY <1>3 DEF DInv, Staged, Protocols
    <2>2. \A q \in Protocols : stage' = DoneBy[q] =>
                Knows(q, verb') /\ \E k \in 1..Len(acted') : acted'[k] = q
      BY <1>5, <1>6
    <2> QED BY <1>1, <1>7, <2>1, <2>2 DEF Staged
  <1> QED BY <1>1, <1>4, <1>8 DEF DInv

LEMMA AnswersInv ==
  ASSUME DInv, NEW p \in Protocols, Answers(p)
  PROVE  DInv'
  <1> USE DEF Answers
  <1>1. PInv' /\ pc = "idle" /\ pc' = "idle"
    BY PInvStutter DEF DInv, Staged, pvars, Protocols, DoneBy
  <1>2. DTypeOK'
    BY <1>1 DEF DInv, DTypeOK, PInv, Stages, pvars
  <1>3. Staged'
    BY <1>1 DEF DInv, Staged, Turn, DoneBy, Protocols, AdapterSet
  <1> QED BY <1>1, <1>2, <1>3 DEF DInv

\* The one that has the action passes it on, with or without an exception.
LEMMA MoveOnInv ==
  ASSUME DInv, NEW p \in Protocols, Turn = p, MoveOn(After(p)), stage \in {p, DoneBy[p]},
         UNCHANGED <<pvars, bmc, verb, acted>>,
         failed' = failed \cup IF Knows(p, verb) THEN {p} ELSE {}
  PROVE  DInv'
  <1>1. PInv' /\ pc = "idle" /\ pc' = "idle" /\ reply = "none"
    BY PInvStutter DEF DInv, Staged, pvars, Protocols, DoneBy
  <1>2. bmc.adapters \subseteq AdapterSet /\ p \in bmc.adapters /\ failed = Behind(Rank[p])
    BY DEF DInv, DTypeOK, BmcConfigs, Staged, AdapterSet, Protocols
  <1>3. After(p) \subseteq AdapterSet
    BY <1>2 DEF After
  <1>4. DTypeOK'
    BY <1>1, <1>3 DEF DInv, DTypeOK, PInv, MoveOn, Stages, AdapterSet, pvars
  <1>5. Staged'
    <2>1. CASE stage' = "replied" /\ reply' = "raised"
      BY <1>1, <2>1 DEF Staged, Turn, DoneBy, Protocols, AdapterSet
    <2>2. CASE stage' \in After(p) /\ (\A a \in After(p) : Rank[stage'] <= Rank[a]) /\ UNCHANGED reply
      <3>1. stage' \in AdapterSet /\ Turn' = stage' /\ stage' \in bmc.adapters
        BY <1>3, <2>2 DEF AdapterSet, Turn, After
      <3>2. Behind(Rank[Turn])' = Behind(Rank[p]) \cup IF Knows(p, verb) THEN {p} ELSE {}
        <4>1. \A q \in Protocols \cap bmc.adapters :
                Rank[q] < Rank[stage'] <=> Rank[q] < Rank[p] \/ q = p
          BY <1>2, <2>2, <3>1 DEF After, Rank, Protocols, AdapterSet
        <4>2. Behind(Rank[Turn])' = {q \in Protocols \cap bmc.adapters : Knows(q, verb) /\ Rank[q] < Rank[stage']}
          BY <3>1 DEF Behind
        <4> QED BY <1>2, <4>1, <4>2 DEF Behind
      <3> QED BY <1>1, <1>2, <2>2, <3>1, <3>2 DEF Staged, AdapterSet, DoneBy, Protocols
    <2> QED BY <2>1, <2>2 DEF MoveOn
  <1> QED BY <1>1, <1>4, <1>5 DEF DInv

LEMMA UnknownInv ==
  ASSUME DInv, NEW p \in Protocols, Unknown(p)
  PROVE  DInv'
  <1>1. Turn = p
    BY DEF Unknown, Turn, Protocols
  <1>2. failed' = failed \cup IF Knows(p, verb) THEN {p} ELSE {}
    BY DEF Unknown
  <1> QED BY <1>1, <1>2, MoveOnInv DEF Unknown

LEMMA RaisesInv ==
  ASSUME DInv, NEW p \in Protocols, Raises(p)
  PROVE  DInv'
  <1>1. Turn = p
    BY DEF Raises, Turn, Protocols, DoneBy
  <1>2. failed' = failed \cup IF Knows(p, verb) THEN {p} ELSE {}
    BY DEF Raises
  <1> QED BY <1>1, <1>2, MoveOnInv DEF Raises

LEMMA CallsPduInv ==
  ASSUME DInv, CallsPdu
  PROVE  DInv'
  <1> DEFINE c == [cmd |-> OutletCmd(verb), name |-> bmc.outlet.name, index |-> bmc.outlet.index]
  <1>1. OutletCmd(verb) \in {"on", "off", "cycle"}
    BY DEF OutletCmd
  <1>2. c \in Calls
    BY <1>1 DEF DInv, DTypeOK, BmcConfigs, Calls, ByIndex, ByName, Cmds
  <1>3. CallPdu(c) /\ stage = "pdu" /\ stage' = "pduWait" /\ UNCHANGED <<bmc, verb, acted, failed, reply>>
    BY DEF CallsPdu
  <1>4. c.cmd \in {"on", "off", "cycle"}
    BY <1>1
  <1> HIDE DEF c
  <1>5. PInv' /\ call' = c /\ pc' \in {"request", "names"}
    BY <1>2, <1>3, CallPduInv DEF CallPdu, DInv
  <1>6. DTypeOK'
    BY <1>3, <1>5 DEF DInv, DTypeOK, PInv, Stages
  <1>7. Turn = "pdu" /\ Turn' = "pdu" /\ Behind(Rank["pdu"])' = Behind(Rank["pdu"])
    BY <1>3 DEF Turn, Behind
  <1>8. Staged'
    BY <1>3, <1>4, <1>5, <1>7 DEF DInv, Staged, DoneBy, Protocols
  <1> QED BY <1>5, <1>6, <1>8 DEF DInv

LEMMA PduEndsInv ==
  ASSUME DInv, PduEnds
  PROVE  DInv'
  <1> USE DEF PduEnds
  <1>1. PInv' /\ UNCHANGED <<pc, call>>
    BY PInvStutter DEF DInv, pvars
  <1>2. DTypeOK'
    BY <1>1 DEF DInv, DTypeOK, PInv, Stages, pvars
  <1>3. Turn = "pdu" /\ failed = Behind(3) /\ Behind(3)' = Behind(3)
    BY DEF DInv, Staged, Turn, AdapterSet, Rank, Behind
  <1>4. Staged'
    BY <1>1, <1>3 DEF DInv, Staged, Turn, DoneBy, Protocols, AdapterSet
  <1> QED BY <1>1, <1>2, <1>4 DEF DInv

LEMMA DirectInv ==
  ASSUME DInv, NEW c \in Calls, Direct(c)
  PROVE  DInv'
  <1> USE DEF Direct
  <1>1. PInv' /\ pc' \in {"request", "names"}
    BY CallPduInv DEF CallPdu, DInv
  <1>2. DTypeOK'
    BY <1>1 DEF DInv, DTypeOK, PInv, Stages
  <1>3. Staged'
    BY <1>1 DEF DInv, Staged, Turn, DoneBy, Protocols, AdapterSet
  <1> QED BY <1>1, <1>2, <1>3 DEF DInv

LEMMA EndsInv ==
  ASSUME DInv, Ends
  PROVE  DInv'
  <1> USE DEF Ends
  <1>1. PInv' /\ pc' = "idle"
    BY PInvStutter, TakeInv DEF DInv, Take, pvars
  <1>2. NoBmc \in BmcConfigs /\ NoBmc.adapters = {}
    BY PduAssumption DEF NoBmc, BmcConfigs, Indices
  <1>3. DTypeOK'
    BY <1>1, <1>2 DEF DInv, DTypeOK, PInv, Stages
  <1>4. Staged'
    BY <1>1, <1>2 DEF Staged, Turn, DoneBy, Protocols, AdapterSet
  <1> QED BY <1>1, <1>3, <1>4 DEF DInv

LEMMA OutletsInv ==
  ASSUME DInv, PduStep \/ Renames, UNCHANGED dvars
  PROVE  DInv'
  <1> USE DEF dvars
  <1>1. PInv'
    BY PduStepInv DEF DInv
  <1>2. /\ pc' = "idle" <=> pc = "idle"
        /\ pc' \notin {"idle", "returned"} => pc \notin {"idle", "returned"}
        /\ pc # "idle" => call'.cmd = call.cmd
    BY DEF DInv, PInv, PTypeOK, PduStep, Renames, WalkName, WalkColumn, WalkEnds, NamesOver, ColumnsOver,
           Executes, Answered, Resend, GiveUp, ErrorAnswer, Fails, Loses, Trouble, Rename, Return
  <1>3. DTypeOK'
    BY <1>1, <1>2 DEF DInv, DTypeOK, PInv
  <1>4. UNCHANGED <<Turn, Behind(3), Behind(Rank[Turn])>>
    BY DEF Turn, Behind
  <1>5. Staged'
    BY <1>2, <1>4 DEF DInv, Staged
  <1> QED BY <1>1, <1>3, <1>5 DEF DInv

LEMMA DInvStep == DInv /\ [DNext]_vars => DInv'
  <1>1. ASSUME DInv, UNCHANGED vars PROVE DInv'
    <2>1. PInv'
      BY <1>1, PInvStutter DEF DInv, vars
    <2>2. DTypeOK' /\ Staged'
      BY <1>1, <2>1 DEF vars, dvars, pvars, walks, ghosts, DInv, DTypeOK, PInv, Staged, Turn, Behind
    <2> QED BY <2>1, <2>2 DEF DInv
  <1> QED
    BY <1>1, PowerActionInv, ActsInv, AnswersInv, UnknownInv, RaisesInv, CallsPduInv, PduEndsInv,
       DirectInv, EndsInv, OutletsInv DEF DNext

LEMMA DInvHolds == DSpec => []DInv
  BY DInvInit, DInvStep, PTL DEF DSpec

-----------------------------------------------------------------------------
\* Theorems

\* Every variable of power_action and of the PDU's client (bmc.py,
\* pdu/_snmp.py) has its type at any time.
THEOREM DTypeOKHolds == DSpec => []DTypeOK
  <1>1. DInv => DTypeOK
    BY DEF DInv
  <1> QED BY <1>1, DInvHolds, PTL

\* _resolve_idx never aims a command at an outlet that has not had the name
\* since the call began, whoever renames outlets and whatever is lost.
THEOREM RightOutletHolds == DSpec => []RightOutlet
  <1>1. DInv => RightOutlet
    BY PInvExplains DEF DInv
  <1> QED BY <1>1, DInvHolds, PTL

\* Whatever a call of the PDU's client returns or raises (_walk, _set, _get,
\* _resolve_idx) is true of the PDU, or explained by an error it answered or by
\* more losses than pysnmp sends again.
THEOREM CallExplainedHolds == DSpec => []CallExplained
  <1>1. DInv => CallExplained
    BY PInvExplains DEF DInv
  <1> QED BY <1>1, DInvHolds, PTL

\* power_action reaches for the outlet only when every transport before it
\* that knows the verb has raised.
THEOREM LastResortHolds == DSpec => []LastResort
  <1>1. DInv => LastResort
    <2> SUFFICES ASSUME DInv PROVE LastResort
      OBVIOUS
    <2>1. Behind(3) = {p \in Protocols \cap bmc.adapters : Knows(p, verb)}
      BY DEF Behind, Rank, Protocols
    <2>2. stage \in {"pdu", "pduWait"} => failed = Behind(3)
      BY DEF DInv, Staged, Turn, AdapterSet, Rank
    <2> QED BY <2>1, <2>2 DEF DInv, Staged, LastResort
  <1> QED BY <1>1, DInvHolds, PTL

-----------------------------------------------------------------------------
\* power_action implements the dispatcher.

\* The dispatcher's order is the one of the ranks.
LEMMA Ordered ==
  /\ Promise!Adapters = AdapterSet
  /\ \A P \in SUBSET AdapterSet : \A b \in P :
       (\A a \in P : Rank[b] <= Rank[a]) => Promise!IsFirst(P, b)
  /\ \A P \in SUBSET AdapterSet, a \in AdapterSet : \A b \in P :
       Rank[a] < Rank[b] /\ (\A c \in P : Rank[c] > Rank[a] => Rank[b] <= Rank[c])
         => Promise!IsNext(P, a, b)
  /\ \A P \in SUBSET AdapterSet, a \in AdapterSet, b \in AdapterSet :
       Promise!IsNext(P, a, b) => b \in P /\ Rank[a] < Rank[b]
  <1>1. /\ Len(Adapters) = 3 /\ Adapters[1] = "redfish" /\ Adapters[2] = "ipmi" /\ Adapters[3] = "pdu"
        /\ 1..Len(Adapters) = {1, 2, 3}
    BY DEF Adapters
  <1>2. Promise!Adapters = AdapterSet
    BY <1>1 DEF Promise!Adapters, AdapterSet
  <1>3. \A i, j \in {1, 2, 3} : i < j <=> Rank[Adapters[i]] < Rank[Adapters[j]]
    BY <1>1 DEF Rank
  <1>4. \A a \in AdapterSet : Rank[a] \in {1, 2, 3} /\ Adapters[Rank[a]] = a
    BY <1>1 DEF Rank, AdapterSet
  <1>5. \A i \in {1, 2, 3} : Rank[Adapters[i]] = i /\ Adapters[i] \in AdapterSet
    BY <1>1 DEF Rank, AdapterSet
  <1>6. ASSUME NEW P \in SUBSET AdapterSet, NEW b \in P, \A a \in P : Rank[b] <= Rank[a]
        PROVE  Promise!IsFirst(P, b)
    <2>1. \A k \in 1..(Rank[b] - 1) : k \in {1, 2, 3} /\ k < Rank[b]
      BY <1>4
    <2>2. \A k \in 1..(Rank[b] - 1) : Adapters[k] \notin P
      BY <1>4, <1>5, <1>6, <2>1
    <2> QED BY <1>1, <1>4, <2>2 DEF Promise!IsFirst
  <1>7. ASSUME NEW P \in SUBSET AdapterSet, NEW a \in AdapterSet, NEW b \in P, Rank[a] < Rank[b],
               \A c \in P : Rank[c] > Rank[a] => Rank[b] <= Rank[c]
        PROVE  Promise!IsNext(P, a, b)
    <2>1. \A k \in (Rank[a] + 1)..(Rank[b] - 1) : k \in {1, 2, 3} /\ Rank[a] < k /\ k < Rank[b]
      BY <1>4
    <2>2. \A k \in (Rank[a] + 1)..(Rank[b] - 1) : Adapters[k] \notin P
      BY <1>4, <1>5, <1>7, <2>1
    <2> QED BY <1>1, <1>4, <1>7, <2>2 DEF Promise!IsNext
  <1>8. ASSUME NEW P \in SUBSET AdapterSet, NEW a \in AdapterSet, NEW b \in AdapterSet,
               Promise!IsNext(P, a, b)
        PROVE  b \in P /\ Rank[a] < Rank[b]
    BY <1>1, <1>5, <1>8 DEF Promise!IsNext
  <1> QED BY <1>2, <1>6, <1>7, <1>8

\* Each action of PowerDispatch is one of the dispatcher, or none.

LEMMA StutterMap ==
  ASSUME UNCHANGED <<bmc, acted, reply>>, Turn' = Turn,
         stage = "direct" <=> stage' = "direct", stage = "direct" \/ sets' = sets
  PROVE  UNCHANGED Promise!dispatch
  BY DEF Promise!dispatch, Executed

LEMMA PowerActionMap ==
  ASSUME DInv, NEW b \in BmcConfigs, NEW v \in Verbs, PowerAction(b, v)
  PROVE  Promise!Ask
  <1>1. Turn = "idle" /\ bmc' = b /\ sets = <<>> /\ sets' = <<>>
    BY DEF PowerAction, Turn, DInv, Staged, PInv, Aimed, pvars, ghosts
  <1>2. b.adapters \in SUBSET AdapterSet
    BY DEF BmcConfigs, AdapterSet
  <1>3. stage' # "direct" /\ stage # "direct" /\ Turn' = stage'
    BY <1>2 DEF PowerAction, MoveOn, AdapterSet, Turn
  <1>4. UNCHANGED Executed
    BY <1>1, <1>3 DEF PowerAction, Executed
  <1>5. \/ Promise!IsFirst(b.adapters, Turn') /\ UNCHANGED reply
        \/ b.adapters = {} /\ Turn' = "replied" /\ reply' = "raised"
    BY <1>2, <1>3, Ordered DEF PowerAction, MoveOn
  <1> QED BY <1>1, <1>2, <1>4, <1>5, Ordered DEF Promise!Ask

LEMMA ActsMap ==
  ASSUME DInv, NEW p \in Protocols, Acts(p)
  PROVE  Promise!Act
  <1>1. Turn = p /\ Turn' = p /\ p \in AdapterSet /\ stage # "direct" /\ stage' # "direct"
    BY DEF Acts, Turn, DoneBy, Protocols, AdapterSet
  <1>2. {acted'[k] : k \in 1..Len(acted')} = {acted[k] : k \in 1..Len(acted)} \cup {p}
    <2>1. /\ Len(acted) \in Nat /\ Len(acted') = Len(acted) + 1 /\ acted'[Len(acted')] = p
          /\ \A k \in 1..Len(acted) : acted'[k] = acted[k]
      BY DEF Acts, DInv, DTypeOK
    <2>2. \A k \in 1..Len(acted') : k = Len(acted') \/ k \in 1..Len(acted)
      BY <2>1
    <2>3. \A k \in 1..Len(acted) : k \in 1..Len(acted')
      BY <2>1
    <2>4. Len(acted') \in 1..Len(acted')
      BY <2>1
    <2> QED BY <2>1, <2>2, <2>3, <2>4
  <1>3. Executed' = Executed \cup {p}
    BY <1>1, <1>2 DEF Executed, Acts, pvars, ghosts
  <1> QED BY <1>1, <1>3, Ordered DEF Promise!Act, Acts

LEMMA AnswersMap ==
  ASSUME DInv, NEW p \in Protocols, Answers(p)
  PROVE  Promise!Reply
  <1>1. Turn = p /\ Turn' = "replied" /\ stage # "direct" /\ stage' # "direct"
    BY DEF Answers, Turn, DoneBy, Protocols
  <1>2. p \in Executed
    BY DEF Answers, DInv, Staged, Executed
  <1>3. UNCHANGED Executed
    BY <1>1 DEF Executed, Answers, pvars, ghosts
  <1> QED BY <1>1, <1>2, <1>3 DEF Promise!Reply, Answers

LEMMA MoveOnMap ==
  ASSUME DInv, NEW p \in Protocols, Turn = p, MoveOn(After(p)), stage \in {p, DoneBy[p]},
         UNCHANGED <<pvars, bmc, verb, acted>>
  PROVE  Promise!PassOn \/ Promise!Fail
  <1>1. bmc.adapters \in SUBSET AdapterSet /\ p \in AdapterSet
    BY DEF DInv, DTypeOK, BmcConfigs, AdapterSet, Protocols
  <1>2. stage # "direct" /\ stage' # "direct" /\ Turn' = stage'
    BY <1>1 DEF DoneBy, Protocols, MoveOn, After, AdapterSet, Turn
  <1>3. UNCHANGED Executed
    BY <1>2 DEF Executed, pvars, ghosts
  <1>4. CASE After(p) = {} /\ stage' = "replied" /\ reply' = "raised"
    <2>1. ~ \E b \in AdapterSet : Promise!IsNext(bmc.adapters, p, b)
      BY <1>1, <1>4, Ordered DEF After, Rank, AdapterSet
    <2> QED BY <1>1, <1>2, <1>3, <1>4, <2>1, Ordered DEF Promise!Fail
  <1>5. CASE stage' \in After(p) /\ (\A a \in After(p) : Rank[stage'] <= Rank[a]) /\ UNCHANGED reply
    <2>1. stage' \in bmc.adapters /\ Rank[p] < Rank[stage']
      BY <1>1, <1>5 DEF After, Rank, AdapterSet
    <2>2. \A c \in bmc.adapters : Rank[c] > Rank[p] => Rank[stage'] <= Rank[c]
      BY <1>5 DEF After
    <2>3. Promise!IsNext(bmc.adapters, p, stage')
      BY <1>1, <2>1, <2>2, Ordered
    <2> QED BY <1>1, <1>2, <1>3, <1>5, <2>3, Ordered DEF Promise!PassOn
  <1> QED BY <1>4, <1>5 DEF MoveOn

LEMMA CallsPduMap ==
  ASSUME DInv, CallsPdu
  PROVE  UNCHANGED Promise!dispatch
  <1>1. stage = "pdu" /\ stage' = "pduWait" /\ UNCHANGED <<bmc, acted, reply>> /\ sets' = sets
    BY DEF CallsPdu, CallPdu
  <1>2. Turn' = Turn
    BY <1>1 DEF Turn
  <1> QED BY <1>1, <1>2, StutterMap

LEMMA PduEndsMap ==
  ASSUME DInv, PduEnds
  PROVE  Promise!Reply \/ Promise!Fail
  <1>1. /\ Turn = "pdu" /\ Turn' = "replied" /\ stage # "direct" /\ stage' # "direct"
        /\ UNCHANGED <<bmc, sets, acted>> /\ bmc.adapters \in SUBSET AdapterSet
    BY DEF PduEnds, Turn, pvars, ghosts, DInv, DTypeOK, BmcConfigs, AdapterSet
  <1>2. UNCHANGED Executed
    BY <1>1 DEF Executed
  <1>3. CASE result = "ok"
    <2>1. sets # <<>>
      BY <1>3, PInvExplains DEF PduEnds, DInv, Staged, CallExplained
    <2>2. "pdu" \in Executed
      BY <1>1, <2>1 DEF Executed
    <2> QED BY <1>1, <1>2, <1>3, <2>2 DEF Promise!Reply, PduEnds
  <1>4. CASE result # "ok"
    <2>1. ~ \E b \in AdapterSet : Promise!IsNext(bmc.adapters, "pdu", b)
      BY <1>1, Ordered DEF Rank, AdapterSet
    <2> QED BY <1>1, <1>2, <1>4, <2>1, Ordered DEF Promise!Fail, PduEnds, AdapterSet
  <1> QED BY <1>3, <1>4

LEMMA DirectMap ==
  ASSUME DInv, NEW c \in Calls, Direct(c)
  PROVE  UNCHANGED Promise!dispatch
  <1>1. sets = <<>>
    BY DEF Direct, CallPdu, DInv, PInv, Aimed
  <1> QED BY <1>1 DEF Direct, CallPdu, Turn, Executed, Promise!dispatch

LEMMA EndsMap ==
  ASSUME DInv, Ends
  PROVE  Promise!Done \/ UNCHANGED Promise!dispatch
  <1>1. sets' = <<>>
    BY DEF Ends, Take, DInv, PInv, Aimed, pvars, ghosts
  <1>2. Turn' = "idle" /\ bmc'.adapters = {} /\ reply' = "none" /\ Executed' = {}
    BY <1>1 DEF Ends, Turn, NoBmc, Executed
  <1>3. CASE stage = "replied"
    BY <1>2, <1>3 DEF Promise!Done, Turn
  <1>4. CASE stage = "direct"
    <2>1. Turn = "idle" /\ bmc.adapters = {} /\ reply = "none" /\ Executed = {}
      BY <1>4 DEF Turn, Executed, DInv, Staged
    <2> QED BY <1>2, <2>1 DEF Promise!dispatch
  <1> QED BY <1>3, <1>4 DEF Ends

LEMMA OutletsMap ==
  ASSUME DInv, PduStep \/ Renames, UNCHANGED dvars
  PROVE  Promise!Act \/ UNCHANGED Promise!dispatch
  <1>1. UNCHANGED <<stage, bmc, acted, reply, Turn>>
    BY DEF dvars, Turn
  <1>2. CASE sets' = sets \/ stage = "direct"
    <2>1. UNCHANGED Promise!dispatch
      BY <1>1, <1>2, StutterMap
    <2> QED BY <2>1
  <1>3. CASE sets' # sets /\ stage # "direct"
    <2>1. pc = "request" /\ sets' = Append(sets, call.index)
      BY <1>3 DEF PduStep, Renames, WalkName, WalkColumn, WalkEnds, Executes, Answered, Resend, GiveUp,
                  ErrorAnswer, Loses, Trouble, Rename, ghosts
    <2>2. sets' # <<>>
      BY <2>1 DEF DInv, PInv, PTypeOK
    <2>3. Turn = "pdu"
      BY <1>3, <2>1 DEF DInv, DTypeOK, Turn
    <2>4. Executed' = Executed \cup {"pdu"}
      BY <1>1, <1>3, <2>2 DEF Executed
    <2> QED BY <1>1, <2>3, <2>4, Ordered DEF Promise!Act, AdapterSet
  <1> QED BY <1>2, <1>3

\* power_action hands the action to one adapter after another in its order,
\* and what it returns is true of them: PowerDispatch implements Dispatcher.
THEOREM DispatchesHolds == DSpec => Dispatches
  <1>1. DInit => Promise!Init
    BY DEF DInit, PInit, Promise!Init, NoBmc, Turn, Executed
  <1>2. DInv /\ [DNext]_vars => [Promise!Next]_(Promise!dispatch)
    <2> SUFFICES ASSUME DInv, [DNext]_vars
                 PROVE  [Promise!Next]_(Promise!dispatch)
      OBVIOUS
    <2>1. CASE UNCHANGED vars
      <3>1. UNCHANGED <<stage, bmc, acted, reply, sets>> /\ Turn' = Turn
        BY <2>1 DEF vars, dvars, pvars, ghosts, Turn
      <3>2. UNCHANGED Promise!dispatch
        BY <3>1, StutterMap
      <3> QED BY <3>2
    <2>2. ASSUME NEW p \in Protocols, Unknown(p) PROVE Promise!PassOn \/ Promise!Fail
      BY <2>2, MoveOnMap DEF Unknown, Turn, Protocols
    <2>3. ASSUME NEW p \in Protocols, Raises(p) PROVE Promise!PassOn \/ Promise!Fail
      BY <2>3, MoveOnMap DEF Raises, Turn, Protocols, DoneBy
    <2> QED
      BY <2>1, <2>2, <2>3, PowerActionMap, ActsMap, AnswersMap, CallsPduMap, PduEndsMap, DirectMap,
         EndsMap, OutletsMap DEF DNext, Promise!Next
  <1> QED BY <1>1, <1>2, DInvHolds, PTL DEF DSpec, Dispatches, Promise!Spec
=============================================================================
