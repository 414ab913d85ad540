----------------------------- MODULE RedfishOps -----------------------------
(***************************************************************************)
(* What RedfishClient (redfish/client.py) builds from _get and             *)
(* _post_action: the inventories and event logs it collects by walking the *)
(* BMC's resources, the cached paths of the first system and manager,      *)
(* clear_sel, and the virtual media.  Any number of tasks share the        *)
(* client; logs, paths and slots change under them.                        *)
(*                                                                         *)
(* A resource is the tuple of the steps that lead to it: <<"Storage">> is  *)
(* a collection, <<"Storage", 2, 1>> the first member of its second one.   *)
(* Authentication is RedfishAuth's; here a request is answered or fails.   *)
(***************************************************************************)
EXTENDS Integers, Sequences, SequencesExt, FiniteSets

CONSTANTS
  Tasks,
  Shape,      \* of each resource with members, how many it begins with
  Lists,      \* the inventories considered, of those below
  Limits,     \* the limits of sel_entries, or None
  Images,     \* what callers mount
  None,
  MaxFaults,  \* bound: requests that fail
  MaxRenames  \* bound: changes of the paths by the BMC

Roots    == {"system", "chassis", "manager"}
LogsOf   == [system |-> <<<<"Sel">>, <<"Log">>>>, manager |-> <<<<"Lclog">>, <<"IML">>>>]
LogOrder == <<<<"Sel">>, <<"Log">>, <<"Lclog">>, <<"IML">>>>
Media    == <<"VirtualMedia">>

\* What the first step of a resource is below of.
RootOf == [Processors |-> "system", Memory |-> "system", Storage |-> "system", StorageVolumes |-> "system",
           NetworkAdapters |-> "chassis", UpdateService |-> "service", AccountService |-> "service",
           Sel |-> "system", Log |-> "system", Lclog |-> "manager", IML |-> "manager",
           VirtualMedia |-> "manager"]

Slots    == 1..Shape[Media]

\* Below its name, a resource is reached by the indices of resources with
\* members, of which the entries of a log have none.  No inventory is one of
\* the logs or of the virtual media.
ASSUME OpsAssumption ==
  /\ None \notin Images /\ None \notin Nat
  /\ ToSet(LogOrder) \cup {Media} \subseteq DOMAIN Shape
  /\ \A n \in DOMAIN Shape :
       /\ Shape[n] \in Nat
       /\ n[1] \in DOMAIN RootOf /\ Tail(n) \in Seq(Nat) /\ n = <<n[1]>> \o Tail(n)
       /\ \A k \in 1..(Len(n) - 1) :
            LET m == SubSeq(n, 1, k) IN m \in DOMAIN Shape \ ToSet(LogOrder) /\ n[k + 1] \in 1..Shape[m]
  /\ Lists \subseteq [top : {<<n>> : n \in DOMAIN RootOf} \ (ToSet(LogOrder) \cup {Media}), limit : Nat \cup {None}]
  /\ Limits \subseteq Nat \cup {None}
  /\ MaxFaults \in Nat /\ MaxRenames \in Nat

VARIABLES
  bmc,      \* which logs can be cleared, which carry their entries with
            \* them, and which slots take CDs
  width,    \* of each resource, how many members it has
  epoch,    \* the BMC's paths: the number of times they changed, and one
  mounted,  \* of each slot: the image in it, or None
  cache,    \* _cached_system_path and its siblings: their epoch, or 0
  call,     \* of each task: the call under way
  faults

vars == <<bmc, width, epoch, mounted, cache, call, faults>>

Kinds == {"list", "sel", "clear", "insert", "eject"}
Pcs   == {"idle", "path", "store", "managers", "walk", "clear", "preEject", "insert", "eject", "returned"}
Results == {"none", "listed", "cleared", "inserted", "ejected", "RedfishError", "HTTPError"}
Errors  == {"RedfishError", "HTTPError"}

\* pc: where the task waits; roots: paths to be found yet; answer: the path
\* the BMC sent; path: those found, or 0; todo: resources to be read, in order;
\* out: resources read; slot: the one chosen for the media, or 0; busy: its
\* Inserted flag.  Kept for the properties: missed, what could not be read;
\* failed, the slots whose eject raised; foreign, the slots that others
\* changed since a call for the media began.
Idle == [pc |-> "idle", kind |-> "list", top |-> <<>>, limit |-> None, image |-> None,
         roots |-> <<>>, answer |-> 0, path |-> [r \in Roots |-> 0], todo |-> <<>>, out |-> <<>>,
         slot |-> 0, busy |-> FALSE, result |-> "none",
         missed |-> {}, failed |-> {}, foreign |-> {}]

Bmcs == [clearable : SUBSET ToSet(LogOrder), inline : BOOLEAN, cd : SUBSET Slots]

-----------------------------------------------------------------------------
CONSTANT BmcKinds
ASSUME BmcKindsAssumption == BmcKinds \subseteq Bmcs

Init ==
  /\ bmc \in BmcKinds
  /\ width = Shape /\ epoch = 1
  /\ mounted \in [Slots -> Images \cup {None}]
  /\ cache = [r \in Roots |-> 0]
  /\ call = [t \in Tasks |-> Idle]
  /\ faults = 0

device == <<bmc, width, epoch>>

Become(t, c) == call' = [call EXCEPT ![t] = c]
\* The call returns, or raises and leaves its result only.
Ended(c, r)  ==
  [(IF r \in Errors THEN [Idle EXCEPT !.kind = c.kind] ELSE c)
    EXCEPT !.pc = "returned", !.result = r, !.path = Idle.path, !.answer = 0, !.busy = FALSE]

Kids(n)    == [i \in 1..width[n] |-> Append(n, i)]
Exists(n)  == Len(n) > 1 => Last(n) <= width[Front(n)]
IsLog(n)   == n \in ToSet(LogOrder)

Fault == faults < MaxFaults /\ faults' = faults + 1

-----------------------------------------------------------------------------
\* The calls

Begin(t, c) ==
  /\ call[t].pc = "idle"
  /\ Become(t, c)
  /\ UNCHANGED <<device, mounted, cache, faults>>

\* The inventories: the resource they walk and a limit, or None.  The drives
\* are below each Storage, the volumes one collection further down, the
\* firmware and the users below the collection that their service names.
Walk(top, limit) == [top |-> top, limit |-> limit]

processor_inventory        == Walk(<<"Processors">>, None)
memory_inventory           == Walk(<<"Memory">>, None)
drive_inventory(max)       == Walk(<<"Storage">>, max)
volume_inventory           == Walk(<<"StorageVolumes">>, None)
network_adapter_inventory  == Walk(<<"NetworkAdapters">>, None)
firmware_inventory         == Walk(<<"UpdateService">>, None)
bmc_users                  == Walk(<<"AccountService">>, None)

CallList(t, l) ==
  Begin(t, [Idle EXCEPT !.kind = "list", !.top = l.top, !.limit = l.limit, !.todo = <<l.top>>,
                        !.roots = IF RootOf[l.top[1]] \in Roots THEN <<RootOf[l.top[1]]>> ELSE <<>>,
                        !.pc = IF RootOf[l.top[1]] \in Roots THEN "path" ELSE "walk"])

CallSel(t, limit) ==
  Begin(t, [Idle EXCEPT !.kind = "sel", !.limit = limit, !.roots = <<"system", "manager">>, !.pc = "path"])

CallClear(t) ==
  Begin(t, [Idle EXCEPT !.kind = "clear", !.roots = <<"system", "manager">>, !.pc = "path"])

CallInsert(t, image) ==
  Begin(t, [Idle EXCEPT !.kind = "insert", !.image = image, !.todo = <<Media>>, !.pc = "managers"])

CallEject(t) == Begin(t, [Idle EXCEPT !.kind = "eject", !.todo = <<Media>>, !.pc = "managers"])

\* The caller goes on with the result.
Take(t) ==
  /\ call[t].pc = "returned"
  /\ Become(t, Idle)
  /\ UNCHANGED <<device, mounted, cache, faults>>

-----------------------------------------------------------------------------
\* _first_system_path, _first_chassis_path, _first_manager_path

NextPathOneMore(c) == "path"
NextPath(c) == IF Len(c.roots) = 1 THEN "walk" ELSE "path"

\* The root is found: sel_entries and clear_sel add its logs to their list.
Found(c, e) ==
  [c EXCEPT !.path[Head(c.roots)] = e, !.roots = Tail(@), !.answer = 0,
            !.todo = IF c.kind \in {"sel", "clear"} THEN @ \o LogsOf[Head(c.roots)] ELSE @,
            !.pc = NextPath(c)]

CachedPath(t) ==
  LET c == call[t] IN
  /\ c.pc = "path" /\ cache[Head(c.roots)] # 0
  /\ Become(t, Found(c, cache[Head(c.roots)]))
  /\ UNCHANGED <<device, mounted, cache, faults>>

AnswerPath(t) ==
  LET c == call[t] IN
  /\ c.pc = "path" /\ cache[Head(c.roots)] = 0
  /\ Become(t, [c EXCEPT !.pc = "store", !.answer = epoch])
  /\ UNCHANGED <<device, mounted, cache, faults>>

StorePath(t) ==
  LET c == call[t] IN
  /\ c.pc = "store"
  /\ cache' = [cache EXCEPT ![Head(c.roots)] = c.answer]
  /\ Become(t, Found(c, c.answer))
  /\ UNCHANGED <<device, mounted, faults>>

\* A RedfishError, after which sel_entries and clear_sel go on without the logs
\* of that root, or an error of httpx when the request was sent again.
PathFails(t) ==
  LET c == call[t]
      r == Head(c.roots)
      without == [Found(c, 0) EXCEPT !.todo = c.todo, !.missed = @ \cup ToSet(LogsOf[r])]
  IN
  /\ c.pc = "path" /\ cache[r] = 0 /\ Fault
  /\ \/ Become(t, IF c.kind = "list" THEN Ended(c, "RedfishError") ELSE without)
     \/ Become(t, Ended(c, "HTTPError"))
  /\ UNCHANGED <<device, mounted, cache>>

-----------------------------------------------------------------------------
\* The walk: _get of the next resource

Target(t) == Head(call[t].todo)

Walking(t, kinds) == call[t].pc = "walk" /\ call[t].kind \in kinds /\ call[t].todo # <<>>

\* The path that leads to it is still the BMC's.
Reaches(c, n) == Exists(n) /\ (RootOf[n[1]] \in Roots => c.path[RootOf[n[1]]] = epoch)

AtLimit(c) == c.limit # None /\ Len(c.out) >= c.limit

\* An entry of the answer, and the test of the limit that follows it.
With(c, n) ==
  LET d == [c EXCEPT !.out = Append(@, n)]
  IN  IF AtLimit(d) THEN Ended(d, "listed") ELSE d

\* A log that carries its entries with it, cut at the limit.
InlineCount(c, n) ==
  IF c.limit = None \/ width[n] <= c.limit THEN width[n] ELSE IF c.limit = 0 THEN 1 ELSE c.limit

\* What the answer for a resource makes of the call: a collection is followed
\* by its members, a log with entries takes the place of all the other logs.
Read(c, n) ==
  IF n \notin DOMAIN width THEN With([c EXCEPT !.todo = Tail(@)], n)
  ELSE IF ~ IsLog(n) THEN [c EXCEPT !.todo = Kids(n) \o Tail(@)]
  ELSE IF width[n] = 0 THEN [c EXCEPT !.todo = Tail(@)]
  ELSE IF bmc.inline
  THEN Ended([c EXCEPT !.out = SubSeq(Kids(n), 1, InlineCount(c, n))], "listed")
  ELSE [c EXCEPT !.todo = Kids(n)]

ReadNext(t) ==
  /\ Walking(t, {"list", "sel"}) /\ Reaches(call[t], Target(t))
  /\ Become(t, Read(call[t], Target(t)))
  /\ UNCHANGED <<device, mounted, cache, faults>>

\* A RedfishError: the resource and all below it are passed over.
SkipBreaks(t) ==
  /\ Walking(t, {"list", "sel", "clear"})
  /\ \/ ~ Reaches(call[t], Target(t)) /\ UNCHANGED faults
     \/ Fault
  /\ Become(t, [call[t] EXCEPT !.todo = <<>>, !.missed = @ \cup {Target(t)}])
  /\ UNCHANGED <<device, mounted, cache>>
Skip(t) ==
  /\ Walking(t, {"list", "sel", "clear"})
  /\ \/ ~ Reaches(call[t], Target(t)) /\ UNCHANGED faults
     \/ Fault
  /\ Become(t, [call[t] EXCEPT !.todo = Tail(@), !.missed = @ \cup {Target(t)}])
  /\ UNCHANGED <<device, mounted, cache>>

\* The request sent again after a login fails, with an error of httpx; of
\* the virtual media, any error ends the call.
WalkRaises(t) ==
  /\ Walking(t, Kinds) \/ call[t].pc = "managers"
  /\ Fault
  /\ \E r \in IF call[t].kind \in {"insert", "eject"} THEN Errors ELSE {"HTTPError"} :
       Become(t, Ended(call[t], r))
  /\ UNCHANGED <<device, mounted, cache>>

\* The end of the loop: clear_sel raises when no log could be cleared.
WalkEnds(t) ==
  LET c == call[t] IN
  /\ c.pc = "walk" /\ c.todo = <<>>
  /\ Become(t, Ended(c, CASE c.kind \in {"list", "sel"} -> "listed"
                          [] c.kind = "clear" -> "RedfishError"
                          [] c.kind = "eject" -> "ejected"))
  /\ UNCHANGED <<device, mounted, cache, faults>>

-----------------------------------------------------------------------------
\* clear_sel

FindsLogUnchecked(t) ==
  /\ Walking(t, {"clear"}) /\ Reaches(call[t], Target(t))
  /\ Become(t, [call[t] EXCEPT !.pc = "clear"])
  /\ UNCHANGED <<device, mounted, cache, faults>>
FindsLog(t) ==
  /\ Walking(t, {"clear"}) /\ Reaches(call[t], Target(t))
  /\ Become(t, IF Target(t) \in bmc.clearable THEN [call[t] EXCEPT !.pc = "clear"]
               ELSE [call[t] EXCEPT !.todo = Tail(@)])
  /\ UNCHANGED <<device, mounted, cache, faults>>

\* A POST is executed or not, and answered or not.
ClearLog(t) ==
  LET c == call[t] IN
  /\ c.pc = "clear"
  /\ \/ /\ Reaches(c, Target(t)) /\ width' = [width EXCEPT ![Target(t)] = 0]
        /\ \/ Become(t, Ended(c, "cleared")) /\ UNCHANGED faults
           \/ Become(t, Ended(c, "HTTPError")) /\ Fault
     \/ /\ Become(t, Ended(c, "RedfishError")) /\ UNCHANGED width
        /\ IF Reaches(c, Target(t)) THEN Fault ELSE UNCHANGED faults
  /\ UNCHANGED <<bmc, epoch, mounted, cache>>

-----------------------------------------------------------------------------
\* insert_virtual_media and eject_virtual_media

\* _virtual_media_collection asks for the manager, whose path is not cached,
\* and then for its slots.
FindManager(t) ==
  /\ call[t].pc = "managers"
  /\ Become(t, [call[t] EXCEPT !.pc = "walk", !.path["manager"] = epoch])
  /\ UNCHANGED <<device, mounted, cache, faults>>

\* The addresses of the slots are below the manager's path.
Addresses(c) == c.path["manager"] = epoch

\* It raises when there are no slots.
ReadMedia(t) ==
  /\ Walking(t, {"insert", "eject"}) /\ Target(t) = Media /\ Addresses(call[t])
  /\ Become(t, IF width[Media] = 0 THEN Ended(call[t], "RedfishError")
               ELSE [call[t] EXCEPT !.todo = Kids(Media)])
  /\ UNCHANGED <<device, mounted, cache, faults>>

\* Nor does _get find what has another path by now.
MediaGone(t) ==
  /\ Walking(t, {"insert", "eject"}) /\ ~ Addresses(call[t])
  /\ Become(t, Ended(call[t], "RedfishError"))
  /\ UNCHANGED <<device, mounted, cache, faults>>

Choose(c, i, busy) ==
  [c EXCEPT !.slot = i, !.busy = busy, !.todo = <<>>, !.pc = IF busy THEN "preEject" ELSE "insert"]

\* _pick_cd_slot: the first slot that takes CDs, or else the first of all,
\* with its Inserted flag as it was when the slot was read.
ReadSlot(t) ==
  LET c == call[t]
      i == Last(Target(t))
      first == [c EXCEPT !.slot = IF @ = 0 THEN i ELSE @,
                         !.busy = IF c.slot = 0 THEN mounted[i] # None ELSE @, !.todo = Tail(@)]
  IN
  /\ Walking(t, {"insert"}) /\ Target(t) # Media /\ Addresses(c)
  /\ Become(t, IF i \in bmc.cd THEN Choose(c, i, mounted[i] # None)
               ELSE IF Len(c.todo) = 1 THEN Choose(first, first.slot, first.busy)
               ELSE first)
  /\ UNCHANGED <<device, mounted, cache, faults>>

\* eject_virtual_media: a slot with media in it is ejected next.
ReadSlotToEject(t) ==
  LET c == call[t]
      i == Last(Target(t))
  IN
  /\ Walking(t, {"eject"}) /\ Target(t) # Media /\ Addresses(c)
  /\ Become(t, IF mounted[i] = None THEN [c EXCEPT !.todo = Tail(@)]
               ELSE [c EXCEPT !.pc = "eject", !.slot = i])
  /\ UNCHANGED <<device, mounted, cache, faults>>

\* What is in a slot from now on, and what task t makes of the answer.
Puts(t, i, media, c) ==
  /\ mounted' = [mounted EXCEPT ![i] = media]
  /\ call' = [u \in Tasks |-> IF u = t THEN c
                ELSE IF call[u].pc # "idle" /\ call[u].kind \in {"insert", "eject"}
                THEN [call[u] EXCEPT !.foreign = @ \cup {i}] ELSE call[u]]

\* A POST to a slot is executed and answered; or executed, and the answer is
\* lost; or refused: without a fault when the address is stale, or the slot is
\* as may be, empty or full.
Posts(t, media, done, refused, may) ==
  LET c == call[t] IN
  /\ \/ Addresses(c) /\ Puts(t, c.slot, media, done) /\ UNCHANGED faults
     \/ Addresses(c) /\ Puts(t, c.slot, media, Ended(c, "HTTPError")) /\ Fault
     \/ Become(t, refused) /\ UNCHANGED mounted
        /\ IF may \/ ~ Addresses(c) THEN UNCHANGED faults ELSE Fault
  /\ UNCHANGED <<device, cache>>

\* The pre-eject: a RedfishError is tolerated, one of httpx is not.  The BMC
\* may refuse to eject an empty slot.
PreEject(t) ==
  LET c == call[t]
      next == [c EXCEPT !.pc = "insert"]
  IN  c.pc = "preEject" /\ Posts(t, None, next, next, mounted[c.slot] = None)

\* The BMC replaces what is in the slot, or refuses.
InsertTolerates(t) ==
  LET c == call[t] IN
  /\ c.pc = "insert"
  /\ Posts(t, c.image, Ended(c, "inserted"), Ended(c, "inserted"), mounted[c.slot] # None)
Insert(t) ==
  LET c == call[t] IN
  /\ c.pc = "insert"
  /\ Posts(t, c.image, Ended(c, "inserted"), Ended(c, "RedfishError"), mounted[c.slot] # None)

\* A slot that raises a RedfishError is passed over.
Eject(t) ==
  LET c == call[t]
      next == [c EXCEPT !.pc = "walk", !.todo = Tail(@), !.slot = 0]
  IN
  /\ c.pc = "eject"
  /\ Posts(t, None, next, [next EXCEPT !.failed = @ \cup {c.slot}], mounted[c.slot] = None)

-----------------------------------------------------------------------------
\* The BMC

\* An update or a reset: the first system and manager have other paths.
RenamePaths ==
  /\ epoch <= MaxRenames
  /\ epoch' = epoch + 1
  /\ UNCHANGED <<bmc, width, mounted, cache, call, faults>>

-----------------------------------------------------------------------------
Calls(t) == \/ \E l \in Lists : CallList(t, l)
            \/ \E limit \in Limits : CallSel(t, limit)
            \/ CallClear(t)
            \/ \E image \in Images : CallInsert(t, image)
            \/ CallEject(t)

Steps(t) == \/ CachedPath(t) \/ AnswerPath(t) \/ StorePath(t) \/ PathFails(t)
            \/ ReadNext(t) \/ Skip(t) \/ WalkRaises(t) \/ WalkEnds(t)
            \/ FindsLog(t) \/ ClearLog(t)
            \/ FindManager(t) \/ ReadMedia(t) \/ MediaGone(t) \/ ReadSlot(t) \/ ReadSlotToEject(t)
            \/ PreEject(t) \/ Insert(t) \/ Eject(t)

Next == \/ \E t \in Tasks : Calls(t) \/ Steps(t) \/ Take(t)
        \/ RenamePaths

Spec == Init /\ [][Next]_vars

-----------------------------------------------------------------------------
\* Properties

\* Every variable has its type, and a call looks for a path only while one is
\* missing.
TypeOK ==
  /\ bmc \in Bmcs /\ epoch \in 1..(MaxRenames + 1)
  /\ DOMAIN width = DOMAIN Shape /\ \A n \in DOMAIN width : width[n] \in {0, Shape[n]}
  /\ mounted \in [Slots -> Images \cup {None}]
  /\ cache \in [Roots -> 0..epoch]
  /\ \A t \in Tasks :
       LET c == call[t] IN
       /\ DOMAIN c = DOMAIN Idle /\ c.pc \in Pcs /\ c.kind \in Kinds /\ c.result \in Results
       /\ c.image \in Images \cup {None} /\ c.slot \in Slots \cup {0}
       /\ c.answer \in 0..epoch /\ c.path \in [Roots -> 0..epoch]
       /\ c.roots \in Seq(Roots) /\ c.pc \in {"path", "store"} => c.roots # <<>>
       /\ c.failed \cup c.foreign \subseteq Slots
       /\ c.pc = "returned" <=> c.result # "none"
  /\ faults \in 0..MaxFaults

Over(t, result) == call[t].pc = "returned" /\ call[t].result = result

\* The resources that have no members, and are still there.
Leaves == (UNION {ToSet(Kids(n)) : n \in {m \in DOMAIN width : Exists(m)}}) \ DOMAIN width

\* An inventory (processor_inventory and the others) has every resource that
\* is still below its collection, and none twice, but for those it could not
\* read or that lie below one it could not read; or it has as many as the
\* caller allows, "Pass `max_drives` to cap" (drive_inventory), and stopped
\* there.  Of a cap of 0 nothing is said but that no entry comes twice.
ListedExplained ==
  \A t \in Tasks : Over(t, "listed") /\ call[t].kind = "list" =>
    LET c == call[t] IN
    /\ \A j, k \in 1..Len(c.out) : j < k => c.out[j] # c.out[k]
    /\ c.limit \notin {None, 0} => Len(c.out) <= c.limit
    /\ \/ c.limit # None /\ Len(c.out) >= c.limit
       \/ \A n \in Leaves : IsPrefix(c.top, n) =>
            n \in ToSet(c.out) \/ \E m \in c.missed : IsPrefix(m, n)

\* sel_entries tries Log second, and its docstring lists it last; of the other
\* logs the two orders are the same, and this is where they agree.
Agreed(l, u) ==
  \/ l = <<"Sel">> /\ u # <<"Sel">>
  \/ l = <<"Lclog">> /\ u = <<"IML">>

Pos(l) == CHOOSE i \in 1..Len(LogOrder) : LogOrder[i] = l

\* sel_entries ("Tries paths in this order") returns the entries of one log at
\* most, and passes over a log only if it is empty or could not be read: the
\* logs that must come before the one it returns, and all of them if it returns
\* none.  "calls LogService.ClearLog on the first matching service" (clear_sel):
\* a call that returned emptied it, and could not read any that can be cleared
\* before it.
FirstLog ==
  \A t \in Tasks :
    LET c == call[t]
        read == {Front(n) : n \in ToSet(c.out) \cup {m \in c.missed : ~ IsLog(m)}}
    IN  /\ Over(t, "listed") /\ c.kind = "sel" =>
             /\ Cardinality(read) <= 1
             /\ \A l \in ToSet(LogOrder) :
                  (\A u \in read : Agreed(l, u)) => l \in c.missed \/ width[l] = 0
        /\ Over(t, "cleared") =>
             /\ Target(t) \in bmc.clearable /\ width[Target(t)] = 0
             /\ \A l \in bmc.clearable : Pos(l) < Pos(Target(t)) => l \in c.missed

\* insert_virtual_media returns the slot the image is in, unless another call
\* changed it meanwhile; a slot that takes CDs if there is one.  "Eject any
\* mounted media on every CD/DVD-capable slot" (eject_virtual_media): a call
\* that returned left none of them full but those whose eject failed and those
\* that another call changed meanwhile.
MediaAccounted ==
  \A t \in Tasks :
    LET c == call[t] IN
    /\ Over(t, "inserted") =>
         /\ c.slot \in c.foreign \/ mounted[c.slot] = c.image
         /\ c.slot \in IF bmc.cd = {} THEN {1} ELSE bmc.cd
    /\ Over(t, "ejected") =>
         \A i \in bmc.cd : mounted[i] = None \/ i \in c.failed \cup c.foreign
=============================================================================
