---------------------------- MODULE RedfishPlans ----------------------------
(***************************************************************************)
(* The operations of RedfishClient (redfish/client.py) that are a fixed    *)
(* sequence of requests: the snapshots, the settings and the resets.  Each *)
(* is a plan, and each of its requests is a call of RedfishAuth, so that   *)
(* logins, 401s, lost answers and cancellations fall between any two of    *)
(* them, and changes of the BMC's paths too.  RedfishOps has the walks.    *)
(*                                                                         *)
(* A plan is a sequence of blocks: a "try" around the requests of the      *)
(* block, and what a RedfishError in it leads to.                          *)
(***************************************************************************)
EXTENDS RedfishAuth, Sequences

CONSTANTS
  Lacks,       \* the BMCs considered: of each, what its collections do not list
  MaxRenames   \* bound: changes of the paths by the BMC

Roots == {"system", "chassis", "manager"}

ASSUME PlansAssumption ==
  /\ Lacks \subseteq SUBSET (Roots \cup {"interface"})
  /\ MaxRenames \in Nat

VARIABLES
  epoch,     \* the BMC's paths: the number of times they changed, and one
  lacks,     \* what the BMC lists none of
  cache,     \* _cached_system_path and its siblings: their epoch, or 0
  job        \* of each task: the operation under way

device == <<epoch, lacks>>
pvars  == <<vars, device, cache, job>>

\* A request: its kind, the resource it is for (below a root, or the service,
\* whose path is fixed), what its answer leads to, whether that is
\* cached, and what happens when the answer lists nothing.
Request(kind, on) == [kind |-> kind, on |-> on, finds |-> "nothing", cached |-> FALSE, empty |-> "error"]
Get(on)     == Request("get", on)
Post(on)    == Request("post", on)
First(root) == [Get("service") EXCEPT !.finds = root]

Must(s)  == [requests |-> s, onError |-> "raise"]
Try(s)   == [requests |-> s, onError |-> "pass"]
OrEnd(s) == [requests |-> s, onError |-> "return"]

\* _first_system_path, _first_chassis_path, _first_manager_path
Path(root) == [First(root) EXCEPT !.cached = TRUE]

-----------------------------------------------------------------------------
\* The operations

heartbeat ==
  <<Must(<<[First("system") EXCEPT !.empty = "return"], [Get("system") EXCEPT !.finds = "chassis", !.empty = "return"]>>),
    Try(<<Get("chassis")>>)>>

\* Without an Oem key the name of the manager decides.
detect_vendor == {<<Must(<<Get("service")>>)>>, <<Must(<<Get("service")>>), Try(<<Get("service")>>)>>}

CachedSystem == Path("system")
FirstSystem == First("system")
power_action == <<Must(<<FirstSystem, Post("system")>>)>>

system_info ==
  <<Must(<<Path("system"), Get("system")>>),
    Try(<<Path("chassis"), Get("chassis")>>), Try(<<Path("manager"), Get("manager")>>)>>

temperatures   == <<Must(<<Path("chassis")>>), Try(<<Get("chassis")>>)>>
fans           == temperatures
power_supplies == temperatures
power_metrics  == temperatures

boot_config    == <<Must(<<Path("system"), Get("system")>>)>>
set_next_boot  == <<Must(<<Path("system"), Post("system")>>)>>
set_boot_order == set_next_boot

\* The interfaces, the first of them, the manager and its NTP servers.
network_info ==
  <<Must(<<Path("manager")>>), OrEnd(<<[Get("manager") EXCEPT !.finds = "interface", !.empty = "return"]>>),
    Must(<<Get("manager")>>), Try(<<Get("manager"), Get("manager")>>)>>

\* Of iDRAC the manager, the licenses and the first of them; of iLO the
\* manager; of others the service root only.
license_info ==
  {<<OrEnd(<<Get("service")>>), Try(<<Path("manager"), Get("manager"), Get("manager"), Get("manager")>>)>>,
   <<OrEnd(<<Get("service")>>), Try(<<Path("manager"), Get("manager")>>)>>,
   <<OrEnd(<<Get("service")>>)>>}

chassis_health ==
  <<Try(<<Path("system"), Get("system")>>), Try(<<Path("chassis"), Get("chassis")>>),
    Try(<<Path("manager"), Get("manager")>>)>>

indicator_led == <<Must(<<Path("chassis"), Post("chassis")>>)>>
reset_bmc     == <<Must(<<Path("manager"), Post("manager")>>)>>
nmi_trigger   == <<Must(<<Path("system"), Post("system")>>)>>

Plans == {heartbeat, power_action} \cup detect_vendor \cup license_info \cup
  {system_info, temperatures, fans, power_supplies, power_metrics, boot_config, set_next_boot,
   set_boot_order, network_info, chassis_health, indicator_led, reset_bmc, nmi_trigger}

-----------------------------------------------------------------------------
\* plan: what is left of it; path: of the roots found, or 0; answer: the epoch
\* of the last answer.  Kept for the properties: whether the plan looks for its
\* system anew and whether it acts; the epoch when it began; executions of its
\* POST or PATCH; and whether a request of it failed without a reason.
NoJob == [plan |-> <<>>, path |-> [r \in Roots |-> 0], answer |-> 0, outcome |-> "none",
          looks |-> FALSE, acts |-> FALSE, since |-> 0, acted |-> 0, unexplained |-> FALSE]

Looked == {heartbeat, power_action}
Acting == {power_action, set_next_boot, set_boot_order, indicator_led, reset_bmc, nmi_trigger}

PInit ==
  /\ Init
  /\ epoch = 1 /\ lacks \in Lacks
  /\ cache = [r \in Roots |-> 0]
  /\ job = [t \in Tasks |-> NoJob]

Next1(plan) == Head(Head(plan).requests)

\* The plan without its next request.
Rest(plan) ==
  IF Len(Head(plan).requests) = 1 THEN Tail(plan)
  ELSE <<[Head(plan) EXCEPT !.requests = Tail(@)]>> \o Tail(plan)

\* A path that is cached is not asked for.
ReuseForgets(j) ==
  IF j.plan # <<>> /\ Next1(j.plan).cached /\ cache[Next1(j.plan).finds] # 0
  THEN [j EXCEPT !.plan = Rest(@)]
  ELSE j
Reuse(j) ==
  IF j.plan # <<>> /\ Next1(j.plan).cached /\ cache[Next1(j.plan).finds] # 0
  THEN [j EXCEPT !.plan = Rest(@), !.path[Next1(j.plan).finds] = cache[Next1(j.plan).finds]]
  ELSE j

End(t, j, r) ==
  /\ job' = [job EXCEPT ![t] = [j EXCEPT !.plan = <<>>, !.outcome = r,
                                        !.path = NoJob.path, !.answer = 0, !.since = 0]]
  /\ UNCHANGED vars

\* The next request, or the end.
GoOn(t, j) ==
  LET n == Reuse(j)
  IN  IF n.plan = <<>> THEN End(t, n, "ok")
      ELSE job' = [job EXCEPT ![t] = n] /\ Call(t, Next1(n.plan).kind)

Perform(t, plan) ==
  /\ job[t] = NoJob
  /\ GoOn(t, [NoJob EXCEPT !.plan = plan, !.since = epoch,
                           !.looks = plan \in Looked, !.acts = plan \in Acting])
  /\ UNCHANGED <<device, cache>>

\* The caller goes on with the result.
Take(t) ==
  /\ job[t].outcome # "none"
  /\ job' = [job EXCEPT ![t] = NoJob]
  /\ UNCHANGED <<vars, device, cache>>

-----------------------------------------------------------------------------
\* A request is over

Waits(t) == job[t].plan # <<>> /\ pc[t] = "idle"

\* The path is still the BMC's.
Reached(t) ==
  LET on == Next1(job[t].plan).on IN on = "service" \/ job[t].path[on] = epoch

ListsNothing(t) == Next1(job[t].plan).finds \in lacks

\* Why a request may fail: what RedfishAuth calls a disturbance; with Basic, a
\* header that the BMC rejects; nothing to be listed; or a path that is not the
\* BMC's any more, which takes a change since the call of those that look for
\* their system anew.
Reason(t) ==
  \/ disturbed[t] \/ (auth_mode = "basic" /\ basic_header # password)
  \/ ListsNothing(t)
  \/ ~ Reached(t) /\ (job[t].looks => epoch # job[t].since)

Noted(t) ==
  LET j == job[t]
  IN  [j EXCEPT !.acted = @ + IF Next1(j.plan).kind = "post" THEN execs[t] ELSE 0]
Failed(t) == [Noted(t) EXCEPT !.unexplained = @ \/ (~ Reason(t) /\ result[t] # "cancelled")]

Answered(t) ==
  LET j == Noted(t)
      s == Next1(j.plan)
  IN
  /\ Waits(t) /\ result[t] = "ok" /\ ~ ListsNothing(t)
  /\ cache' = IF s.cached THEN [cache EXCEPT ![s.finds] = j.answer] ELSE cache
  /\ GoOn(t, [j EXCEPT !.plan = Rest(@),
                       !.path = [r \in Roots |-> IF r = s.finds THEN j.answer ELSE @[r]]])
  /\ UNCHANGED device

\* A RedfishError of the call, or of an answer that lists nothing.
Catches(t) ==
  CASE Head(job[t].plan).onError = "raise"  -> End(t, Failed(t), "RedfishError")
    [] Head(job[t].plan).onError = "return" -> End(t, Failed(t), "ok")
    [] Head(job[t].plan).onError = "pass"   -> GoOn(t, [Failed(t) EXCEPT !.plan = Tail(@)])

Errs(t) ==
  /\ Waits(t)
  /\ \/ result[t] = "RedfishError"
     \/ result[t] = "ok" /\ ListsNothing(t) /\ Next1(job[t].plan).empty = "error"
  /\ Catches(t)
  /\ UNCHANGED <<device, cache>>

\* heartbeat and network_info return without the rest.
EndsEmpty(t) ==
  /\ Waits(t) /\ result[t] = "ok" /\ ListsNothing(t) /\ Next1(job[t].plan).empty = "return"
  /\ End(t, Failed(t), "ok")
  /\ UNCHANGED <<device, cache>>

\* Anything else leaves the operation: no handler catches it.
Raises(t) ==
  /\ Waits(t) /\ result[t] \in {"raw", "cancelled"}
  /\ End(t, Failed(t), result[t])
  /\ UNCHANGED <<device, cache>>

Continue(t) == Answered(t) \/ Errs(t) \/ EndsEmpty(t) \/ Raises(t)

-----------------------------------------------------------------------------
\* The BMC

\* An answer carries the paths of the moment; 404 for a path of another time.
ServeJob(t) ==
  /\ pc[t] = "request"
  /\ IF ~ Accepts(loc[t].cred) \/ Reached(t) THEN ServeRequest(t)
     ELSE /\ Reply(t) = "none" /\ Answer(t, "fail", 0) /\ NoFault
          /\ UNCHANGED <<client, pool, bmc, pc, loc, execs, result>>
  /\ job' = [job EXCEPT ![t].answer = epoch]
  /\ UNCHANGED <<device, cache>>

\* An update or a reset: the first system, chassis and manager have other paths.
RenamePaths ==
  /\ epoch <= MaxRenames
  /\ epoch' = epoch + 1
  /\ UNCHANGED <<vars, lacks, cache, job>>

-----------------------------------------------------------------------------
\* A step of the requests alone.
Below(A) == A /\ UNCHANGED <<device, cache, job>>

Progress(t) == \/ Continue(t) \/ ServeJob(t)
               \/ Below(Resume(t) \/ ServeSession(t) \/ ServeProbe(t) \/ Lose(t))

PNext ==
  \/ \E t \in Tasks : \/ \E plan \in Plans : Perform(t, plan)
                      \/ Progress(t) \/ Take(t)
                      \/ Below(Cancel(t))
                      \/ job[t].plan = <<>> /\ Below(Close(t))
  \/ Below(Age \/ Rotate \/ \E s \in live : Expire(s))
  \/ RenamePaths

PSpec == PInit /\ [][PNext]_pvars

\* asyncio resumes a coroutine whose await is over, and HTTP_TIMEOUT turns a
\* request that is never answered into an httpx error.
PFairSpec == PSpec /\ \A t \in Tasks : WF_pvars(Progress(t))

-----------------------------------------------------------------------------
\* Properties

\* Every variable has its type, and an operation waits for a request of its
\* plan, below a root that it has found.
PTypeOK ==
  /\ epoch \in 1..(MaxRenames + 1) /\ lacks \in Lacks /\ cache \in [Roots -> 0..epoch]
  /\ \A t \in Tasks :
       LET j == job[t] IN
       /\ DOMAIN j = DOMAIN NoJob
       /\ j.outcome \in Results /\ j.path \in [Roots -> 0..epoch] /\ j.answer \in 0..epoch
       /\ InCall(t) => j.plan # <<>>
       /\ j.plan # <<>> /\ Next1(j.plan).on \in Roots => j.path[Next1(j.plan).on] # 0

\* An operation raises, or goes on without a part, only for a reason (see
\* Reason): a token that expired, on whichever of its requests, is none, and
\* neither is a change of the paths before the call for heartbeat and
\* power_action, which do not use the cached ones.
OutcomeExplained == \A t \in Tasks : ~ job[t].unexplained

\* A setting or a reset (power_action, set_next_boot, reset_bmc...) is executed
\* once if the operation returns and at most once if it raises, whatever had
\* to be repeated on the way; a snapshot changes nothing.
ActsOnce ==
  \A t \in Tasks :
    LET j == job[t]
    IN  /\ j.acted <= IF j.acts THEN 1 ELSE 0
        /\ j.acts /\ j.outcome = "ok" => j.acted = 1

\* Every operation ends: it gets past each of its requests, and those are ended
\* by the timeouts of the httpx client.
OperationsEnd == \A t \in Tasks : job[t].plan # <<>> ~> job[t].plan = <<>>
=============================================================================
