# Verification of bmc-adapters

TLA+ models of the parts of bmc-adapters in which several things can happen in
an order nobody wrote down: coroutines that share a client, worker threads that
outlive their caller, sessions that expire, packets that are lost, and a power
action that falls from one transport to the next. Every module is a translation
of the code under `bmc_adapters/`; `PROJECT.json` maps each definition to the
lines it stands for. TLC checks the modules on small instances, and TLAPS
proves what the runs find true of them, liveness apart, for every value of the constants.

To check one instance: `tlc -config IpmiShared.cfg MCIpmiClient.tla`. To check
the proofs: `tlapm RedfishAuthProofs.tla`, and the same for `RedfishPlansProofs`,
`RedfishOpsProofs`, `RacadmProofs`, `IpmiClientProofs`, `SolSessionProofs`,
`PowerDispatchProofs` and `RaritanPduProofs`.


## 1. The system

| Component | State | Operations | Modelled by |
|---|---|---|---|
| `RedfishClient`, authentication (`redfish/client.py`) | `_auth_mode`, `_session_token`, `_session_expires_at`, `_basic_header`, `session_dirty`, `_http` | `_ensure_auth`, `_login`, `_get`, `_post_action`, `_patch`, `close` | `RedfishAuth` |
| `RedfishClient`, operations | cached system, manager and chassis paths | inventories, `sel_entries`, `clear_sel`, virtual media: walks over what the BMC lists | `RedfishOps` |
| | | `heartbeat`, `detect_vendor`, the snapshots, power, boot, LED, NMI, reset: fixed sequences of requests | `RedfishPlans` (on `RedfishAuth`) |
| `AsyncSSHCLIClient` (`transport/ssh.py`) | `_conn`, `_sem`, `_lock` | `run`, `_ensure`, `aclose` | `SshTransport` |
| `RACADMClient` (`racadm/`) | none beyond the transport's | ten commands, `racreset`, `aclose` | `Racadm` |
| `IPMIClient` (`ipmi/client.py`) | `_cmd` (the pyghmi session), `_lock`, the threads at work | `__aenter__`, `aclose`, six commands | `IpmiClient` |
| `BMC` orchestrator (`bmc.py`) | its adapters and `pdu_outlet` | `power_action`, `features`, `findings`, `aclose` | `PowerDispatch` |
| SNMP PDU drivers (`pdu/_snmp.py`, `base.py`, `apc.py`, `eaton.py`, `cyberpower.py`, `tripplite.py`) | none; the outlets are on the PDU | `outlet_on/off/cycle/state`, `list_outlets`, `set_outlet_name`, `power_metrics` | `PduOutlets` |
| Serial-over-LAN (`ipmi/sol.py`) | the console, a bounded queue, `closed`, `send_lock` | `sol_session`, the receiver, the sender | `SolSession` |
| Raritan PDU (`pdu/raritan.py`) | `_token`, `_http` | outlet commands, `list_outlets`, `power_metrics`, `aclose` over JSON-RPC | `RaritanPdu` |
| PDU detection (`pdu/detect.py`) | none | one prefix match | no |
| PiKVM (`pikvm/client.py`) | an httpx client | stateless HTTP calls | no |
| Wake-on-LAN (`wol.py`) | none | builds and sends a packet | no |
| Findings (`findings.py`) | constant tables | look-ups | no |

How they interact:

- **Coroutines share a client.** All clients are asyncio objects that any number
  of tasks may hold. A coroutine runs undisturbed between two awaits, and at
  every await every other task may change what it shares. `RedfishClient` has no
  lock at all. `AsyncSSHCLIClient` has a semaphore for commands in flight and a
  lock around opening and closing. `IPMIClient` has a lock around its commands.
- **Worker threads.** IPMI commands and the SOL console run pyghmi in a thread
  and await it. The await can be cancelled; the thread cannot. What the console
  reads comes back from its thread through the loop and a bounded queue.
- **Calls between components.** `RACADMClient` is built on `AsyncSSHCLIClient`.
  `BMC.power_action` tries Redfish, then IPMI, then the outlet of a PDU, and
  takes any exception as the reason to go on.
- **The outside.** BMCs expire sessions, answer slowly, or execute a request and
  fail to say so; SNMP goes over UDP; callers cancel, close, and rotate passwords.

What is hard, and which property it is about, is listed line by line under
`hazards` in `PROJECT.json`. In short:

| Component | What makes it correct |
|---|---|
| Redfish authentication | no request is executed twice; a retry never carries the refused token; sessions on the BMC and httpx clients are accounted for; a call fails only for a reason; no way back from Basic |
| Redfish operations | a listing has everything once, but for what could not be read; one log is read, and no log that comes before it is passed over without a cause; the first log that can be is cleared; media end where the call says; a setting is executed once if the call returns; an operation fails or leaves a part out only for a reason, whichever of its requests met it |
| SSH and RACADM | permits are conserved; never two connections; a timeout or a `racreset` leaves its connection closed; nobody waits for ever; together, a pool of one connection and `max_concurrent` places |
| IPMI | no command on a session that is being logged out; no session lost without a cause; commands one at a time; every call ends |
| Serial-over-LAN | bytes arrive in order, and are lost only by an overfull queue; the console is closed on every way out but two cancelled ones and a failing `close()`; receivers and senders learn of the close |
| Dispatch and SNMP PDUs | each adapter is asked at most once and in order, and the reply names the one that acted; the PDU comes last; an outlet that is switched had the name asked for; errors and repeated commands are explained by lost packets and error answers |
| Raritan | no request without a session; sessions are released; a command reaches the outlet with the label or the name asked for; a call fails only for a reason |


## 2. The modules

```
RedfishAuth   <- MCRedfishAuth,  RedfishAuthProofs
              <- RedfishPlans    <- MCRedfishPlans
RedfishPlans, RedfishAuthProofs  <- RedfishPlansProofs
RedfishOps    <- MCRedfishOps, RedfishOpsProofs
SshTransport  <- Racadm          <- MCRacadm, RacadmProofs
   implements SshPool
IpmiClient    <- MCIpmiClient, IpmiClientProofs
SolSession    <- MCSolSession, SolSessionProofs
PduOutlets    <- PowerDispatch   <- MCPowerDispatch, PowerDispatchProofs
                    implements Dispatcher
RaritanPdu    <- MCRaritanPdu, RaritanPduProofs
```

`X <- Y` means that `Y` extends each `X`. `SshPool` and `Dispatcher` are abstract
specifications, instantiated with a refinement mapping by the modules that
implement them.

A step of a module is what a coroutine does between two awaits, what a thread
or the BMC does, or a fault. Where a coroutine waits is its `pc`; its local
variables are recorded only as far as they are used after an await. Faults,
cancellations and the like are counted, and a constant bounds the count.

**RedfishAuth.** `Call` is the start of `_get` or of `_post_action` / `_patch`
(the two last are one `kind`: they differ in what is caught, not in control).
`EnsureAuth` and `SendRequest` are the shared parts. `ResolvePassword`,
`TokenGranted`, `FallBack`, `LoginFails`, `ProbeAccepted` and `ProbeFails` are
`_login` from await to await; `Retry` is the 401 handler, `RequestDone` and
`RequestLost` the other ends of a call; `Close` and `CloseDone` are `close()`.
The BMC (`ServeSession`, `ServeProbe`, `ServeRequest`, `Expire`) and the network
(`Lose`) are the environment. `Lose` and `Cancel` are separate from the BMC's
executing a request, so an executed request may be lost. A token is a number,
and so is a version of the password; `fresh` is the test of
`session_expires_at` against the clock, which `Age` turns.

**RedfishPlans.** The operations that make a fixed sequence of requests. Each is
a *plan*: blocks of requests, a block being a `try` around them and what a
`RedfishError` in it leads to ("raise", "pass" on to the next block, or "return"
what there is). Each request is a whole call of `RedfishAuth`, whose actions are used
unchanged: logins, 401s and their retry, Basic, lost answers, cancellation and `close()`
fall between any two requests. What a plan finds (system, chassis and manager
path) is kept as the `epoch` in which it was read, in the plan or in the
client's `cache`, and `RenamePaths` starts a new epoch, after which an old path
gets a 404. `heartbeat` and `power_action` look for the system anew, the others
use the cached path. `lacks` is what the BMC does not have. An operation such as
`system_info`, with a `try` around a part, goes on without it.

**SshTransport, Racadm, SshPool.** `EnterSem`, `Ensure`, `Connected`, `ConnectFails` and
the `Command...` actions are `run()` with `_ensure()`; `CloseConn` and
`CloseDone` are `aclose()`, called by a user or by `run()` after
`command_timeout`. A connection is open, closing or closed, since asyncssh hands
out a connection that is on its way down until `is_closed()` says so. `Racadm`
adds the method under way (`op`) and its `verdict`, and `DeviceExecutes`, in which
a `racreset` ends every connection to the device. Its `CallClose` and `CallRun`
are the transport's own. `SshPool` is what the docstring of the transport promises, in five
lines: at most `MaxConcurrent` tasks run, and there is never a second connection.
`PoolKept` is that specification with `running` as the tasks that hold a permit and `open` as the
connections that are not closed.

**IpmiClient.** Each task waits for a thread (`job`), which is queued, running,
done or failed. `Cancel` turns a running thread into an orphan and frees the
lock. A thread reads `self._cmd` when it starts, as the code's closures do. The
six commands are one action, since they do the same to everything that is
modelled.

**SolSession.** One session after another. `owner` is the task in `sol_session`,
`job` the thread that builds or closes the console (a thread that no worker has taken yet is
dropped by a cancellation, a running one goes on), `OnData`, `Put` and `Receive` are the two hops of
a chunk: `call_soon_threadsafe` from pyghmi's thread, `put_nowait` in the loop, `get`
in the receiver. `Timeout` is the half second after which `_receiver` looks at
`closed`. The senders wait for `send_lock` and then for a thread.

**PduOutlets, PowerDispatch, Dispatcher.** `PduOutlets` is one call of a driver at a time
over UDP: to resolve a name, the walk of the names and those of the other
columns (`list_outlets`; the latter are one walk here), then one set or get, with
pysnmp's resends. A packet is lost (`Resend`, `GiveUp`), or the PDU answers with an
error (`ErrorAnswer`): either ends a walk with what it has, and a set or get with an
exception (`Fails`). The drivers keep no state between
calls, so calls that overlap behave as each does alone; renames are what
other callers can do to a call. `PowerDispatch` adds `power_action` with the two
verb tables. A transport that `Acts` may still raise. `Dispatcher` is what
`power_action` promises: adapters in a fixed order, each with at most one turn, a
reply that names one that acted, or "raised" after the last. An adapter may act
and fail to say so, which no dispatcher can know. `Dispatches` maps `present` to
the adapters of the BMC object, `at` to the one whose code runs, `acted` to those
that executed the action (the PDU when its outlet was switched).

**RaritanPdu.** Any number of tasks share the client. `Rpc` is where `_rpc`
decides between logging in and sending; `LoggedIn` ... `Fails` are a call from
await to await, `Close` and `LoggedOut` `aclose()`. The PDU serves, refuses, forgets sessions
(`Expire`) and has its outlets renamed. Labels count from 1 and the wire from 0
(`WireIndex`), as in the code, so a slip between the two would reach another outlet.

**RedfishOps.** A resource is the path of indices to it; an inventory walks the
resources below a collection, at one or two levels, and skips what raises
`RedfishError`. `sel_entries` and `clear_sel` walk four logs in the code's order
(Sel, Log, Lclog, IML), under the system's and the manager's path.
`cache` holds these paths as the `epoch` in which they were read; `RenamePaths`
starts a new epoch. Of the virtual media, the manager is asked for (`FindManager`), then its slots
(`ReadMedia`), then each slot, and a slot is ejected or filled, with one step per request; after a
renaming their addresses are stale (`MediaGone`). Authentication is left to `RedfishAuth`: a request is answered
or fails.


## 3. What is checked

| Run | Instance | States | What it shows |
|---|---|---|---|
| `redfish_shared` | 2 tasks, one may close; BMC with and without sessions; 2 faults | 650 000 | `ExecutedOnce`, `RetryHasNewToken`, `SessionsAccounted`, `NoClientLeak`, `FailureExplained`, `BasicStays` |
| `redfish_plans` | 1 task, 17 operations (15 distinct plans), BMC with and without chassis and interfaces; 2 faults, 1 rename; fair | 783 000 | `OutcomeExplained`, `ActsOnce`, `OperationsEnd` |
| `redfish_rejected_basic` | 1 task | - | `RejectedBasicDropped` is violated |
| `redfish_ops` | 2 tasks, 2 inventories (drives of two controllers, two at the most, and all firmware), 4 logs, 2 slots, 1 fault, 1 rename | 1 810 000 | `ListedExplained`, `FirstLog`, `MediaAccounted` |
| `racadm` | 2 tasks, 2 permits, 3 faults; fair | 184 000 | `PermitsConserved`, `OneConnection`, `TimedOutClosed`, `ResetDropsSession`, `PoolKept`, `CallsReturn` |
| `racadm_reset` | 2 tasks | - | `ResetHadSession` is violated |
| `ipmi_shared` | 2 tasks, client opened twice, 2 cancellations, 2 failures; fair | 26 000 | `LiveSession`, `NoSessionLost`, `SerialUnlessCancelled`, `CallsReturn` |
| `ipmi_serial` | 2 tasks, 1 cancellation | - | `Serialised` is violated |
| `sol` | 2 senders, queue of 2, 4 chunks, 2 faults, any number of sessions; fair | 91 500 | `InOrder`, `ConsoleAccounted`, `SolEnds` |
| `sol_deactivated` | 1 chunk, 1 fault | - | `Deactivated` is violated |
| `power_dispatch` | 2 outlets, 2 names, 1 resend, 3 losses or error answers, 2 renames, 7 of 9 verbs (`soft`, `reset` and `nmi` are one kind), 2 exceptions | 1 977 000 | `RightOutlet`, `CallExplained`, `LastResort`, `Dispatches` |
| `raritan` | 2 tasks, 2 outlets, 2 names, 2 faults, 1 rename | 1 720 000 | `SessionsReleased`, `NamedOutlet`, `FailureExplained` |

Each run with invariants also checks the type invariant of its module, and each
property has a mutant: a plausible mistake in one action that the run then
finds.

### Why the bounds are enough

- *Tasks.* Two tasks are enough for one to change what the other has read and
  will use. The two of the SSH pool have a permit each, so that one waits for the lock
  that the other holds; that a task may have to wait for a permit changes nothing of
  what is shared, and the proofs hold for any number of tasks and permits. `RedfishPlans` has one task: its
  concurrent requests are those of `RedfishAuth`, checked there with two, and
  what it adds is the order of requests within an operation. The one task cannot call `close()` between
  two requests of an operation either: it closes the client between operations only.
- *Faults.* Two faults at any two places give a fault and another during the
  recovery from it. The SSH pool has three, and timeouts, lost connections, cancellations, closes and
  racresets each count as one: after a command's timeout a sibling may close or replace the
  connection that it timed out on, and one of the two closes may be cancelled. Its safety is proved for any
  number of them.
- *Opens.* The IPMI client is opened twice, since the second `__aenter__` is what
  may replace a session that is still up.
- *Chunks.* A queue of two and four chunks: the queue fills while one chunk is
  with the receiver and one more is on its way, and one is dropped.
- *Losses.* With one resend, three losses cut a walk short (two) and still
  lose one answer to the set that follows; an answer with an error counts as a loss. Two renames move a name from
  one outlet to the other.
- *Inventory.* Two storage controllers have two drives and one, listed with a limit of two, and two pieces of
  firmware without one: a part is passed over, the limit ends a listing, and a listing of several leaves misses none. The
  firmware needs no cached path. One of the two BMCs has two logs that can be cleared, the other none. The first log is empty and two that follow have entries, so reading only one log matters. A
  limit of 0 is not in the instance (see below).

Symmetry is used where tasks, or names differ in nothing and no fairness
is stated. Deadlock is checked in every run but the two of IPMI, where the system may really
stop: a client whose last permitted `__aenter__` failed
is in nobody's hands and has nothing left to do.

### Fairness

Liveness (`OperationsEnd`, `CallsReturn` of RACADM and of IPMI, `SolEnds`) is
checked under the weakest fairness the code's own scheduling gives:

- asyncio resumes a coroutine whose await is over (weak fairness of `Progress`,
  `Continue`, `OpReturns` and the like, for each task);
- `asyncio.Lock` and `asyncio.Semaphore` are first in, first out, so a waiter is
  not passed over for ever (strong fairness of `EnterSem`, `Ensure`, `CloseConn`,
  `LockOp`, `LockClose`, `SendLocks`);
- `HTTP_TIMEOUT` (httpx) turns a request without an answer into an exception
  (`Lose` in `Progress` of `RedfishPlans`). An operation is a finite plan, so
  it ends if each of its requests does, and no request is sent a third time;
- `connect_timeout` and `command_timeout` end what an SSH device does not answer,
  and closing a connection is local. The models ask for the outcome (the device
  answers or the connection ends); the timeout itself is one of the bounded
  faults;
- pyghmi bounds its own retries, so a thread that runs ends, and the thread pool
  starts what is queued;
- whoever iterates over the SOL receiver asks for the next chunk, and its timeout
  of half a second fires: only when it is `closed` does that need to happen.

No fairness is assumed of callers or of faults.

### What the violated properties say

Each restates a sentence of the repository, and the code does otherwise. The lines are
in `PROJECT.json`, `findings`.

- `RejectedBasicDropped`: the probe is to keep the client from falling back to
  credentials the BMC rejects, but mode and header are set before the probe and
  stay when it fails. Later calls go out with the rejected header, and no call
  logs in again.
- `ResetHadSession`: `racreset` takes every `TimeoutError` as the reset at work,
  that of `connect()` included, and so reports a reset that was never sent.
- `Serialised`: the lock is to keep commands from overlapping on the RMCP+
  session. A cancelled caller releases it while its thread still talks.
  `SerialUnlessCancelled` is what remains true: of the callers that took the lock and still wait, one at a time has a
  thread. The Get Device ID of a second `__aenter__` does not take the lock and is left out.
- `Deactivated`: the payload is always to be deactivated on exit. When the owner is cancelled
  while its `close()` waits for a worker thread, nobody calls it any more.
  `ConsoleAccounted` is what remains true: that cancellation, one while the console is being built, or a `close()`
  that raises, is the only way to leave one open.

### Other behaviours met in the models

No run shows these. Where a line of the repository says otherwise, it is quoted; the property named is stated so that it holds.

- A token given to the constructor of `RedfishClient` is documented as cached (`session_token`), but the mode
  starts as "unknown", which always logs in (`EnsureAuth`), so it is never used.
- With `check=False`, an SSH command whose channel ends early returns its output
  so far, so a RACADM method may parse a truncated answer (`CommandCut`, "short").
- `sensors`, `fru` and `sel_entries` of IPMI turn every exception into an empty
  list, also that of a client that a sibling has closed (`Started`).
- A 401 that arrives late drops the token another task has just obtained.
  `SessionsAccounted` gives the price for n tasks: up to n sessions for each task and fault,
  none of which the client deletes. A change of the password may cost each task n (n - 1) more: a login
  with the old one leaves the client in Basic mode, from which the next answered login takes it back.
- One `power_action("off")` of `BMC` is a graceful shutdown on Redfish (`GracefulShutdown`) and a hard power
  cut on IPMI, where pyghmi's "off" is immediate, although the comment in `bmc.py` (line 90) reads "'off' → soft";
  when the answer of Redfish is lost, both happen. `Dispatches` speaks of who acts, not of how.
- `eject_virtual_media` reads each slot outside its `try` and catches
  `RedfishError` only: an unreadable slot, or an httpx error of a POST, ends the loop
  (`WalkRaises`, `MediaGone`, `Posts`), although the docstring says "a failure on one slot doesn't prevent attempting
  the others" (`redfish/client.py`, 463-464). `MediaAccounted` speaks of the calls that return. The code also ejects slots that are not
  for CDs, of which the property says nothing.
- `sel_entries` tries Sel, Log, Lclog, IML; its docstring (`redfish/client.py`, 972-976) lists Sel, Lclog, IML, Log. In the
  instance, where Log and Lclog both have entries, the code returns those of Log and the docstring asks for
  those of Lclog. `FirstLog` demands only what both orders have in common (`Agreed`).
- A limit is tested after an entry was added, so a `max_drives` or a `limit` of 0 gives one entry.
  `ListedExplained` leaves the length of such a listing open.
- Cached paths survive a renaming: listings then miss what lies below, silently (a resource that
  is not there counts as one that could not be read in `ListedExplained`),
  and the settings of `RedfishPlans` fail until the client is replaced. `Reason`
  counts that as one for all but `heartbeat` and `power_action`.
- Two Raritan calls that find no token both log in; the first session is logged
  out by nobody. `SessionsReleased` states the price. After the PDU's session timeout
  every call raises, since `_rpc` never logs in again (`FailureExplained`).
- A `sol_session` cancelled while its thread builds leaves the console open, with nobody to
  close it, and one whose `close()` raises ends as if it had not (`ConsoleAccounted`).
- A verb that no adapter knows ("soft" without IPMI, a misspelt one) is not
  refused when there is a PDU: it is a hard outlet cycle. `LastResort` states the
  order in the form that is true, with the adapters that know the verb.
- `BMC.aclose` calls `aclose` on a `RedfishClient`, which has `close` only; the
  `AttributeError` is swallowed.


## 4. What is proved

Every invariant, action property and refinement that a passing run checks is a theorem. They
hold for any finite set of tasks, any bound on faults, cancellations, losses and renames, any
`max_concurrent`, any outlets, names, verbs and number of resends, any tree of resources and any
logs and slots, from the named assumptions on the constants alone (`RedfishAssumption`,
`PlansAssumption`, `OpsAssumption`, `BmcKindsAssumption`, `SshAssumption`, `IpmiAssumption`, `SolAssumption`,
`PduAssumption`, `DispatchAssumption`, `RaritanAssumption`), which TLC evaluates on the instances. Two
theorems assume more, and say so: `NoClientLeakHolds`, that at most one task
closes the client (two `close()` calls at once can both take the same httpx client), and `OutcomeExplainedHolds`, that one
task uses it (with more, what disturbed a task need not have met the operation that
fails for it).

**RedfishAuthProofs.** Seven theorems about `Spec`.

1. `TypeCorrect`: `TInv`, the type invariant with what is true of each call at
   each `pc` (`PerCall`). It is needed because a request takes its credential from
   the client: that it is never empty rests on the mode at that moment. The lemmas
   `ReturnCalls`, `AwaitCalls`, `SendRequestCalls` and `EnsureAuthCalls` say what the parts of
   the actions do, once; `TInvStep` has a step per action.
2. `ExecutedOnceHolds`: not inductive by itself, for whether a second
   attempt may be sent depends on the first one's answer. `ExecInv` adds: nothing
   was executed before the request is answered, nor when the answer is a 401, and
   exactly once when it is "ok". `OthersSame` shows that a task's step leaves the
   calls of the others alone.
3. `RetryHasNewTokenHolds`: tokens flow from the BMC's answer to the client, to the
   requests, and from a refused request to its retry. `TokenInv` says along that
   way that a grant not yet taken is in no request and differs from all other
   grants, that ids not issued yet are unused, and that a refused token is never
   the client's again. Without the first two, a late grant could be the
   token that was refused.
4. `FailureExplainedHolds`: whatever may make a call fail has disturbed it (`WhyInv`). Of each
   call: the httpx client it goes through is open (`Connected`); a failed answer, a password that is not
   the BMC's, or a fallback to Basic while there is a session service (`Informed`); and the token
   that it retries with is live, and a client that left session mode while the call had a
   token (`Admitted`): each holds, or has disturbed it. The steps of
   the others either are `Harmless` to a call or mark it as disturbed.
5. `BasicStaysHolds`: only a login leads out of Basic mode, and no call begins one in it.
6. `NoClientLeakHolds`: no httpx client but `http` is ever open, and while `close()` waits for one,
   that one is not open either (`PoolInv`).
7. `SessionsAccountedHolds` is a bound, and so the invariant is a potential. At its `Place` (at home,
   waiting for a grant, with a request that may still get a 401, ...) and in the `Mood` of the client
   (does it hold a token that is good, or one the BMC dropped, or is it in Basic mode), each
   of the n tasks owes a number of sessions (`Owed`), at most 1 + n * n. `SessionInv`: the sessions
   issued, and all that is still owed, are within the bound. A step of a call is `Paid`: what it adds to
   the sessions, or makes others owe, its own task owed before. A fault adds at most n * n
   (`Charged`) and a change of the password at most n * n * n (`ChargedTwice`), which are the terms of the bound.
   The sum of what is owed is the cardinality of a set of unit squares (`Columns`), one
   column for each task, since the prover knows finite sets and not sums.

**RedfishPlansProofs.** Three theorems about `PSpec`, which extends the actions of `RedfishAuth`; all
of `RedfishAuthProofs` is used as it is.

1. `PlansTyped` and `ActsOnceHolds`: what the plans have in common is stated once, of plans. A plan is `Sound`
   if every request is below a root that is known by then; it is `ActsLast` if the request that changes something is its last.
   `Rest`, what is left of a plan after an answer, keeps both. With
   `ExecutedOnce` of the requests, an operation has executed its action only when the return is
   all that is left of it.
2. `OutcomeExplainedHolds`: with `WhyInv`, a request fails only if it was disturbed, or the BMC rejects the Basic
   header, or (`Gone`) its path is of an earlier epoch, and then a rename or a stale cache is the reason.

**RedfishOpsProofs.** Four theorems about `Spec`, from two layers.

1. `OpsInv`: the device, the types, and for each kind of call what is left to be read (`KindInv`): of
   `sel_entries` and `clear_sel` a tail of the list of logs, with the ones before it `Useless`, or entries `OfLog`; of the virtual media the last
   slots, with those before it not for CDs, or `Emptied`. That others clear logs and change slots
   meanwhile is harmless, because an empty log stays empty, and a change of a slot is recorded as `foreign`.
   `MediaAccountedHolds` is read off it, and so is `FirstLogHolds`: a log that must come before the one that is
   returned in both orders (`AgreedIs`) comes before it in the code's.
2. `ListingInv` for the inventories. `Walked`: every leaf below the collection has been read, or is below
   something that was missed or is still to be read (`Covered`); what is to be read is `Apart`, no resource leading to
   another, and leads to nothing that was read, so nothing is read twice. `BelowMember` is the fact about trees this rests on: what lies
   below a resource with members lies below one of them. `ListedExplainedHolds` follows.

**RacadmProofs.** Six theorems about `RSpec`, all from one inductive
invariant `RInv`: types with the holder of the lock, `PermitsConserved`,
`OneConnection`, `TimedOutClosed`, `OnTheWay` (the connection that is being replaced is closed, and a
task on its way to a command has none yet), `ResetDropsSession` and `InMethod`
(where the transport may be in each method). `PermitsMove` reduces the
conservation of permits to whether one task joins or leaves the holders; one
lemma per action of the transport follows, and they are used for `Racadm`'s
methods unchanged.

`PoolKeptHolds` is the refinement: `PoolMove` turns the same `Move` of one task among
the holders into `Begin`, `End` or a stutter of the pool, `PoolConnect` needs
`OneConnection` and `OnTheWay` (the connection that is replaced is closed when its
successor opens), and each action of the transport and of the methods follows from the two.

**IpmiClientProofs.** Four theorems about `Spec`. Three are from one invariant `IInv`: the types,
`AtWork` (which thread a task waits for at each place, and that only the owner
opens) and `InUse`. That needs the set `Intact` of the sessions that are up and that no
logout, of a waiting task or of an orphan, is for: the client's session, one that was just built
and one that a running command talks on are intact. `LiveSession` alone is not
inductive: a thread reads `self._cmd` when it starts, so what the client holds must be
intact too, and a new session must be none that a late logout is for. `GotoInv` is
the one proof for every step in which a task goes on without touching a session,
a cancellation included, `ThreadMoves` that of a thread, and `EffectIntact` says
what an orphan may do. `LockCloseInv` is where the lock matters: it is
free, so no command is on the session that is taken.
`NoSessionLostHolds` needs a count besides. `Budget`: the sessions that are up and that nobody
is going to end (`Forsaken`), with those that an orphan may still build, are no more than the cancellations, the failures and
the repeated opens (`Spare`) account for, less those of which the effect is yet to come.

**SolSessionProofs.** Three theorems about `Spec`, from `SInv`. `Stage` says what the owner, its
thread and the console have to do with each other at each place, and that a console the owner
left open has been counted as unclosed: `ConsoleAccountedHolds`. For the data, the chunks with the
receiver, in the queue and on their way are each `Increasing`, and those in front are before those behind
(`Ordered`), and while the backlog never was above the capacity none is missing (`Counted`): `InOrderHolds`.

**PowerDispatchProofs.** Five theorems about `DSpec`, from two layers of
invariants, as the modules are layered.

1. `PInv`, of the outlets alone: `Names0` (each entry the walk has read, and each
   name an outlet has now, accounts for `had` and `kept`), `Aimed` (all commands of
   a call are for one outlet, which has had the name), `Counted` (a send is
   answered, or lost and counted, or met an error that is counted, so a walk that ended early has lost more than
   `Resends` or was `Struck` by an error) and `Ended` (what each result implies). Each action of `PduOutlets` keeps it;
   `NamesOverInv` and `ColumnsOverInv` are shared by the walk that ends and by the one that gives up.
   `RightOutletHolds` and `CallExplainedHolds` are read off it.
2. `DInv` adds `Staged`: what is left of an earlier call (nothing), when the PDU
   is at work, and that whoever has the action is there while `failed` is exactly
   the transports `Behind` it that know the verb. `MoveOnInv` is the one proof for a transport that
   does not know the verb and one that raises. `LastResortHolds` follows, since
   all transports are behind the outlet.
3. `DispatchesHolds` maps each action to one of `Dispatcher`: `Acts` and the first
   switching of the outlet to `Act`, an exception to `PassOn` or `Fail`, the answers to
   `Reply` or `Fail`, everything else to a stutter. `Ordered` shows that the order of the code's
   `if`s (`Rank`) is the dispatcher's. That "pdu" is a true reply rests on `CallExplained`:
   a command that returned was executed.

**RaritanPduProofs.** Four theorems about `Spec`. `CInv` says of each call that what it takes for its outlet is in
what the PDU listed (`Known`), that the command is `Aimed` at it, and that what may still fail is
`Excused`; `Steady` is what no step but a rename takes away. `NamedOutletHolds` and `FailureExplainedHolds` are read off it.
`SessionsReleasedHolds` counts: the sessions `issued` and the logins `Waiting` are at most the tasks and
the faults, and once the client logged off they are one less, or a session has been released (`Spared`).

Only model-checked, on the instances above: liveness (`OperationsEnd`, `CallsReturn`
of RACADM and of IPMI, `SolEnds`), since the prover has no rule for fairness over ENABLED; and the four
violated properties, which are counterexamples and not theorems.


## 5. What is not modelled

- *Of the modelled clients:* parsing and the conversion of values (an outlet
  state that a Raritan PDU reports as `False` without a "pstate" is "unknown", and
  an outlet 0 goes out as "/outlet/-1": both outside the model's inputs); logging;
  the constructors' checks that only add findings; the pyghmi commands themselves; `power_metrics` of the SNMP PDUs, which
  only reads. UDP duplicates that arrive after their call ended are not modelled either: a
  late duplicate of a set can undo a later one, and nothing in the code could notice.
- *SOL.* pyghmi's own protocol is the environment. It tells of a console that was cut off
  with a dict, which `_on_data` ignores: in the model a host that stays silent.
- *Detection, PiKVM, Wake-on-LAN, findings* keep no state between calls: a table look-up or a
  single request per call. `features` and `findings` of `BMC` are plain collections.
- *`BMC.aclose`* closes three adapters in order and swallows every exception; what
  it leaves open is stated above, and nothing in the repository says more of it.


## 6. The plan

Done, in this order, because the first three are where concurrent tasks meet a
shared session: (A) `RedfishAuth` with proofs; (B) `SshTransport` and `Racadm`
with proofs; (C) `IpmiClient` with proofs; (D) `PduOutlets` and `PowerDispatch` with proofs; (E)
`RedfishOps`; (F) `SolSession`; (G) `RaritanPdu`; (H) `RedfishPlans`, which composes the
operations with authentication; (I) the abstract `SshPool` and `Dispatcher`, with the
refinements proved.

Then (J) the proofs of `RedfishPlans`, `RedfishOps`, `SolSession` and `RaritanPdu`, and the
bounds on sessions of `RedfishAuth`, `IpmiClient` and `RaritanPdu`.

Next:

1. An abstract session ("up, lent to at most one waiting caller, out") that `IpmiClient`
   implements, on top of `IInv`.
2. The walks of `RedfishOps` on the requests of `RedfishAuth`, as `RedfishPlans` has them.
