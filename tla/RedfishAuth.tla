----------------------------- MODULE RedfishAuth -----------------------------
(***************************************************************************)
(* One RedfishClient (redfish/client.py) and the BMC it talks to.          *)
(*                                                                         *)
(* Several asyncio tasks may hold the same client.  A task runs one call   *)
(* at a time; every call is a _get, or a _post_action / _patch, and both   *)
(* go through _ensure_auth and, when that finds no usable credential,      *)
(* through _login.  The client has no lock: whatever one task writes to    *)
(* the client between two of its awaits, every other task sees.            *)
(*                                                                         *)
(* A step is what a coroutine does between two awaits, or what the BMC     *)
(* does with a request, or a fault.  The number of faults is bounded.      *)
(***************************************************************************)
EXTENDS Integers, FiniteSets

CONSTANTS
  Tasks,       \* the asyncio tasks that share the client
  Closers,     \* those of them that may call close()
  Modes,       \* the kinds of BMC considered: subset of {TRUE, FALSE},
               \* TRUE when its SessionService hands out tokens
  CtorToken,   \* 1 if the constructor was given a cached token, else 0
  MaxFaults    \* bound: faults of the network and the BMC, and times the
               \* caller cancels a call or closes the client

ASSUME RedfishAssumption ==
  /\ Tasks # {} /\ IsFiniteSet(Tasks)
  /\ Closers \subseteq Tasks
  /\ Modes \subseteq BOOLEAN
  /\ CtorToken \in {0, 1}
  /\ MaxFaults \in Nat

VARIABLES
  session_token, fresh,         \* the token (0 is None); it has > 60 s to go
  auth_mode,                    \* "unknown", "session" or "basic"
  basic_header,                 \* password version in the header, 0 is None
  session_dirty,
  http, made, open,             \* self._http (0 is None); ids used; not closed
  pc, loc, wire,                \* each task: where, its locals, its request
  live, issued,                 \* BMC: sessions alive, sessions ever created
  password,                     \* BMC and caller: current password version
  service,                      \* BMC: SessionService hands out tokens
  faults,                       \* faults so far
  execs, disturbed, result      \* each call: executions, fault met, outcome

client == <<session_token, fresh, auth_mode, basic_header, session_dirty>>
pool   == <<http, made, open>>
bmc    == <<live, issued, password, service>>
log    == <<faults, disturbed>>
vars   == <<client, pool, bmc, log, pc, loc, wire, execs, result>>

-----------------------------------------------------------------------------
\* Values

Kinds    == {"get", "post"}              \* _get; _post_action and _patch
CredMode == {"none", "session", "basic"}
Cred     == [mode: CredMode, val: Nat]
NoCred   == [mode |-> "none", val |-> 0]
Replies  == {"none", "token", "fallback", "error", "ok", "fail", "denied", "lost"}
Results  == {"none", "ok", "RedfishError", "raw", "cancelled"}
Pcs      == {"idle", "password", "session", "probe", "request", "closing"}

\* refused is the credential the first attempt was refused with, NoCred
\* during the first attempt; conn and loginConn are the httpx clients that
\* the call and its _login hold in their local variable c.
Locals   == [kind: Kinds, cred: Cred, refused: Cred,
             conn: Nat, loginConn: Nat, pw: Nat]
NoCall   == [kind |-> "get", cred |-> NoCred, refused |-> NoCred,
             conn |-> 0, loginConn |-> 0, pw |-> 0]
Wire     == [reply: Replies, grant: Nat]
NoReply  == [reply |-> "none", grant |-> 0]

Reply(t)  == wire[t].reply
IsRetry(t) == loc[t].refused # NoCred
InCall(t) == pc[t] \in {"password", "session", "probe", "request"}
OnWire(t) == pc[t] \in {"session", "probe", "request"}
WireConn(t) == IF pc[t] = "request" THEN loc[t].conn ELSE loc[t].loginConn

-----------------------------------------------------------------------------
Init ==
  /\ session_token = CtorToken
  /\ fresh \in (IF CtorToken = 1 THEN BOOLEAN ELSE {FALSE})
  /\ auth_mode = "unknown" /\ basic_header = 0 /\ session_dirty = FALSE
  /\ http = 0 /\ made = 0 /\ open = {}
  /\ pc = [t \in Tasks |-> "idle"]
  /\ loc = [t \in Tasks |-> NoCall]
  /\ wire = [t \in Tasks |-> NoReply]
  /\ issued = CtorToken
  /\ live \in (IF CtorToken = 1 THEN {{}, {1}} ELSE {{}})
  /\ password = 1
  /\ service \in Modes
  /\ faults = 0
  /\ execs = [t \in Tasks |-> 0]
  /\ disturbed = [t \in Tasks |-> FALSE]
  /\ result = [t \in Tasks |-> "none"]

-----------------------------------------------------------------------------
\* Parts of the actions

\* The calls of S meet something that may make them fail.
Disturb(S) == disturbed' = [t \in Tasks |-> disturbed[t] \/ (t \in S /\ pc[t] # "idle")]

Fault(S) == faults < MaxFaults /\ faults' = faults + 1 /\ Disturb(S)

NoFault  == UNCHANGED log

\* _client(): the httpx client, opened on first use.
Http == IF http = 0 THEN made + 1 ELSE http

OpenHttp == IF http = 0
            THEN http' = Http /\ made' = made + 1 /\ open' = open \cup {Http}
            ELSE UNCHANGED pool

Usable(c) == c \in open \/ (http = 0 /\ c = made + 1)

\* The call ends: the coroutine returns or raises, its locals are gone.
Return(t, r) ==
  /\ pc' = [pc EXCEPT ![t] = "idle"]
  /\ loc' = [loc EXCEPT ![t] = NoCall]
  /\ wire' = [wire EXCEPT ![t] = NoReply]
  /\ result' = [result EXCEPT ![t] = r]

\* The coroutine awaits the answer to a request it sends on client c.  An
\* httpx client that was closed refuses with a RuntimeError, which nothing
\* in the client catches.
Await(t, where, c, locals) ==
  IF Usable(c)
  THEN /\ pc' = [pc EXCEPT ![t] = where]
       /\ loc' = [loc EXCEPT ![t] = locals]
       /\ wire' = [wire EXCEPT ![t] = NoReply]
       /\ result' = [result EXCEPT ![t] = "none"]
  ELSE Return(t, "raw")

\* _token_fresh, given the token; the test of _ensure_auth.
TokenFresh(token) == token # 0 /\ fresh

NeedsLoginOnlyIfSession(token) == auth_mode = "session" /\ ~ TokenFresh(token)
NeedsLoginOutOfBasic(token) == ~ (auth_mode = "session" /\ TokenFresh(token))
NeedsLoginAlways(token) == auth_mode # "basic"
NeedsLogin(token) ==
  ~ (auth_mode = "basic" \/ (auth_mode = "session" /\ TokenFresh(token)))

\* _auth_headers, given the client's mode, token and header.
Headers(mode, token, header) ==
  CASE mode = "session" -> [mode |-> "session", val |-> token]
    [] mode = "basic"   -> [mode |-> "basic", val |-> header]
    [] OTHER            -> NoCred

\* The request itself, once _ensure_auth has returned: the first attempt
\* takes the client's httpx client, the second one keeps that.
SendRequest(t, locals, cred) ==
  IF locals.refused = NoCred
  THEN /\ OpenHttp
       /\ Await(t, "request", Http, [locals EXCEPT !.cred = cred, !.conn = Http])
  ELSE /\ UNCHANGED pool
       /\ Await(t, "request", locals.conn, [locals EXCEPT !.cred = cred])

\* _ensure_auth, and what follows it when it does not have to log in; the
\* first await of _login is the one on the password source.
EnsureAuth(t, token, locals) ==
  IF NeedsLogin(token)
  THEN /\ pc' = [pc EXCEPT ![t] = "password"]
       /\ loc' = [loc EXCEPT ![t] = locals]
       /\ wire' = [wire EXCEPT ![t] = NoReply]
       /\ result' = [result EXCEPT ![t] = "none"]
       /\ UNCHANGED pool
  ELSE SendRequest(t, locals, Headers(auth_mode, token, basic_header))

-----------------------------------------------------------------------------
\* The client's coroutines

\* A task calls an operation.
Call(t, k) ==
  /\ pc[t] = "idle"
  /\ EnsureAuth(t, session_token, [NoCall EXCEPT !.kind = k])
  /\ execs' = [execs EXCEPT ![t] = 0]
  /\ disturbed' = [disturbed EXCEPT ![t] = http # 0 /\ http \notin open]
  /\ UNCHANGED <<client, bmc, faults>>

\* _login: the password is there, the POST to SessionService goes out.
ResolvePassword(t) ==
  /\ pc[t] = "password"
  /\ OpenHttp
  /\ Await(t, "session", Http, [loc[t] EXCEPT !.pw = password, !.loginConn = Http])
  /\ UNCHANGED <<client, bmc, log, execs>>

\* _login: the caller's password source raises.
PasswordFails(t) ==
  /\ pc[t] = "password"
  /\ Fault({t})
  /\ Return(t, "raw")
  /\ UNCHANGED <<client, pool, bmc, execs>>

\* _login, answered with a token: it replaces whatever the client holds,
\* and the request goes out with it before any other task runs.
TokenGranted(t) ==
  /\ pc[t] = "session" /\ Reply(t) = "token"
  /\ session_token' = wire[t].grant
  /\ fresh' = TRUE
  /\ session_dirty' = TRUE
  /\ auth_mode' = "session"
  /\ SendRequest(t, loc[t], Headers("session", wire[t].grant, basic_header))
  /\ UNCHANGED <<basic_header, bmc, log, execs>>

\* _login, answered 204, 404, 405, 401, 403 or 2xx without a token: Basic
\* is in force from here on, then the probe goes out.
FallBack(t) ==
  /\ pc[t] = "session" /\ Reply(t) = "fallback"
  /\ basic_header' = loc[t].pw
  /\ auth_mode' = "basic"
  /\ Await(t, "probe", loc[t].loginConn, loc[t])
  /\ Disturb(IF service THEN Tasks ELSE {})
  /\ UNCHANGED <<session_token, fresh, session_dirty, pool, bmc, faults, execs>>

\* _login, answered with another status or not at all.
LoginFailsOnStatus(t) ==
  /\ pc[t] = "session" /\ Reply(t) = "error"
  /\ Return(t, "RedfishError")
  /\ UNCHANGED <<client, pool, bmc, log, execs>>
LoginFails(t) ==
  /\ pc[t] = "session" /\ Reply(t) \in {"error", "lost"}
  /\ Return(t, "RedfishError")
  /\ UNCHANGED <<client, pool, bmc, log, execs>>

\* _login, the probe is accepted: the request goes out with the headers of
\* the mode the client is in by now.
ProbeAccepted(t) ==
  /\ pc[t] = "probe" /\ Reply(t) = "ok"
  /\ SendRequest(t, loc[t], Headers(auth_mode, session_token, basic_header))
  /\ UNCHANGED <<client, bmc, log, execs>>

\* _login, the probe is rejected or lost: the mode stays as it is.
ProbeFails(t) ==
  /\ pc[t] = "probe" /\ Reply(t) \in {"fail", "lost"}
  /\ Return(t, "RedfishError")
  /\ UNCHANGED <<client, pool, bmc, log, execs>>

\* The request was refused and is to be sent once more.
RetriesOnAnyError(t) ==
  Reply(t) \in {"denied", "fail"} /\ auth_mode = "session" /\ ~ IsRetry(t)
RetriesNever(t) == FALSE
Retries(t) == Reply(t) = "denied" /\ auth_mode = "session" /\ ~ IsRetry(t)

\* What the 401 handler puts in session_token.
KeptToken == session_token
RefusedToken == 0

\* 401 in session mode on the first attempt: the client's token, whichever
\* it is by now, is dropped, and _ensure_auth logs in.
Retry(t) ==
  /\ pc[t] = "request" /\ Retries(t)
  /\ session_token' = RefusedToken
  /\ EnsureAuth(t, RefusedToken, [loc[t] EXCEPT !.refused = loc[t].cred])
  /\ UNCHANGED <<fresh, auth_mode, basic_header, session_dirty, bmc, log, execs>>

\* Any other answer to the request ends the call.
RequestDone(t) ==
  /\ pc[t] = "request" /\ Reply(t) \in {"ok", "fail", "denied"} /\ ~ Retries(t)
  /\ Return(t, IF Reply(t) = "ok" THEN "ok" ELSE "RedfishError")
  /\ UNCHANGED <<client, pool, bmc, log, execs>>

\* No answer to the request.  Only the first attempt of _get is in a try.
RequestLost(t) ==
  /\ pc[t] = "request" /\ Reply(t) = "lost"
  /\ Return(t, IF loc[t].kind = "get" /\ ~ IsRetry(t) THEN "RedfishError" ELSE "raw")
  /\ UNCHANGED <<client, pool, bmc, log, execs>>

\* close(): httpx marks its client closed and awaits its connections; a
\* client that is closed already does not await.
CloseForgets(t) ==
  /\ t \in Closers /\ pc[t] = "idle" /\ http # 0
  /\ http' = 0
  /\ Fault(Tasks)
  /\ UNCHANGED <<client, made, open, bmc, pc, loc, wire, execs, result>>
Close(t) ==
  /\ t \in Closers /\ pc[t] = "idle" /\ http # 0
  /\ IF http \in open
     THEN /\ open' = open \ {http}
          /\ pc' = [pc EXCEPT ![t] = "closing"]
          /\ UNCHANGED <<http, made>>
     ELSE http' = 0 /\ UNCHANGED <<made, open, pc>>
  /\ Fault(Tasks)
  /\ UNCHANGED <<client, bmc, loc, wire, execs, result>>

CloseDone(t) ==
  /\ pc[t] = "closing"
  /\ http' = 0
  /\ pc' = [pc EXCEPT ![t] = "idle"]
  /\ UNCHANGED <<client, made, open, bmc, log, loc, wire, execs, result>>

\* The task is cancelled at its await.
Cancel(t) ==
  /\ pc[t] # "idle"
  /\ Fault({t})
  /\ Return(t, "cancelled")
  /\ UNCHANGED <<client, pool, bmc, execs>>

-----------------------------------------------------------------------------
\* The BMC and the network

Answer(t, r, g) == wire' = [wire EXCEPT ![t] = [reply |-> r, grant |-> g]]

\* SessionService: a token for the right password where it hands them out;
\* a status that means "use Basic"; or a server error.
ServeSession(t) ==
  /\ pc[t] = "session" /\ Reply(t) = "none"
  /\ \/ /\ service /\ loc[t].pw = password
        /\ issued' = issued + 1
        /\ live' = live \cup {issued'}
        /\ Answer(t, "token", issued')
        /\ NoFault
     \/ /\ Answer(t, "fallback", 0)
        /\ IF service /\ loc[t].pw = password THEN Fault({t}) ELSE NoFault
        /\ UNCHANGED <<issued, live>>
     \/ /\ Answer(t, "error", 0)
        /\ Fault({t})
        /\ UNCHANGED <<issued, live>>
  /\ UNCHANGED <<client, pool, password, service, pc, loc, execs, result>>

\* The probe of /redfish/v1 with Basic.  Some BMCs serve the service root
\* to anybody, so a wrong password may pass.
ServeProbe(t) ==
  /\ pc[t] = "probe" /\ Reply(t) = "none"
  /\ \/ Answer(t, "ok", 0) /\ NoFault
     \/ /\ Answer(t, "fail", 0)
        /\ IF loc[t].pw = password THEN Fault({t}) ELSE NoFault
  /\ UNCHANGED <<client, pool, bmc, pc, loc, execs, result>>

Accepts(cred) == \/ cred.mode = "session" /\ cred.val \in live
                 \/ cred.mode = "basic" /\ cred.val = password

\* The request: executed and answered; answered with an error status, which
\* says nothing of its effect; or refused.
ServeRequest(t) ==
  /\ pc[t] = "request" /\ Reply(t) = "none"
  /\ IF Accepts(loc[t].cred)
     THEN \/ /\ Answer(t, "ok", 0)
             /\ execs' = [execs EXCEPT ![t] = @ + 1]
             /\ NoFault
          \/ /\ Answer(t, "fail", 0)
             /\ \E n \in {0, 1} : execs' = [execs EXCEPT ![t] = @ + n]
             /\ Fault({t})
     ELSE Answer(t, "denied", 0) /\ NoFault /\ UNCHANGED execs
  /\ UNCHANGED <<client, pool, bmc, pc, loc, result>>

\* An httpx error: the request or its answer is lost, or the timeout of the
\* httpx client expires.  Closing the httpx client may do that to a request
\* in flight without another fault.
Lose(t) ==
  /\ OnWire(t) /\ Reply(t) # "lost"
  /\ Answer(t, "lost", 0)
  /\ IF WireConn(t) \in open THEN Fault({t}) ELSE NoFault
  /\ UNCHANGED <<client, pool, bmc, pc, loc, execs, result>>

\* The BMC forgets a session: timeout, reset, another user's DELETE.
Expire(s) ==
  /\ s \in live
  /\ live' = live \ {s}
  /\ Fault({t \in Tasks : IsRetry(t)})
  /\ UNCHANGED <<client, pool, issued, password, service, pc, loc, wire, execs, result>>

\* The client's clock comes within a minute of session_expires_at.
Age ==
  /\ fresh
  /\ fresh' = FALSE
  /\ Fault({})
  /\ UNCHANGED <<session_token, auth_mode, basic_header, session_dirty,
                 pool, bmc, pc, loc, wire, execs, result>>

\* The password changes on the BMC and in the caller's password source.
Rotate ==
  /\ password' = password + 1
  /\ Fault(Tasks)
  /\ UNCHANGED <<client, pool, live, issued, service, pc, loc, wire, execs, result>>

-----------------------------------------------------------------------------
Resume(t) ==
  \/ ResolvePassword(t) \/ PasswordFails(t)
  \/ TokenGranted(t) \/ FallBack(t) \/ LoginFails(t)
  \/ ProbeAccepted(t) \/ ProbeFails(t)
  \/ Retry(t) \/ RequestDone(t) \/ RequestLost(t)
  \/ CloseDone(t)

Serve(t) == ServeSession(t) \/ ServeProbe(t) \/ ServeRequest(t)

Next ==
  \/ \E t \in Tasks : \/ \E k \in Kinds : Call(t, k)
                      \/ Resume(t) \/ Serve(t)
                      \/ Close(t) \/ Cancel(t) \/ Lose(t)
  \/ \E s \in live : Expire(s)
  \/ Age \/ Rotate

Spec == Init /\ [][Next]_vars

-----------------------------------------------------------------------------
\* Properties

ClientOK ==
  /\ session_token \in 0..issued /\ fresh \in BOOLEAN
  /\ auth_mode \in {"unknown", "session", "basic"}
  /\ basic_header \in 0..password /\ session_dirty \in BOOLEAN

PoolOK == made \in Nat /\ http \in 0..made /\ open \subseteq 1..made

BmcOK ==
  /\ issued \in Nat /\ live \subseteq 1..issued
  /\ password \in Nat \ {0} /\ service \in BOOLEAN

CallsOK ==
  /\ pc \in [Tasks -> Pcs] /\ loc \in [Tasks -> Locals]
  /\ wire \in [Tasks -> Wire] /\ result \in [Tasks -> Results]

LogOK ==
  /\ faults \in 0..MaxFaults /\ disturbed \in [Tasks -> BOOLEAN]
  /\ execs \in [Tasks -> Nat]

\* Every variable has its type, the ids handed out so far bound the ids in
\* use, and no request leaves without a credential (_ensure_auth).
TypeOK ==
  /\ ClientOK /\ PoolOK /\ BmcOK /\ CallsOK /\ LogOK
  /\ \A t \in Tasks : pc[t] = "request" => loc[t].cred.mode # "none"

\* The retry after a 401 never repeats what the BMC already did: a call is
\* executed at most once, and one that reports success exactly once
\* (_get, _post_action, _patch).
ExecutedOnce ==
  \A t \in Tasks : /\ execs[t] <= 1
                   /\ result[t] = "ok" => execs[t] = 1

\* The second attempt never goes out with the token the first one was
\* refused with, whatever the other tasks did to the client in between
\* (the 401 handlers of _get, _post_action, _patch).
RetryHasNewToken ==
  \A t \in Tasks :
    LET c == loc[t].cred  r == loc[t].refused IN
    (pc[t] = "request" /\ IsRetry(t) /\ c.mode = "session" /\ r.mode = "session")
      => (c.val # r.val \/ c.val = 0)

\* The client does not fill the BMC's session table: beyond one login per
\* task, a fault costs each task at most one session for every request that
\* was in flight (_ensure_auth's reuse of the token; a late 401 drops the
\* token another task has just obtained; no session is ever deleted).  A
\* change of the password costs more, once for each of the others: a login
\* with the old one leaves the client in Basic mode, from which the next
\* answered login takes it back (_login).
SessionsAccounted ==
  LET n == Cardinality(Tasks)
  IN  issued - CtorToken <= n * (1 + n * (faults + (n - 1) * (password - 1)))

\* A call fails only for a reason: a fault or a close() during the call, or
\* a Basic header the BMC rejects.  In particular a token that expired
\* before the call, or during its first attempt, is made good by the 401
\* handlers.
FailureExplained ==
  [][\A t \in Tasks :
       (InCall(t) /\ pc'[t] = "idle" /\ result'[t] # "ok")
         => \/ disturbed'[t]
            \/ loc[t].cred.mode = "basic" /\ loc[t].cred.val # password]_vars

\* With one task closing the client, an httpx client that is no longer the
\* client's own is closed whenever no close() is under way (_client, close).
NoClientLeak ==
  (\A t \in Tasks : pc[t] # "closing") => open \subseteq {http}

\* "once we've fallen back to basic we stay there for the life of the
\* client" (_ensure_auth): it holds from the moment that no task is logging in
\* any more.  A login that was on its way when the client fell back does move
\* it to session mode again.
BasicSettled == auth_mode = "basic" /\ \A t \in Tasks : pc[t] \notin {"password", "session"}
BasicStays == [][BasicSettled => BasicSettled']_vars

\* "Probe with Basic to confirm before declaring success" (_login): a call
\* that raises because its probe was rejected does not leave the client
\* relying on Basic.
RejectedBasicDropped ==
  [][\A t \in Tasks : pc[t] = "probe" /\ Reply(t) = "fail" /\ pc'[t] = "idle"
       => result'[t] = "cancelled" \/ auth_mode' # "basic"]_vars
=============================================================================
