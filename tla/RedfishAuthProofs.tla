-------------------------- MODULE RedfishAuthProofs --------------------------
(***************************************************************************)
(* Theorems about RedfishAuth, for any set of tasks, any number of faults  *)
(* and any kind of BMC.                                                    *)
(***************************************************************************)
EXTENDS RedfishAuth, FiniteSetTheorems, TLAPS

-----------------------------------------------------------------------------
(***************************************************************************)
(* The operators the actions are built from.                               *)
(***************************************************************************)
LEMMA EmptyTyped == NoCred \in Cred /\ NoCall \in Locals /\ NoReply \in Wire
BY DEF NoCred, Cred, CredMode, NoCall, Locals, Kinds, NoReply, Wire, Replies

LEMMA FaultTyped ==
  ASSUME LogOK, NEW S, Fault(S)
  PROVE  faults' \in 0..MaxFaults /\ disturbed' \in [Tasks -> BOOLEAN]
BY RedfishAssumption DEF LogOK, Fault, Disturb

LEMMA DisturbTyped ==
  ASSUME LogOK, NEW S, Disturb(S)
  PROVE  disturbed' \in [Tasks -> BOOLEAN]
BY DEF LogOK, Disturb

LEMMA OpenHttpTyped ==
  ASSUME PoolOK, OpenHttp
  PROVE  PoolOK' /\ Http \in Nat
<1>1. CASE http = 0
  <2>1. made' = made + 1 /\ http' = made + 1 /\ open' = open \cup {made + 1}
    BY <1>1 DEF OpenHttp, Http
  <2>2. made' \in Nat /\ http' \in 0..made' /\ Http \in Nat
    BY <1>1, <2>1 DEF PoolOK, Http
  <2>3. ASSUME NEW c \in open' PROVE c \in 1..made'
    BY <2>1, <2>3 DEF PoolOK
  <2>4. QED
    BY <2>2, <2>3 DEF PoolOK
<1>2. CASE http # 0
  <2>1. http' = http /\ made' = made /\ open' = open
    BY <1>2 DEF OpenHttp, pool
  <2>2. QED
    BY <1>2, <2>1 DEF PoolOK, Http
<1>3. QED
  BY <1>1, <1>2

\* What Return does to the calls.
LEMMA ReturnCalls ==
  ASSUME CallsOK, NEW t \in Tasks, NEW r \in Results, Return(t, r)
  PROVE  /\ CallsOK'
         /\ pc' = [pc EXCEPT ![t] = "idle"]
         /\ loc' = [loc EXCEPT ![t] = NoCall]
         /\ wire' = [wire EXCEPT ![t] = NoReply]
BY EmptyTyped DEF CallsOK, Return, Pcs

\* What Await does to the calls: the request goes out, or the call ends.
LEMMA AwaitCalls ==
  ASSUME CallsOK, NEW t \in Tasks, NEW where \in Pcs, NEW c, NEW l \in Locals,
         Await(t, where, c, l)
  PROVE  /\ CallsOK'
         /\ wire' = [wire EXCEPT ![t] = NoReply]
         /\ \/ pc' = [pc EXCEPT ![t] = where] /\ loc' = [loc EXCEPT ![t] = l]
               /\ result' = [result EXCEPT ![t] = "none"]
            \/ pc' = [pc EXCEPT ![t] = "idle"] /\ loc' = [loc EXCEPT ![t] = NoCall]
               /\ result' = [result EXCEPT ![t] = "raw"]
<1>1. CASE Usable(c)
  BY <1>1, EmptyTyped DEF CallsOK, Await, Results
<1>2. CASE ~ Usable(c)
  BY <1>2, EmptyTyped DEF CallsOK, Await, Return, Results, Pcs
<1>3. QED
  BY <1>1, <1>2

\* What SendRequest does: the same, with the credential in the locals.
LEMMA SendRequestCalls ==
  ASSUME CallsOK, PoolOK, NEW t \in Tasks, NEW l \in Locals, NEW cred \in Cred,
         SendRequest(t, l, cred)
  PROVE  /\ CallsOK' /\ PoolOK'
         /\ wire' = [wire EXCEPT ![t] = NoReply]
         /\ \/ /\ pc' = [pc EXCEPT ![t] = "request"]
               /\ loc'[t].cred = cred
               /\ loc'[t].refused = l.refused /\ loc'[t].pw = l.pw
               /\ result' = [result EXCEPT ![t] = "none"]
            \/ pc' = [pc EXCEPT ![t] = "idle"] /\ loc'[t] = NoCall
               /\ result' = [result EXCEPT ![t] = "raw"]
         /\ \A u \in Tasks \ {t} : loc'[u] = loc[u]
<1>1. CASE l.refused = NoCred
  <2> DEFINE m == [l EXCEPT !.cred = cred, !.conn = Http]
  <2>1. OpenHttp /\ Await(t, "request", Http, m)
    BY <1>1 DEF SendRequest
  <2>2. PoolOK' /\ Http \in Nat
    BY <2>1, OpenHttpTyped
  <2>3. m \in Locals /\ m.cred = cred /\ m.refused = l.refused /\ m.pw = l.pw
    BY <2>2 DEF Locals
  <2> HIDE DEF m
  <2>4. QED
    BY <2>1, <2>2, <2>3, AwaitCalls DEF Pcs, CallsOK
<1>2. CASE l.refused # NoCred
  <2> DEFINE m == [l EXCEPT !.cred = cred]
  <2>1. UNCHANGED pool /\ Await(t, "request", l.conn, m)
    BY <1>2 DEF SendRequest
  <2>2. PoolOK'
    BY <2>1 DEF PoolOK, pool
  <2>3. m \in Locals /\ m.cred = cred /\ m.refused = l.refused /\ m.pw = l.pw
    BY DEF Locals
  <2> HIDE DEF m
  <2>4. QED
    BY <2>1, <2>2, <2>3, AwaitCalls DEF Pcs, CallsOK
<1>3. QED
  BY <1>1, <1>2

\* What EnsureAuth does: it goes to log in, or sends the request.
LEMMA EnsureAuthCalls ==
  ASSUME CallsOK, PoolOK, ClientOK, NEW t \in Tasks, NEW token \in Nat,
         NEW l \in Locals, EnsureAuth(t, token, l), BmcOK
  PROVE  /\ CallsOK' /\ PoolOK'
         /\ wire' = [wire EXCEPT ![t] = NoReply]
         /\ \/ /\ NeedsLogin(token)
               /\ pc' = [pc EXCEPT ![t] = "password"] /\ loc'[t] = l
               /\ result' = [result EXCEPT ![t] = "none"]
            \/ /\ ~ NeedsLogin(token)
               /\ \/ /\ pc' = [pc EXCEPT ![t] = "request"]
                     /\ loc'[t].cred = Headers(auth_mode, token, basic_header)
                     /\ loc'[t].cred.mode # "none"
                     /\ loc'[t].refused = l.refused /\ loc'[t].pw = l.pw
                     /\ result' = [result EXCEPT ![t] = "none"]
                  \/ pc' = [pc EXCEPT ![t] = "idle"] /\ loc'[t] = NoCall
                     /\ result' = [result EXCEPT ![t] = "raw"]
         /\ \A u \in Tasks \ {t} : loc'[u] = loc[u]
<1>1. CASE NeedsLogin(token)
  BY <1>1, EmptyTyped DEF EnsureAuth, CallsOK, PoolOK, Pcs, Results, pool
<1>2. CASE ~ NeedsLogin(token)
  <2> DEFINE h == Headers(auth_mode, token, basic_header)
  <2>1. h \in Cred /\ h.mode # "none"
    BY <1>2 DEF NeedsLogin, TokenFresh, Headers, Cred, CredMode, ClientOK, BmcOK
  <2>2. SendRequest(t, l, h)
    BY <1>2 DEF EnsureAuth
  <2> HIDE DEF h
  <2>3. QED
    BY <1>2, <2>1, <2>2, SendRequestCalls DEF h
<1>3. QED
  BY <1>1, <1>2

-----------------------------------------------------------------------------
(***************************************************************************)
(* Type correctness.  The ids in TypeOK need the ids still under way: a    *)
(* token the BMC has granted but the client has not stored yet, and the    *)
(* password a _login has resolved.                                         *)
(***************************************************************************)
PerCall(t) ==
  /\ wire[t].grant \in 0..issued
  /\ loc[t].pw \in 0..password
  /\ pc[t] = "probe" => auth_mode # "unknown"
  /\ pc[t] = "request" => loc[t].cred.mode # "none"

TInv == ClientOK /\ PoolOK /\ BmcOK /\ CallsOK /\ LogOK /\ \A t \in Tasks : PerCall(t)

LEMMA TInvInit == Init => TInv
<1> SUFFICES ASSUME Init PROVE TInv
  OBVIOUS
<1>1. ClientOK /\ PoolOK /\ BmcOK
  <2>1. fresh \in BOOLEAN /\ service \in BOOLEAN /\ live \subseteq 1..issued
    <3>1. CASE CtorToken = 1
      BY <3>1, RedfishAssumption DEF Init
    <3>2. CASE CtorToken # 1
      BY <3>2, RedfishAssumption DEF Init
    <3>3. QED
      BY <3>1, <3>2
  <2>2. issued \in Nat /\ issued = CtorToken
    BY RedfishAssumption DEF Init
  <2>3. ClientOK
    <3>1. session_token = issued /\ basic_header = 0 /\ password = 1
          /\ auth_mode = "unknown"
      BY DEF Init
    <3>2. session_token \in 0..issued /\ basic_header \in 0..password
      BY <2>2, <3>1
    <3>3. session_dirty \in BOOLEAN
      BY DEF Init
    <3>4. QED
      BY <2>1, <3>1, <3>2, <3>3 DEF ClientOK
  <2>4. PoolOK
    BY DEF Init, PoolOK
  <2>5. BmcOK
    BY <2>1, <2>2 DEF Init, BmcOK
  <2>6. QED
    BY <2>3, <2>4, <2>5
<1>2. CallsOK
  BY EmptyTyped DEF Init, CallsOK, Pcs, Results
<1>3. LogOK
  BY RedfishAssumption DEF Init, LogOK
<1>4. \A t \in Tasks : PerCall(t)
  BY RedfishAssumption DEF Init, PerCall, NoReply, NoCall
<1>5. QED
  BY <1>1, <1>2, <1>3, <1>4 DEF TInv

\* A step that leaves the client, its pool and the BMC alone, ends the call
\* of t or changes nothing of the calls, and keeps the log's types.
LEMMA ReturnStep ==
  ASSUME TInv, NEW t \in Tasks, NEW r \in Results, Return(t, r),
         UNCHANGED <<client, pool, bmc, execs>>, NoFault \/ \E S : Fault(S)
  PROVE  TInv'
<1>1. ClientOK' /\ PoolOK' /\ BmcOK'
  BY DEF TInv, ClientOK, PoolOK, BmcOK, client, pool, bmc
<1>2. LogOK'
  BY FaultTyped DEF TInv, LogOK, NoFault, log
<1>3. /\ CallsOK'
      /\ pc' = [pc EXCEPT ![t] = "idle"]
      /\ loc' = [loc EXCEPT ![t] = NoCall]
      /\ wire' = [wire EXCEPT ![t] = NoReply]
  BY ReturnCalls DEF TInv
<1>4. auth_mode' = auth_mode /\ issued' = issued /\ password' = password
  BY DEF client, bmc
<1>5. ASSUME NEW u \in Tasks PROVE PerCall(u)'
  <2>1. CASE u = t
    BY <1>3, <1>4, <2>1 DEF TInv, CallsOK, BmcOK, PerCall, NoCall, NoReply
  <2>2. CASE u # t
    BY <1>3, <1>4, <2>2 DEF TInv, CallsOK, PerCall
  <2>3. QED
    BY <2>1, <2>2
<1>6. QED
  BY <1>1, <1>2, <1>3, <1>5 DEF TInv

\* A step that only answers the request of t, and what the BMC does for it.
LEMMA AnswerStep ==
  ASSUME TInv, NEW t \in Tasks, NEW r \in Replies, NEW g \in 0..issued', Answer(t, r, g),
         UNCHANGED <<client, pool, pc, loc, result, password>>,
         BmcOK', issued <= issued', execs' \in [Tasks -> Nat],
         NoFault \/ \E S : Fault(S)
  PROVE  TInv'
<1>1. ClientOK' /\ PoolOK'
  BY DEF TInv, ClientOK, PoolOK, BmcOK, client, pool
<1>2. LogOK'
  BY FaultTyped DEF TInv, LogOK, NoFault, log
<1>3. [reply |-> r, grant |-> g] \in Wire
  BY DEF Wire, TInv, BmcOK
<1>4. CallsOK'
  BY <1>3 DEF TInv, CallsOK, Answer
<1>5. auth_mode' = auth_mode
  BY DEF client
<1>6. ASSUME NEW u \in Tasks PROVE PerCall(u)'
  <2>1. wire'[u].grant \in 0..issued'
    BY DEF Answer, TInv, CallsOK, PerCall, BmcOK
  <2>2. QED
    BY <1>5, <2>1 DEF TInv, CallsOK, PerCall
<1>7. QED
  BY <1>1, <1>2, <1>4, <1>6 DEF TInv

\* A step that leaves the calls alone and does not take back an id.
LEMMA CallsSame ==
  ASSUME TInv, UNCHANGED <<loc, wire, result>>, NEW u \in Tasks,
         pc'[u] \in {pc[u], "idle", "closing"}, auth_mode' = auth_mode,
         issued' = issued, BmcOK', password <= password'
  PROVE  PerCall(u)'
BY DEF TInv, CallsOK, PerCall, BmcOK

LEMMA TInvStep == TInv /\ [Next]_vars => TInv'
<1> SUFFICES ASSUME TInv, [Next]_vars PROVE TInv'
  OBVIOUS
<1>0. ClientOK /\ PoolOK /\ BmcOK /\ CallsOK /\ LogOK /\ \A t \in Tasks : PerCall(t)
  BY DEF TInv
<1>1. ASSUME NEW t \in Tasks, NEW k \in Kinds, Call(t, k) PROVE TInv'
  <2> DEFINE l == [NoCall EXCEPT !.kind = k]
  <2>1. l \in Locals /\ l.pw = 0
    BY EmptyTyped DEF NoCall, Locals, Kinds
  <2>2. EnsureAuth(t, session_token, l)
    BY <1>1 DEF Call
  <2>3. session_token \in Nat
    BY <1>0 DEF ClientOK, BmcOK
  <2> HIDE DEF l
  <2>4. ClientOK' /\ BmcOK' /\ auth_mode' = auth_mode /\ issued' = issued /\ password' = password
    BY <1>0, <1>1 DEF Call, client, bmc, ClientOK, BmcOK
  <2>5. LogOK'
    BY <1>0, <1>1 DEF Call, LogOK
  <2>6. CallsOK' /\ PoolOK'
    BY <1>0, <2>1, <2>2, <2>3, EnsureAuthCalls
  <2>7. ASSUME NEW u \in Tasks PROVE PerCall(u)'
    <3>1. CASE u = t
      BY <3>1, <1>0, <2>1, <2>2, <2>3, <2>4, EnsureAuthCalls
         DEF PerCall, CallsOK, NoReply, NoCall, BmcOK
    <3>2. CASE u # t
      BY <3>2, <1>0, <2>1, <2>2, <2>3, <2>4, EnsureAuthCalls DEF PerCall, CallsOK
    <3>3. QED
      BY <3>1, <3>2
  <2>8. QED
    BY <2>4, <2>5, <2>6, <2>7 DEF TInv
<1>2. ASSUME NEW t \in Tasks, ResolvePassword(t) PROVE TInv'
  <2> DEFINE l == [loc[t] EXCEPT !.pw = password, !.loginConn = Http]
  <2>1. OpenHttp /\ Await(t, "session", Http, l)
    BY <1>2 DEF ResolvePassword
  <2>2. PoolOK' /\ Http \in Nat
    BY <1>0, <2>1, OpenHttpTyped
  <2>3. l \in Locals /\ l.pw = password
    BY <1>0, <2>2 DEF Locals, CallsOK, BmcOK
  <2> HIDE DEF l
  <2>4. ClientOK' /\ BmcOK' /\ LogOK' /\ auth_mode' = auth_mode
        /\ issued' = issued /\ password' = password
    BY <1>0, <1>2 DEF ResolvePassword, client, bmc, log, ClientOK, BmcOK, LogOK
  <2>5. CallsOK' /\ wire' = [wire EXCEPT ![t] = NoReply]
        /\ \/ pc' = [pc EXCEPT ![t] = "session"] /\ loc' = [loc EXCEPT ![t] = l]
           \/ pc' = [pc EXCEPT ![t] = "idle"] /\ loc' = [loc EXCEPT ![t] = NoCall]
    BY <1>0, <2>1, <2>3, AwaitCalls DEF Pcs
  <2>6. ASSUME NEW u \in Tasks PROVE PerCall(u)'
    BY <1>0, <2>3, <2>4, <2>5 DEF PerCall, CallsOK, NoReply, NoCall, BmcOK
  <2>7. QED
    BY <2>2, <2>4, <2>5, <2>6 DEF TInv
<1>3. ASSUME NEW t \in Tasks, PasswordFails(t) PROVE TInv'
  BY <1>3, ReturnStep DEF PasswordFails, Results
<1>4. ASSUME NEW t \in Tasks, TokenGranted(t) PROVE TInv'
  <2> DEFINE h == Headers("session", wire[t].grant, basic_header)
  <2>1. h \in Cred /\ h.mode = "session"
    BY <1>0 DEF Headers, Cred, CredMode, PerCall, BmcOK
  <2>2. SendRequest(t, loc[t], h)
    BY <1>4 DEF TokenGranted
  <2> HIDE DEF h
  <2>3. ClientOK' /\ BmcOK' /\ LogOK' /\ auth_mode' = "session"
        /\ issued' = issued /\ password' = password
    BY <1>0, <1>4 DEF TokenGranted, bmc, log, ClientOK, BmcOK, LogOK, PerCall
  <2>4. loc[t] \in Locals
    BY <1>0 DEF CallsOK
  <2>5. CallsOK' /\ PoolOK'
    BY <1>0, <2>1, <2>2, <2>4, SendRequestCalls
  <2>6. ASSUME NEW u \in Tasks PROVE PerCall(u)'
    <3>1. CASE u = t
      BY <3>1, <1>0, <2>1, <2>2, <2>3, <2>4, SendRequestCalls
         DEF PerCall, CallsOK, NoReply, NoCall, BmcOK
    <3>2. CASE u # t
      BY <3>2, <1>0, <2>1, <2>2, <2>3, <2>4, SendRequestCalls DEF PerCall, CallsOK
    <3>3. QED
      BY <3>1, <3>2
  <2>7. QED
    BY <2>3, <2>5, <2>6 DEF TInv
<1>5. ASSUME NEW t \in Tasks, FallBack(t) PROVE TInv'
  <2>1. Await(t, "probe", loc[t].loginConn, loc[t])
    BY <1>5 DEF FallBack
  <2>2. loc[t] \in Locals
    BY <1>0 DEF CallsOK
  <2>3. CallsOK' /\ wire' = [wire EXCEPT ![t] = NoReply]
        /\ \/ pc' = [pc EXCEPT ![t] = "probe"] /\ loc' = [loc EXCEPT ![t] = loc[t]]
           \/ pc' = [pc EXCEPT ![t] = "idle"] /\ loc' = [loc EXCEPT ![t] = NoCall]
    BY <1>0, <2>1, <2>2, AwaitCalls DEF Pcs
  <2>4. ClientOK' /\ BmcOK' /\ PoolOK' /\ auth_mode' = "basic"
        /\ issued' = issued /\ password' = password
    BY <1>0, <1>5 DEF FallBack, bmc, pool, ClientOK, BmcOK, PoolOK, PerCall
  <2>5. LogOK'
    BY <1>0, <1>5, DisturbTyped DEF FallBack, LogOK
  <2>6. ASSUME NEW u \in Tasks PROVE PerCall(u)'
    BY <1>0, <2>3, <2>4 DEF PerCall, CallsOK, NoReply, NoCall, BmcOK
  <2>7. QED
    BY <2>3, <2>4, <2>5, <2>6 DEF TInv
<1>6. ASSUME NEW t \in Tasks, LoginFails(t) PROVE TInv'
  BY <1>6, ReturnStep DEF LoginFails, Results, NoFault
<1>7. ASSUME NEW t \in Tasks, ProbeAccepted(t) PROVE TInv'
  <2> DEFINE h == Headers(auth_mode, session_token, basic_header)
  <2>1. h \in Cred /\ h.mode # "none"
    BY <1>0, <1>7 DEF ProbeAccepted, Headers, Cred, CredMode, PerCall, ClientOK, BmcOK
  <2>2. SendRequest(t, loc[t], h)
    BY <1>7 DEF ProbeAccepted
  <2> HIDE DEF h
  <2>3. ClientOK' /\ BmcOK' /\ LogOK' /\ auth_mode' = auth_mode
        /\ issued' = issued /\ password' = password
    BY <1>0, <1>7 DEF ProbeAccepted, client, bmc, log, ClientOK, BmcOK, LogOK
  <2>4. loc[t] \in Locals
    BY <1>0 DEF CallsOK
  <2>5. CallsOK' /\ PoolOK'
    BY <1>0, <2>1, <2>2, <2>4, SendRequestCalls
  <2>6. ASSUME NEW u \in Tasks PROVE PerCall(u)'
    <3>1. CASE u = t
      BY <3>1, <1>0, <2>1, <2>2, <2>3, <2>4, SendRequestCalls
         DEF PerCall, CallsOK, NoReply, NoCall, BmcOK
    <3>2. CASE u # t
      BY <3>2, <1>0, <2>1, <2>2, <2>3, <2>4, SendRequestCalls DEF PerCall, CallsOK
    <3>3. QED
      BY <3>1, <3>2
  <2>7. QED
    BY <2>3, <2>5, <2>6 DEF TInv
<1>8. ASSUME NEW t \in Tasks, ProbeFails(t) PROVE TInv'
  BY <1>8, ReturnStep DEF ProbeFails, Results, NoFault
<1>9. ASSUME NEW t \in Tasks, Retry(t) PROVE TInv'
  <2> DEFINE l == [loc[t] EXCEPT !.refused = loc[t].cred]
  <2>1. l \in Locals /\ l.pw = loc[t].pw
    BY <1>0 DEF Locals, CallsOK
  <2>2. EnsureAuth(t, 0, l) /\ session_token' = 0
    BY <1>9 DEF Retry, RefusedToken
  <2> HIDE DEF l
  <2>3. ClientOK' /\ BmcOK' /\ LogOK' /\ auth_mode' = auth_mode
        /\ issued' = issued /\ password' = password
    BY <1>0, <1>9, <2>2 DEF Retry, bmc, log, ClientOK, BmcOK, LogOK
  <2>4. CallsOK' /\ PoolOK'
    BY <1>0, <2>1, <2>2, EnsureAuthCalls
  <2>5. ASSUME NEW u \in Tasks PROVE PerCall(u)'
    <3>1. CASE u = t
      BY <3>1, <1>0, <2>1, <2>2, <2>3, EnsureAuthCalls
         DEF PerCall, CallsOK, NoReply, NoCall, BmcOK
    <3>2. CASE u # t
      <4>1. loc'[u] = loc[u] /\ wire'[u] = wire[u] /\ pc'[u] = pc[u]
        BY <3>2, <1>0, <2>1, <2>2, EnsureAuthCalls DEF CallsOK
      <4>2. QED
        BY <4>1, <1>0, <2>3 DEF PerCall
    <3>3. QED
      BY <3>1, <3>2
  <2>6. QED
    BY <2>3, <2>4, <2>5 DEF TInv
<1>10. ASSUME NEW t \in Tasks, RequestDone(t) PROVE TInv'
  BY <1>10, ReturnStep DEF RequestDone, Results, NoFault
<1>11. ASSUME NEW t \in Tasks, RequestLost(t) PROVE TInv'
  BY <1>11, ReturnStep DEF RequestLost, Results, NoFault
<1>12. ASSUME NEW t \in Tasks, CloseDone(t) PROVE TInv'
  <2>1. /\ UNCHANGED <<client, made, open, bmc, log, loc, wire, execs, result>>
        /\ http' = 0 /\ pc' = [pc EXCEPT ![t] = "idle"]
    BY <1>12 DEF CloseDone
  <2>2. ClientOK' /\ BmcOK' /\ LogOK' /\ auth_mode' = auth_mode
        /\ issued' = issued /\ password' = password
    BY <1>0, <2>1 DEF client, bmc, log, ClientOK, BmcOK, LogOK
  <2>3. PoolOK' /\ CallsOK'
    BY <1>0, <2>1 DEF PoolOK, CallsOK, Pcs
  <2>4. \A u \in Tasks : pc'[u] \in {pc[u], "idle", "closing"}
    BY <1>0, <2>1 DEF CallsOK
  <2>5. QED
    BY <2>1, <2>2, <2>3, <2>4, CallsSame DEF TInv, BmcOK
<1>13. ASSUME NEW t \in Tasks, ServeSession(t) PROVE TInv'
  <2>0. password' = password /\ UNCHANGED <<service, client, pool, pc, loc, execs, result>>
    BY <1>13 DEF ServeSession
  <2>1. CASE Answer(t, "token", issued') /\ issued' = issued + 1
             /\ live' = live \cup {issued'} /\ NoFault
    <3>1. BmcOK' /\ issued <= issued' /\ issued' \in 0..issued'
      BY <1>0, <2>0, <2>1 DEF BmcOK
    <3>2. QED
      BY <1>0, <2>0, <2>1, <3>1, AnswerStep DEF LogOK, Replies
  <2>2. CASE /\ UNCHANGED <<issued, live>>
             /\ NoFault \/ Fault({t})
             /\ Answer(t, "fallback", 0) \/ Answer(t, "error", 0)
    <3>1. BmcOK' /\ issued <= issued' /\ 0 \in 0..issued'
      BY <1>0, <2>0, <2>2 DEF BmcOK
    <3>2. PICK r \in {"fallback", "error"} : Answer(t, r, 0)
      BY <2>2
    <3>3. r \in Replies /\ execs' \in [Tasks -> Nat]
      BY <1>0, <2>0 DEF Replies, LogOK
    <3>4. QED
      BY <2>0, <2>2, <3>1, <3>2, <3>3, AnswerStep
  <2>3. QED
    BY <1>13, <2>1, <2>2 DEF ServeSession
<1>14. ASSUME NEW t \in Tasks, ServeProbe(t) PROVE TInv'
  <2>1. BmcOK' /\ issued <= issued' /\ 0 \in 0..issued' /\ execs' \in [Tasks -> Nat]
    BY <1>0, <1>14 DEF ServeProbe, BmcOK, bmc, LogOK
  <2>2. (Answer(t, "ok", 0) \/ Answer(t, "fail", 0)) /\ (NoFault \/ Fault({t}))
    BY <1>14 DEF ServeProbe
  <2>3. UNCHANGED <<client, pool, pc, loc, result, password>>
    BY <1>14 DEF ServeProbe, bmc
  <2>4. QED
    BY <2>1, <2>2, <2>3, AnswerStep DEF Replies
<1>15. ASSUME NEW t \in Tasks, ServeRequest(t) PROVE TInv'
  <2>1. BmcOK' /\ issued <= issued' /\ 0 \in 0..issued'
    BY <1>0, <1>15 DEF ServeRequest, BmcOK, bmc
  <2>2. execs' \in [Tasks -> Nat]
    BY <1>0, <1>15 DEF ServeRequest, LogOK
  <2>3. /\ Answer(t, "ok", 0) \/ Answer(t, "fail", 0) \/ Answer(t, "denied", 0)
        /\ NoFault \/ Fault({t})
    BY <1>15 DEF ServeRequest
  <2>4. UNCHANGED <<client, pool, pc, loc, result, password>>
    BY <1>15 DEF ServeRequest, bmc
  <2>5. QED
    BY <2>1, <2>2, <2>3, <2>4, AnswerStep DEF Replies
<1>16. ASSUME NEW t \in Tasks, Close(t) PROVE TInv'
  <2>1. /\ UNCHANGED <<client, bmc, loc, wire, execs, result, made>> /\ Fault(Tasks)
        /\ pc' \in {pc, [pc EXCEPT ![t] = "closing"]}
        /\ http' \in {http, 0} /\ open' \subseteq open
    BY <1>16 DEF Close
  <2>2. ClientOK' /\ BmcOK' /\ auth_mode' = auth_mode
        /\ issued' = issued /\ password' = password
    BY <1>0, <2>1 DEF client, bmc, ClientOK, BmcOK
  <2>3. LogOK'
    BY <1>0, <2>1, FaultTyped DEF LogOK
  <2>4. PoolOK'
    BY <1>0, <2>1 DEF PoolOK
  <2>5. CallsOK'
    BY <1>0, <2>1 DEF CallsOK, Pcs
  <2>6. \A u \in Tasks : pc'[u] \in {pc[u], "idle", "closing"}
    BY <1>0, <2>1 DEF CallsOK
  <2>7. QED
    BY <2>1, <2>2, <2>3, <2>4, <2>5, <2>6, CallsSame DEF TInv, BmcOK
<1>17. ASSUME NEW t \in Tasks, Cancel(t) PROVE TInv'
  BY <1>17, ReturnStep DEF Cancel, Results
<1>18. ASSUME NEW t \in Tasks, Lose(t) PROVE TInv'
  <2>1. BmcOK' /\ issued <= issued' /\ 0 \in 0..issued' /\ execs' \in [Tasks -> Nat]
    BY <1>0, <1>18 DEF Lose, BmcOK, bmc, LogOK
  <2>2. Answer(t, "lost", 0) /\ (NoFault \/ Fault({t}))
    BY <1>18 DEF Lose
  <2>3. UNCHANGED <<client, pool, pc, loc, result, password>>
    BY <1>18 DEF Lose, bmc
  <2>4. QED
    BY <2>1, <2>2, <2>3, AnswerStep DEF Replies
<1>19. ASSUME NEW s \in live, Expire(s) PROVE TInv'
  <2>1. /\ UNCHANGED <<client, pool, issued, password, service, pc, loc, wire, execs, result>>
        /\ live' = live \ {s} /\ \E S : Fault(S)
    BY <1>19 DEF Expire
  <2>2. ClientOK' /\ BmcOK' /\ PoolOK' /\ CallsOK' /\ auth_mode' = auth_mode
    BY <1>0, <2>1 DEF client, pool, ClientOK, BmcOK, PoolOK, CallsOK
  <2>3. LogOK'
    BY <1>0, <2>1, FaultTyped DEF LogOK
  <2>4. QED
    BY <2>1, <2>2, <2>3, CallsSame DEF TInv, BmcOK
<1>20. CASE Age
  <2>1. /\ UNCHANGED <<session_token, auth_mode, basic_header, session_dirty,
                       pool, bmc, pc, loc, wire, execs, result>>
        /\ fresh' = FALSE /\ \E S : Fault(S)
    BY <1>20 DEF Age
  <2>2. ClientOK' /\ BmcOK' /\ PoolOK' /\ CallsOK' /\ issued' = issued /\ password' = password
    BY <1>0, <2>1 DEF bmc, pool, ClientOK, BmcOK, PoolOK, CallsOK
  <2>3. LogOK'
    BY <1>0, <2>1, FaultTyped DEF LogOK
  <2>4. QED
    BY <2>1, <2>2, <2>3, CallsSame DEF TInv, BmcOK
<1>21. CASE Rotate
  <2>1. /\ UNCHANGED <<client, pool, live, issued, service, pc, loc, wire, execs, result>>
        /\ password' = password + 1 /\ Fault(Tasks)
    BY <1>21 DEF Rotate
  <2>2. ClientOK' /\ BmcOK' /\ PoolOK' /\ CallsOK' /\ auth_mode' = auth_mode
        /\ password <= password'
    BY <1>0, <2>1 DEF client, pool, ClientOK, BmcOK, PoolOK, CallsOK
  <2>3. LogOK'
    BY <1>0, <2>1, FaultTyped DEF LogOK
  <2>4. QED
    BY <2>1, <2>2, <2>3, CallsSame DEF TInv
<1>22. CASE UNCHANGED vars
  BY <1>0, <1>22 DEF vars, client, pool, bmc, log, TInv, ClientOK, BmcOK, PoolOK,
                     CallsOK, LogOK, PerCall
<1>23. QED
  BY <1>1, <1>2, <1>3, <1>4, <1>5, <1>6, <1>7, <1>8, <1>9, <1>10, <1>11, <1>12, <1>13,
     <1>14, <1>15, <1>16, <1>17, <1>18, <1>19, <1>20, <1>21, <1>22
     DEF Next, Resume, Serve

\* Every variable of the client, the BMC and the calls keeps its type, and no
\* request leaves without a credential (_ensure_auth, _login, _auth_headers).
THEOREM TypeCorrect == Spec => []TypeOK
<1>1. TInv => TypeOK
  BY DEF TInv, TypeOK, PerCall
<1>2. QED
  BY <1>1, TInvInit, TInvStep, PTL DEF Spec

-----------------------------------------------------------------------------
(***************************************************************************)
(* A call is executed at most once.  A request in flight has not been      *)
(* executed as long as the BMC has not answered it, or has answered 401.   *)
(***************************************************************************)
StepOf(t) == \/ \E k \in Kinds : Call(t, k)
             \/ Resume(t) \/ Serve(t) \/ Close(t) \/ Cancel(t) \/ Lose(t)

\* A step of one task leaves the calls of the others alone.
LEMMA OthersSame ==
  ASSUME TInv, NEW t \in Tasks, StepOf(t), NEW u \in Tasks, u # t
  PROVE  /\ pc'[u] = pc[u] /\ loc'[u] = loc[u] /\ wire'[u] = wire[u]
         /\ execs'[u] = execs[u] /\ result'[u] = result[u]
<1> USE DEF TInv, CallsOK, LogOK
<1>1. CASE \E k \in Kinds : Call(t, k)
  BY <1>1 DEF Call, EnsureAuth, SendRequest, Await, Return
<1>2. CASE Resume(t)
  BY <1>2 DEF Resume, ResolvePassword, PasswordFails, TokenGranted, FallBack, LoginFails,
              ProbeAccepted, ProbeFails, Retry, RequestDone, RequestLost, CloseDone,
              EnsureAuth, SendRequest, Await, Return
<1>3. CASE Serve(t)
  BY <1>3 DEF Serve, ServeSession, ServeProbe, ServeRequest, Answer
<1>4. CASE Close(t) \/ Cancel(t) \/ Lose(t)
  BY <1>4 DEF Close, Cancel, Lose, Return, Answer
<1>5. QED
  BY <1>1, <1>2, <1>3, <1>4 DEF StepOf

ExecInv(t) ==
  /\ execs[t] \in 0..1
  /\ pc[t] \in {"password", "session", "probe"} => execs[t] = 0
  /\ pc[t] = "request" /\ Reply(t) \in {"none", "denied"} => execs[t] = 0
  /\ pc[t] = "request" /\ Reply(t) = "ok" => execs[t] = 1
  /\ result[t] = "ok" => execs[t] = 1 /\ pc[t] \in {"idle", "closing"}

LEMMA ExecInvInit == Init => \A t \in Tasks : ExecInv(t)
BY DEF Init, ExecInv, Reply, NoReply

\* The parts of ExecInv(t) that a step of t itself may disturb.
LEMMA ExecInvOwn ==
  ASSUME TInv, NEW t \in Tasks, ExecInv(t), StepOf(t)
  PROVE  ExecInv(t)'
<1> USE DEF Reply, NoReply
<1>0. CallsOK /\ PoolOK /\ ClientOK /\ BmcOK /\ LogOK /\ loc[t] \in Locals
  BY DEF TInv, CallsOK
<1>1. ASSUME NEW k \in Kinds, Call(t, k) PROVE ExecInv(t)'
  <2>1. execs'[t] = 0 /\ EnsureAuth(t, session_token, [NoCall EXCEPT !.kind = k])
    BY <1>0, <1>1 DEF Call, LogOK
  <2>2. wire'[t].reply = "none" /\ result'[t] # "ok"
    BY <1>0, <2>1 DEF EnsureAuth, SendRequest, Await, Return, CallsOK
  <2>3. QED
    BY <2>1, <2>2 DEF ExecInv
<1>2. CASE /\ PasswordFails(t) \/ LoginFails(t) \/ ProbeFails(t) \/ RequestDone(t)
              \/ RequestLost(t) \/ Cancel(t)
  <2>1. PICK r \in Results : /\ Return(t, r) /\ UNCHANGED execs
                             /\ r = "ok" => pc[t] = "request" /\ Reply(t) = "ok"
    BY <1>2 DEF PasswordFails, LoginFails, ProbeFails, RequestDone, RequestLost, Cancel,
                Results
  <2>2. pc'[t] = "idle" /\ result'[t] = r
    BY <1>0, <2>1 DEF Return, CallsOK
  <2>3. QED
    BY <2>1, <2>2 DEF ExecInv
<1>3. CASE ResolvePassword(t) \/ TokenGranted(t) \/ FallBack(t) \/ ProbeAccepted(t)
  <2>1. execs'[t] = 0
    BY <1>3 DEF ResolvePassword, TokenGranted, FallBack, ProbeAccepted, ExecInv
  <2>2. wire'[t].reply = "none" /\ result'[t] # "ok"
    BY <1>0, <1>3 DEF ResolvePassword, TokenGranted, FallBack, ProbeAccepted, SendRequest,
                      Await, Return, CallsOK
  <2>3. QED
    BY <2>1, <2>2 DEF ExecInv
<1>4. CASE Retry(t)
  <2>1. execs'[t] = 0
    BY <1>4 DEF Retry, Retries, ExecInv
  <2>2. wire'[t].reply = "none" /\ result'[t] # "ok"
    BY <1>0, <1>4 DEF Retry, EnsureAuth, SendRequest, Await, Return, CallsOK
  <2>3. QED
    BY <2>1, <2>2 DEF ExecInv
<1>5. CASE CloseDone(t) \/ Close(t)
  <2>1. UNCHANGED <<execs, result>> /\ pc'[t] \in {"idle", "closing"}
    BY <1>0, <1>5 DEF CloseDone, Close, CallsOK
  <2>2. QED
    BY <2>1 DEF ExecInv
<1>6. CASE ServeSession(t) \/ ServeProbe(t)
  BY <1>6 DEF ServeSession, ServeProbe, ExecInv
<1>7. CASE ServeRequest(t)
  <2>1. /\ pc[t] = "request" /\ execs[t] = 0 /\ UNCHANGED <<pc, result>> /\ result[t] # "ok"
    BY <1>7 DEF ServeRequest, ExecInv
  <2>2. \/ wire'[t].reply = "ok" /\ execs'[t] = 1
        \/ wire'[t].reply = "fail" /\ execs'[t] \in 0..1
        \/ wire'[t].reply = "denied" /\ execs'[t] = 0
    BY <1>0, <1>7, <2>1 DEF ServeRequest, Answer, CallsOK, LogOK
  <2>3. QED
    BY <2>1, <2>2 DEF ExecInv
<1>8. CASE Lose(t)
  <2>1. wire'[t].reply = "lost" /\ UNCHANGED <<pc, execs, result>>
    BY <1>0, <1>8 DEF Lose, Answer, CallsOK
  <2>2. QED
    BY <2>1 DEF ExecInv
<1>9. QED
  BY <1>1, <1>2, <1>3, <1>4, <1>5, <1>6, <1>7, <1>8 DEF StepOf, Resume, Serve

\* Next is a step of one task, or one that no call sees.
LEMMA NextSteps ==
  ASSUME [Next]_vars
  PROVE  \/ \E t \in Tasks : StepOf(t)
         \/ /\ UNCHANGED <<pc, loc, wire, execs, result, session_token, issued>>
            /\ auth_mode' = auth_mode /\ basic_header' = basic_header
BY DEF Next, StepOf, Expire, Age, Rotate, vars, client, bmc

LEMMA ExecInvStep ==
  ASSUME TInv, \A t \in Tasks : ExecInv(t), [Next]_vars
  PROVE  \A t \in Tasks : ExecInv(t)'
<1> SUFFICES ASSUME NEW u \in Tasks PROVE ExecInv(u)'
  OBVIOUS
<1>1. ASSUME NEW t \in Tasks, StepOf(t) PROVE ExecInv(u)'
  <2>1. CASE u = t
    BY <1>1, <2>1, ExecInvOwn
  <2>2. CASE u # t
    BY <1>1, <2>2, OthersSame DEF ExecInv, Reply
  <2>3. QED
    BY <2>1, <2>2
<1>2. CASE UNCHANGED <<pc, loc, wire, execs, result, session_token, issued>>
  BY <1>2 DEF ExecInv, Reply
<1>3. QED
  BY <1>1, <1>2, NextSteps

\* The retry after a 401 never repeats what the BMC already did, and a call
\* that reports success was executed exactly once (_get, _post_action, _patch).
THEOREM ExecutedOnceHolds == Spec => []ExecutedOnce
<1> DEFINE Inv == TInv /\ \A t \in Tasks : ExecInv(t)
<1>1. Init => Inv
  BY TInvInit, ExecInvInit
<1>2. Inv /\ [Next]_vars => Inv'
  BY TInvStep, ExecInvStep
<1>3. Inv => ExecutedOnce
  BY DEF ExecInv, ExecutedOnce
<1>4. QED
  BY <1>1, <1>2, <1>3, PTL DEF Spec

-----------------------------------------------------------------------------
(***************************************************************************)
(* The retry goes out with a token the BMC granted after it refused the    *)
(* first one.  Tokens flow from the BMC's answer (grant) to the client     *)
(* (session_token), from there to the requests (cred), and from a refused  *)
(* request to its retry (refused): a grant that has not reached the client *)
(* is a token no request ever carried, and a token that was refused never  *)
(* is the client's again.                                                  *)
(***************************************************************************)
Granted(t) == Reply(t) = "token"

\* Token n is in no request of task u, present or refused.
Unused(n, u) ==
  /\ loc[u].cred.mode = "session" => loc[u].cred.val # n
  /\ loc[u].refused.mode = "session" => loc[u].refused.val # n

TokenInv ==
  /\ \A t \in Tasks : Granted(t) => wire[t].grant # 0 /\ wire[t].grant # session_token
  /\ \A t, u \in Tasks : Granted(t) /\ Granted(u) /\ t # u => wire[t].grant # wire[u].grant
  /\ \A t, u \in Tasks : Granted(t) => Unused(wire[t].grant, u)
  /\ \A u \in Tasks : \A n \in Nat : n > issued => Unused(n, u)
  /\ \A u \in Tasks : loc[u].refused.mode = "session" /\ loc[u].refused.val # 0
                     => session_token # loc[u].refused.val
  /\ RetryHasNewToken

LEMMA TokenInvInit == Init => TokenInv
BY DEF Init, TokenInv, Granted, Unused, RetryHasNewToken, Reply, NoReply, NoCall, NoCred, IsRetry

(***************************************************************************)
(* What a step of task t does to the tokens, one definition per kind.      *)
(***************************************************************************)
\* The locals of t carry no other credential than before.
Keeps(t) ==
  /\ session_token' = session_token /\ issued' = issued
  /\ wire'[t].reply # "token" \/ wire'[t] = wire[t]
  /\ \/ loc'[t].cred = loc[t].cred /\ loc'[t].refused = loc[t].refused
     \/ loc'[t].cred = NoCred /\ loc'[t].refused = NoCred
  /\ pc'[t] = "request" => loc'[t] = loc[t] /\ pc[t] = "request"

\* A request goes out with the credential the client has.
Sends(t) ==
  /\ session_token' = session_token /\ issued' = issued
  /\ wire'[t].reply # "token"
  /\ loc'[t].cred = Headers(auth_mode, session_token, basic_header)
  /\ loc'[t].refused \in {NoCred, loc[t].refused}

\* A granted token becomes the client's, and a request goes out with it or
\* the call ends.
Stores(t) ==
  /\ Granted(t) /\ session_token' = wire[t].grant /\ issued' = issued
  /\ wire'[t].reply # "token"
  /\ \/ loc'[t].cred = [mode |-> "session", val |-> wire[t].grant]
     \/ loc'[t].cred = NoCred
  /\ loc'[t].refused \in {NoCred, loc[t].refused}

\* A refused request drops the client's token and goes to log in.
Drops(t) ==
  /\ session_token' = 0 /\ issued' = issued
  /\ wire'[t].reply # "token"
  /\ loc'[t].cred = loc[t].cred /\ loc'[t].refused = loc[t].cred
  /\ pc'[t] = "password"

\* The BMC grants a new token.
Issues(t) ==
  /\ session_token' = session_token /\ issued' = issued + 1
  /\ wire'[t].reply = "token" /\ wire'[t].grant = issued + 1
  /\ loc'[t] = loc[t] /\ pc'[t] # "request"

LEMMA TokenMove ==
  ASSUME TInv, NEW t \in Tasks, StepOf(t)
  PROVE  Keeps(t) \/ Sends(t) \/ Stores(t) \/ Drops(t) \/ Issues(t)
<1> USE DEF Reply, NoReply
<1>0. CallsOK /\ PoolOK /\ ClientOK /\ BmcOK /\ LogOK /\ loc[t] \in Locals /\ wire[t] \in Wire
  BY DEF TInv, CallsOK
<1>1. ASSUME NEW k \in Kinds, Call(t, k) PROVE Keeps(t) \/ Sends(t)
  <2> DEFINE l == [NoCall EXCEPT !.kind = k]
  <2>1. l \in Locals /\ l.cred = NoCred /\ l.refused = NoCred /\ NoCall.cred = NoCred
        /\ NoCall.refused = NoCred
    BY EmptyTyped DEF NoCall, Locals, Kinds
  <2>2. EnsureAuth(t, session_token, l) /\ session_token \in Nat
        /\ session_token' = session_token /\ issued' = issued
    BY <1>0, <1>1 DEF Call, ClientOK, BmcOK, client, bmc
  <2> HIDE DEF l
  <2>3. wire'[t].reply = "none"
    BY <1>0, <2>1, <2>2, EnsureAuthCalls DEF CallsOK
  <2>4. CASE NeedsLogin(session_token)
    <3>1. loc'[t] = l /\ pc'[t] = "password"
      BY <1>0, <2>1, <2>2, <2>4, EnsureAuthCalls DEF CallsOK
    <3>2. QED
      BY <2>1, <2>2, <2>3, <3>1 DEF Keeps
  <2>5. CASE ~ NeedsLogin(session_token)
    <3>1. \/ /\ loc'[t].cred = Headers(auth_mode, session_token, basic_header)
             /\ loc'[t].refused = NoCred
          \/ loc'[t] = NoCall /\ pc'[t] = "idle"
      BY <1>0, <2>1, <2>2, <2>5, EnsureAuthCalls DEF CallsOK
    <3>2. QED
      BY <2>1, <2>2, <2>3, <3>1 DEF Keeps, Sends
  <2>6. QED
    BY <2>4, <2>5
<1>2. CASE /\ PasswordFails(t) \/ LoginFails(t) \/ ProbeFails(t) \/ RequestDone(t)
              \/ RequestLost(t) \/ Cancel(t)
  <2>1. (\E r \in Results : Return(t, r)) /\ session_token' = session_token /\ issued' = issued
    BY <1>2 DEF PasswordFails, LoginFails, ProbeFails, RequestDone, RequestLost, Cancel,
                Results, client, bmc
  <2>2. pc'[t] = "idle" /\ loc'[t] = NoCall /\ wire'[t] = NoReply
    BY <1>0, <2>1 DEF Return, CallsOK
  <2>3. QED
    BY <2>1, <2>2 DEF Keeps, NoCall
<1>3. CASE ResolvePassword(t)
  <2> DEFINE l == [loc[t] EXCEPT !.pw = password, !.loginConn = Http]
  <2>1. /\ Await(t, "session", Http, l) /\ session_token' = session_token /\ issued' = issued
    BY <1>3 DEF ResolvePassword, client, bmc
  <2>2. l \in Locals /\ l.cred = loc[t].cred /\ l.refused = loc[t].refused
    <3>1. Http \in Nat /\ password \in Nat
      BY <1>0, <1>3, OpenHttpTyped DEF ResolvePassword, BmcOK
    <3>2. QED
      BY <1>0, <3>1 DEF Locals
  <2> HIDE DEF l
  <2>3. /\ wire'[t].reply = "none" /\ pc'[t] # "request"
        /\ loc'[t] = l \/ loc'[t] = NoCall
    BY <1>0, <2>1, <2>2, AwaitCalls DEF Pcs, CallsOK
  <2>4. QED
    BY <2>1, <2>2, <2>3 DEF Keeps, NoCall
<1>4. CASE FallBack(t)
  <2>1. /\ Await(t, "probe", loc[t].loginConn, loc[t])
        /\ session_token' = session_token /\ issued' = issued
    BY <1>4 DEF FallBack, bmc
  <2>2. /\ wire'[t].reply = "none" /\ pc'[t] # "request"
        /\ loc'[t] = loc[t] \/ loc'[t] = NoCall
    BY <1>0, <2>1, AwaitCalls DEF Pcs, CallsOK
  <2>3. QED
    BY <2>1, <2>2 DEF Keeps, NoCall
<1>5. CASE TokenGranted(t)
  <2> DEFINE h == [mode |-> "session", val |-> wire[t].grant]
  <2>1. h \in Cred
    BY <1>0 DEF Cred, CredMode, Wire
  <2>2. SendRequest(t, loc[t], h)
    BY <1>5 DEF TokenGranted, Headers
  <2> HIDE DEF h
  <2>3. /\ wire'[t].reply = "none"
        /\ \/ loc'[t].cred = h /\ loc'[t].refused = loc[t].refused
           \/ loc'[t] = NoCall
    BY <1>0, <2>1, <2>2, SendRequestCalls DEF CallsOK
  <2>4. Granted(t) /\ session_token' = wire[t].grant /\ issued' = issued
    BY <1>5 DEF TokenGranted, Granted, bmc
  <2>5. QED
    BY <2>3, <2>4 DEF Stores, NoCall, h
<1>6. CASE ProbeAccepted(t)
  <2> DEFINE h == Headers(auth_mode, session_token, basic_header)
  <2>1. h \in Cred
    BY <1>0 DEF Headers, Cred, CredMode, NoCred, ClientOK, BmcOK
  <2>2. SendRequest(t, loc[t], h) /\ session_token' = session_token /\ issued' = issued
    BY <1>6 DEF ProbeAccepted, client, bmc
  <2> HIDE DEF h
  <2>3. /\ wire'[t].reply = "none"
        /\ \/ loc'[t].cred = h /\ loc'[t].refused = loc[t].refused
           \/ loc'[t] = NoCall /\ pc'[t] = "idle"
    BY <1>0, <2>1, <2>2, SendRequestCalls DEF CallsOK
  <2>4. QED
    BY <2>2, <2>3 DEF Keeps, Sends, NoCall, h
<1>7. CASE Retry(t)
  <2> DEFINE l == [loc[t] EXCEPT !.refused = loc[t].cred]
  <2>1. l \in Locals /\ l.cred = loc[t].cred /\ l.refused = loc[t].cred
    BY <1>0 DEF Locals
  <2>2. EnsureAuth(t, 0, l) /\ session_token' = 0 /\ issued' = issued /\ NeedsLogin(0)
    BY <1>7 DEF Retry, RefusedToken, Retries, NeedsLogin, TokenFresh, bmc
  <2> HIDE DEF l
  <2>3. wire'[t].reply = "none" /\ loc'[t] = l /\ pc'[t] = "password"
    BY <1>0, <2>1, <2>2, EnsureAuthCalls DEF CallsOK
  <2>4. QED
    BY <2>1, <2>2, <2>3 DEF Drops
<1>8. CASE CloseDone(t) \/ Close(t)
  BY <1>0, <1>8 DEF CloseDone, Close, CallsOK, Keeps, client, bmc
<1>9. CASE ServeSession(t)
  <2>1. CASE Answer(t, "token", issued') /\ issued' = issued + 1
    BY <1>0, <1>9, <2>1 DEF ServeSession, Answer, CallsOK, Issues, client
  <2>2. CASE /\ UNCHANGED issued
             /\ Answer(t, "fallback", 0) \/ Answer(t, "error", 0)
    BY <1>0, <1>9, <2>2 DEF ServeSession, Answer, CallsOK, Keeps, client
  <2>3. QED
    BY <1>9, <2>1, <2>2 DEF ServeSession
<1>10. CASE ServeProbe(t) \/ ServeRequest(t) \/ Lose(t)
  <2>1. UNCHANGED <<client, bmc, pc, loc>> /\ wire'[t].reply # "token"
    BY <1>0, <1>10 DEF ServeProbe, ServeRequest, Lose, Answer, CallsOK
  <2>2. QED
    BY <1>0, <2>1 DEF Keeps, client, bmc
<1>11. QED
  BY <1>1, <1>2, <1>3, <1>4, <1>5, <1>6, <1>7, <1>8, <1>9, <1>10 DEF StepOf, Resume, Serve

LEMMA TokenInvStep ==
  ASSUME TInv, TInv', TokenInv, [Next]_vars
  PROVE  TokenInv'
<1> USE DEF TokenInv, Granted, Unused, Reply
<1>0. /\ issued \in Nat /\ session_token \in 0..issued
      /\ \A u \in Tasks : /\ wire[u].grant \in 0..issued
                         /\ loc[u].cred.val \in Nat /\ loc[u].refused.val \in Nat
  BY DEF TInv, ClientOK, BmcOK, CallsOK, PerCall, Locals, Cred
<1>1. ASSUME NEW t \in Tasks, StepOf(t) PROVE TokenInv'
  <2>1. \A u \in Tasks \ {t} : pc'[u] = pc[u] /\ loc'[u] = loc[u] /\ wire'[u] = wire[u]
    BY <1>1, OthersSame
  <2>2. CASE Keeps(t)
    BY <1>0, <2>1, <2>2 DEF Keeps, RetryHasNewToken, IsRetry, NoCred
  <2>3. CASE Sends(t)
    BY <1>0, <2>1, <2>3 DEF Sends, RetryHasNewToken, IsRetry, NoCred, Headers
  <2>4. CASE Stores(t)
    BY <1>0, <2>1, <2>4 DEF Stores, RetryHasNewToken, IsRetry, NoCred
  <2>5. CASE Drops(t)
    BY <1>0, <2>1, <2>5 DEF Drops, RetryHasNewToken, IsRetry, NoCred
  <2>6. CASE Issues(t)
    BY <1>0, <2>1, <2>6 DEF Issues, RetryHasNewToken, IsRetry
  <2>7. QED
    BY <1>1, <2>2, <2>3, <2>4, <2>5, <2>6, TokenMove
<1>2. CASE UNCHANGED <<pc, loc, wire, execs, result, session_token, issued>>
  BY <1>2 DEF RetryHasNewToken, IsRetry
<1>3. QED
  BY <1>1, <1>2, NextSteps

\* The second attempt never goes out with the token the first one was refused
\* with, whatever the other tasks do to the client in between (the 401
\* handlers of _get, _post_action, _patch).
THEOREM RetryHasNewTokenHolds == Spec => []RetryHasNewToken
<1> DEFINE Inv == TInv /\ TokenInv
<1>1. Init => Inv
  BY TInvInit, TokenInvInit
<1>2. Inv /\ [Next]_vars => Inv'
  BY TInvStep, TokenInvStep
<1>3. Inv => RetryHasNewToken
  BY DEF TokenInv
<1>4. QED
  BY <1>1, <1>2, <1>3, PTL DEF Spec

-----------------------------------------------------------------------------
(***************************************************************************)
(* Why a call fails.  Whatever may make a call fail has disturbed it by    *)
(* then: a closed httpx client, an answer that was lost or is an error, a  *)
(* password that was rotated under a login, a fallback to Basic of a BMC   *)
(* that hands out tokens, a session that expired after the first attempt.  *)
(***************************************************************************)
HttpClosed == http # 0 /\ http \notin open

\* Of the httpx clients.
Connected(t) ==
  /\ loc[t].conn \in 0..made /\ loc[t].loginConn \in 0..made
  /\ InCall(t) /\ HttpClosed => disturbed[t]
  /\ (InCall(t) /\ IsRetry(t)) \/ pc[t] = "request" => loc[t].conn \in open \/ disturbed[t]
  /\ pc[t] \in {"session", "probe"} => loc[t].loginConn \in open \/ disturbed[t]

\* Of the answers.
Informed(t) ==
  /\ OnWire(t) /\ Reply(t) \in {"error", "lost"} => disturbed[t]
  /\ pc[t] = "probe" /\ Reply(t) = "fail" => disturbed[t]
  /\ pc[t] \in {"session", "probe"} /\ loc[t].pw # password => disturbed[t]
  /\ pc[t] = "probe" /\ service => disturbed[t]
  /\ pc[t] = "request" /\ Reply(t) = "denied" => ~ Accepts(loc[t].cred)

\* Of the credentials.
Admitted(t) ==
  /\ pc[t] = "session" /\ Reply(t) = "token" => service /\ (IsRetry(t) => wire[t].grant \in live \/ disturbed[t])
  /\ pc[t] = "request" /\ loc[t].cred.mode = "basic" => loc[t].cred.val \in 0..password
  /\ pc[t] = "request" /\ loc[t].cred.mode = "session" =>
       /\ loc[t].cred.val \in 0..issued /\ service
       /\ auth_mode # "session" => disturbed[t]
       /\ IsRetry(t) => loc[t].cred.val \in live \/ disturbed[t]

WhyInv ==
  /\ auth_mode = "session" => service
  /\ \A t \in Tasks : Connected(t) /\ Informed(t) /\ Admitted(t)

\* Of the request itself.
FailsRight(t) == pc[t] = "request" /\ Reply(t) = "fail" => disturbed[t]

LEMMA WhyInit == Init => WhyInv
<1> SUFFICES ASSUME Init PROVE WhyInv
  OBVIOUS
<1>1. \A t \in Tasks : pc[t] = "idle" /\ loc[t] = NoCall
  BY DEF Init
<1>2. ASSUME NEW t \in Tasks PROVE Connected(t) /\ Informed(t) /\ Admitted(t)
  <2>1. made = 0
    BY DEF Init
  <2>2. QED
    BY <1>1, <2>1 DEF Connected, Informed, Admitted, InCall, OnWire, NoCall
<1>3. QED
  BY <1>2 DEF Init, WhyInv

-----------------------------------------------------------------------------
\* What a step may do to a call that is not its own.
Lasting ==
  /\ service' = service /\ issued <= issued' /\ password <= password' /\ made <= made'
  /\ \A s \in 0..issued : s \in live' => s \in live

Harmless(u) ==
  /\ disturbed[u] => disturbed'[u]
  /\ InCall(u) /\ ~ disturbed'[u] =>
       /\ HttpClosed' => HttpClosed
       /\ open \subseteq open' /\ password' = password
       /\ auth_mode' = auth_mode \/ auth_mode' = "session" \/ ~ service
       /\ IsRetry(u) => live \subseteq live'

LEMMA HarmlessKeeps ==
  ASSUME TInv, TInv', WhyInv, NEW u \in Tasks, pc'[u] = pc[u], loc'[u] = loc[u], wire'[u] = wire[u],
         Lasting, Harmless(u)
  PROVE  Connected(u)' /\ Informed(u)' /\ Admitted(u)'
<1>0. /\ issued \in Nat /\ issued' \in Nat /\ password \in Nat /\ password' \in Nat /\ made \in Nat /\ made' \in Nat
      /\ loc[u] \in Locals
  BY DEF TInv, BmcOK, PoolOK, CallsOK
<1>1. Connected(u) /\ Informed(u) /\ Admitted(u)
  BY DEF WhyInv
<1>2. /\ InCall(u)' <=> InCall(u)
      /\ OnWire(u)' <=> OnWire(u)
      /\ IsRetry(u)' <=> IsRetry(u)
      /\ Reply(u)' = Reply(u)
      /\ OnWire(u) => InCall(u)
  BY DEF InCall, OnWire, IsRetry, Reply
<1>3. Connected(u)'
  <2>1. loc'[u].conn \in 0..made' /\ loc'[u].loginConn \in 0..made'
    BY <1>0, <1>1 DEF Connected, Lasting
  <2>2. QED
    BY <1>1, <1>2, <2>1 DEF Connected, Lasting, Harmless, InCall
<1>4. Informed(u)'
  <2>1. pc[u] = "request" /\ Reply(u) = "denied" => ~ Accepts(loc[u].cred)'
    <3> SUFFICES ASSUME pc[u] = "request", Reply(u) = "denied" PROVE ~ Accepts(loc[u].cred)'
      OBVIOUS
    <3>1. ~ Accepts(loc[u].cred)
      BY <1>1 DEF Informed
    <3>2. PICK c : c = loc[u].cred
      OBVIOUS
    <3>3. c.mode = "session" => c.val \notin live'
      BY <1>1, <3>1, <3>2 DEF Accepts, Admitted, Lasting
    <3>4. c.mode = "basic" => c.val # password'
      BY <1>0, <1>1, <3>1, <3>2 DEF Accepts, Admitted, Lasting
    <3>5. QED
      BY <3>2, <3>3, <3>4 DEF Accepts
  <2>2. QED
    BY <1>1, <1>2, <2>1 DEF Informed, Lasting, Harmless, InCall
<1>5. Admitted(u)'
  <2>1. /\ pc[u] = "request" /\ loc[u].cred.mode = "basic" => loc[u].cred.val \in 0..password'
        /\ pc[u] = "request" /\ loc[u].cred.mode = "session" => loc[u].cred.val \in 0..issued'
    BY <1>0, <1>1 DEF Admitted, Lasting
  <2>2. QED
    BY <1>1, <1>2, <2>1 DEF Admitted, Lasting, Harmless, InCall
<1>6. QED
  BY <1>3, <1>4, <1>5

-----------------------------------------------------------------------------
\* OpenHttp opens an httpx client or leaves them alone.
Opens == made <= made' /\ open \subseteq open' /\ (HttpClosed' => HttpClosed)

LEMMA OpenHttpOpens ==
  ASSUME PoolOK, OpenHttp
  PROVE  Opens
<1>1. CASE http = 0
  <2>1. made' = made + 1 /\ http' = made + 1 /\ open' = open \cup {made + 1}
    BY <1>1 DEF OpenHttp, Http
  <2>2. made <= made'
    BY <2>1 DEF PoolOK
  <2>3. QED
    BY <2>1, <2>2 DEF Opens, HttpClosed
<1>2. CASE http # 0
  <2>1. http' = http /\ made' = made /\ open' = open
    BY <1>2 DEF OpenHttp, pool
  <2>2. QED
    BY <2>1 DEF PoolOK, Opens, HttpClosed
<1>3. QED
  BY <1>1, <1>2

LEMMA PoolSameOpens ==
  ASSUME PoolOK, UNCHANGED pool
  PROVE  Opens
BY DEF PoolOK, pool, Opens, HttpClosed

\* The call of t is over.
Ended(t) == pc'[t] = "idle" /\ loc'[t] = NoCall

\* The request of t goes out on an open httpx client, or it was closed.
LEMMA SendRequestOpen ==
  ASSUME CallsOK, PoolOK, NEW t \in Tasks, NEW l \in Locals, NEW cred \in Cred,
         SendRequest(t, l, cred), l.conn \in 0..made, l.loginConn \in 0..made
  PROVE  /\ Opens
         /\ wire'[t] = NoReply
         /\ \/ /\ pc'[t] = "request"
               /\ loc'[t].cred = cred /\ loc'[t].refused = l.refused
               /\ loc'[t].conn \in open'
               /\ loc'[t].conn \in 0..made' /\ loc'[t].loginConn \in 0..made'
            \/ /\ Ended(t)
               /\ l.refused = NoCred => HttpClosed
               /\ l.refused # NoCred => l.conn \notin open
<1>1. CASE l.refused = NoCred
  <2> DEFINE m == [l EXCEPT !.cred = cred, !.conn = Http]
  <2>1. OpenHttp /\ Await(t, "request", Http, m)
    BY <1>1 DEF SendRequest
  <2>2. PoolOK' /\ Http \in Nat /\ Opens
    BY <2>1, OpenHttpTyped, OpenHttpOpens
  <2>3. m \in Locals /\ m.cred = cred /\ m.refused = l.refused /\ m.conn = Http
        /\ m.loginConn = l.loginConn
    BY <2>2 DEF Locals
  <2> HIDE DEF m
  <2>4. CASE Usable(Http)
    <3>1. Http \in open' /\ Http = http'
      BY <2>1, <2>4 DEF Usable, OpenHttp, pool, Http
    <3>2. pc'[t] = "request" /\ loc'[t] = m /\ wire'[t] = NoReply
      BY <2>1, <2>4 DEF Await, CallsOK
    <3>3. m.conn \in 0..made' /\ m.loginConn \in 0..made'
      <4>1. made \in Nat /\ made' \in Nat /\ made <= made' /\ Http \in 0..made'
        BY <2>2, <3>1 DEF PoolOK, Opens
      <4>2. QED
        BY <2>3, <4>1
    <3>4. QED
      BY <2>2, <2>3, <3>1, <3>2, <3>3
  <2>5. CASE ~ Usable(Http)
    <3>1. http # 0 /\ http \notin open
      BY <2>5 DEF Usable, Http
    <3>2. pc'[t] = "idle" /\ loc'[t] = NoCall /\ wire'[t] = NoReply
      BY <2>1, <2>5 DEF Await, Return, CallsOK
    <3>3. QED
      BY <1>1, <2>2, <3>1, <3>2 DEF HttpClosed, Ended
  <2>6. QED
    BY <2>4, <2>5
<1>2. CASE l.refused # NoCred
  <2> DEFINE m == [l EXCEPT !.cred = cred]
  <2>1. UNCHANGED pool /\ Await(t, "request", l.conn, m)
    BY <1>2 DEF SendRequest
  <2>2. Opens /\ made' = made /\ open' = open
    BY <2>1, PoolSameOpens DEF pool
  <2>3. m \in Locals /\ m.cred = cred /\ m.refused = l.refused /\ m.conn = l.conn
        /\ m.loginConn = l.loginConn
    BY DEF Locals
  <2> HIDE DEF m
  <2>4. l.conn # made + 1
    BY DEF PoolOK
  <2>5. CASE l.conn \in open
    BY <2>1, <2>2, <2>3, <2>5 DEF Await, Usable, CallsOK
  <2>6. CASE l.conn \notin open
    <3>1. pc'[t] = "idle" /\ loc'[t] = NoCall /\ wire'[t] = NoReply
      BY <2>1, <2>4, <2>6 DEF Await, Usable, Return, CallsOK
    <3>2. QED
      BY <1>2, <2>2, <2>6, <3>1 DEF Ended
  <2>7. QED
    BY <2>5, <2>6
<1>3. QED
  BY <1>1, <1>2

-----------------------------------------------------------------------------
(***************************************************************************)
(* What a step of t does to the call of t itself.                          *)
(***************************************************************************)
Explained(t) ==
  (InCall(t) /\ pc'[t] = "idle" /\ result'[t] # "ok")
    => \/ disturbed'[t]
       \/ loc[t].cred.mode = "basic" /\ loc[t].cred.val # password
       \/ pc[t] = "request" /\ Reply(t) = "fail"

Own(t) == Connected(t)' /\ Informed(t)' /\ Admitted(t)' /\ Explained(t)

\* A call that is over depends on nothing.
LEMMA OwnEnded ==
  ASSUME TInv', NEW t \in Tasks, Ended(t), Explained(t)
  PROVE  Own(t)
<1>1. ~ InCall(t)' /\ ~ OnWire(t)' /\ pc'[t] = "idle"
  BY DEF Ended, InCall, OnWire
<1>2. loc'[t].conn \in 0..made' /\ loc'[t].loginConn \in 0..made'
  BY DEF TInv, PoolOK, Ended, NoCall
<1>3. QED
  BY <1>1, <1>2 DEF Own, Connected, Informed, Admitted

LEMMA OwnReturns ==
  ASSUME TInv, TInv', WhyInv, NEW t \in Tasks,
         PasswordFails(t) \/ Cancel(t) \/ LoginFails(t) \/ ProbeFails(t) \/ RequestDone(t)
           \/ RequestLost(t)
  PROVE  Own(t)
<1>0. Connected(t) /\ Informed(t) /\ Admitted(t)
  BY DEF WhyInv
<1>1. Ended(t)
  BY DEF PasswordFails, Cancel, LoginFails, ProbeFails, RequestDone, RequestLost, Return,
         Ended, TInv, CallsOK
<1>2. disturbed' \in [Tasks -> BOOLEAN] /\ disturbed \in [Tasks -> BOOLEAN]
  BY DEF TInv, LogOK
<1>3. CASE PasswordFails(t) \/ Cancel(t)
  <2>1. disturbed'[t]
    BY <1>3 DEF PasswordFails, Cancel, Fault, Disturb
  <2>2. QED
    BY <1>1, <2>1, OwnEnded DEF Explained
<1>4. CASE LoginFails(t) \/ ProbeFails(t) \/ RequestLost(t)
  <2>1. disturbed'[t]
    BY <1>0, <1>4 DEF LoginFails, ProbeFails, RequestLost, Informed, OnWire, log
  <2>2. QED
    BY <1>1, <2>1, OwnEnded DEF Explained
<1>5. CASE RequestDone(t)
  <2>1. disturbed' = disturbed /\ pc[t] = "request" /\ ~ Retries(t)
    BY <1>5 DEF RequestDone, log
  <2>2. CASE Reply(t) = "ok"
    <3>1. result'[t] = "ok"
      BY <1>5, <2>2 DEF RequestDone, Return, TInv, CallsOK
    <3>2. QED
      BY <1>1, <3>1, OwnEnded DEF Explained
  <2>3. CASE Reply(t) = "fail"
    BY <1>1, <2>1, <2>3, OwnEnded DEF Explained
  <2>4. CASE Reply(t) = "denied"
    <3>1. auth_mode # "session" \/ IsRetry(t)
      BY <2>1, <2>4 DEF Retries
    <3>2. ~ Accepts(loc[t].cred)
      BY <1>0, <2>1, <2>4 DEF Informed
    <3>3. loc[t].cred.mode \in {"session", "basic"}
      BY <2>1 DEF TInv, CallsOK, PerCall, Locals, Cred, CredMode
    <3>4. CASE loc[t].cred.mode = "basic"
      BY <1>1, <3>2, <3>4, OwnEnded DEF Explained, Accepts
    <3>5. CASE loc[t].cred.mode = "session"
      <4>1. disturbed[t]
        BY <1>0, <2>1, <3>1, <3>2, <3>5 DEF Admitted, Accepts
      <4>2. QED
        BY <1>1, <2>1, <4>1, OwnEnded DEF Explained
    <3>6. QED
      BY <3>3, <3>4, <3>5
  <2>5. QED
    BY <1>5, <2>2, <2>3, <2>4 DEF RequestDone
<1>6. QED
  BY <1>3, <1>4, <1>5

LEMMA OwnResolvePassword ==
  ASSUME TInv, TInv', WhyInv, NEW t \in Tasks, ResolvePassword(t)
  PROVE  Own(t)
<1>0. Connected(t) /\ Informed(t) /\ Admitted(t) /\ PoolOK /\ PoolOK' /\ CallsOK
  BY DEF WhyInv, TInv
<1> DEFINE l == [loc[t] EXCEPT !.pw = password, !.loginConn = Http]
<1>1. /\ OpenHttp /\ Await(t, "session", Http, l) /\ disturbed' = disturbed
      /\ pc[t] = "password" /\ password' = password
  BY DEF ResolvePassword, log, bmc
<1>2. Opens /\ Http \in Nat
  BY <1>0, <1>1, OpenHttpOpens, OpenHttpTyped
<1>3. /\ l \in Locals /\ l.pw = password /\ l.loginConn = Http
      /\ l.conn = loc[t].conn /\ l.refused = loc[t].refused
  BY <1>0, <1>2 DEF Locals, CallsOK, TInv, BmcOK
<1> HIDE DEF l
<1>4. HttpClosed => disturbed[t]
  BY <1>0, <1>1 DEF Connected, InCall
<1>5. CASE Usable(Http)
  <2>1. Http \in open' /\ Http = http'
    BY <1>1, <1>5 DEF Usable, OpenHttp, pool, Http
  <2>2. pc'[t] = "session" /\ loc'[t] = l /\ wire'[t] = NoReply
    BY <1>0, <1>1, <1>5 DEF Await, CallsOK
  <2>3. loc'[t].conn \in 0..made' /\ loc'[t].loginConn \in 0..made'
    BY <1>0, <1>2, <1>3, <2>1, <2>2 DEF PoolOK, Connected, Opens
  <2>4. IsRetry(t)' <=> IsRetry(t)
    BY <1>3, <2>2 DEF IsRetry
  <2>5. Connected(t)'
    BY <1>0, <1>1, <1>2, <1>3, <1>4, <2>1, <2>2, <2>3, <2>4 DEF Connected, InCall, Opens
  <2>6. Reply(t)' = "none"
    BY <2>2 DEF Reply, NoReply
  <2>7. Informed(t)' /\ Admitted(t)'
    BY <1>1, <1>3, <2>2, <2>6 DEF Informed, Admitted, OnWire
  <2>8. QED
    BY <2>2, <2>5, <2>7 DEF Own, Explained
<1>6. CASE ~ Usable(Http)
  <2>1. Ended(t)
    BY <1>0, <1>1, <1>6 DEF Await, Return, CallsOK, Ended
  <2>2. HttpClosed
    BY <1>6 DEF Usable, Http, HttpClosed
  <2>3. QED
    BY <1>1, <1>4, <2>1, <2>2, OwnEnded DEF Explained
<1>7. QED
  BY <1>5, <1>6

LEMMA OwnFallBack ==
  ASSUME TInv, TInv', WhyInv, NEW t \in Tasks, FallBack(t)
  PROVE  Own(t)
<1>0. Connected(t) /\ Informed(t) /\ Admitted(t) /\ PoolOK /\ CallsOK /\ LogOK
  BY DEF WhyInv, TInv
<1>1. /\ Await(t, "probe", loc[t].loginConn, loc[t]) /\ UNCHANGED pool
      /\ pc[t] = "session" /\ password' = password /\ service' = service
      /\ Disturb(IF service THEN Tasks ELSE {})
  BY DEF FallBack, bmc
<1>2. /\ disturbed[t] => disturbed'[t]
      /\ service => disturbed'[t]
  BY <1>0, <1>1 DEF Disturb, LogOK
<1>3. made' = made /\ open' = open /\ (HttpClosed' => HttpClosed)
  BY <1>1 DEF pool, HttpClosed
<1>4. loc[t].loginConn # made + 1
  BY <1>0 DEF Connected, PoolOK
<1>5. CASE Usable(loc[t].loginConn)
  <2>1. pc'[t] = "probe" /\ loc'[t] = loc[t] /\ wire'[t] = NoReply
    BY <1>0, <1>1, <1>5 DEF Await, CallsOK
  <2>2. IsRetry(t)' <=> IsRetry(t)
    BY <2>1 DEF IsRetry
  <2>3. Connected(t)'
    BY <1>0, <1>1, <1>2, <1>3, <2>1, <2>2 DEF Connected, InCall
  <2>4. Reply(t)' = "none"
    BY <2>1 DEF Reply, NoReply
  <2>5. Informed(t)' /\ Admitted(t)'
    BY <1>0, <1>1, <1>2, <2>1, <2>4 DEF Informed, Admitted, OnWire
  <2>6. QED
    BY <2>1, <2>3, <2>5 DEF Own, Explained
<1>6. CASE ~ Usable(loc[t].loginConn)
  <2>1. Ended(t)
    BY <1>0, <1>1, <1>6 DEF Await, Return, CallsOK, Ended
  <2>2. disturbed[t]
    BY <1>0, <1>1, <1>6 DEF Usable, Connected
  <2>3. QED
    BY <1>2, <2>1, <2>2, OwnEnded DEF Explained
<1>7. QED
  BY <1>5, <1>6

\* A request that goes out with a good reason keeps what is known of its call.
LEMMA OwnSendRequest ==
  ASSUME TInv, TInv', NEW t \in Tasks, NEW l \in Locals, NEW cred \in Cred,
         SendRequest(t, l, cred), l.conn \in 0..made, l.loginConn \in 0..made,
         cred.mode = "basic" => cred.val \in 0..password',
         cred.mode = "session" =>
           /\ cred.val \in 0..issued' /\ service'
           /\ auth_mode' # "session" => disturbed'[t]
           /\ l.refused # NoCred => cred.val \in live' \/ disturbed'[t],
         HttpClosed => disturbed'[t],
         l.refused # NoCred => l.conn \in open \/ disturbed'[t]
  PROVE  Own(t)
<1>0. CallsOK /\ PoolOK
  BY DEF TInv
<1>1. Opens /\ wire'[t] = NoReply
  BY <1>0, SendRequestOpen
<1>2. CASE /\ pc'[t] = "request"
           /\ loc'[t].cred = cred /\ loc'[t].refused = l.refused
           /\ loc'[t].conn \in open'
           /\ loc'[t].conn \in 0..made' /\ loc'[t].loginConn \in 0..made'
  <2>1. Reply(t)' = "none" /\ (IsRetry(t)' <=> l.refused # NoCred)
    BY <1>1, <1>2 DEF Reply, NoReply, IsRetry
  <2>2. Connected(t)'
    BY <1>1, <1>2 DEF Connected, Opens
  <2>3. Informed(t)'
    BY <1>2, <2>1 DEF Informed
  <2>4. Admitted(t)'
    BY <1>2, <2>1 DEF Admitted
  <2>5. QED
    BY <1>2, <2>2, <2>3, <2>4 DEF Own, Explained
<1>3. CASE /\ Ended(t)
           /\ l.refused = NoCred => HttpClosed
           /\ l.refused # NoCred => l.conn \notin open
  <2>1. disturbed'[t]
    BY <1>3
  <2>2. QED
    BY <1>3, <2>1, OwnEnded DEF Explained
<1>4. QED
  BY <1>0, <1>2, <1>3, SendRequestOpen

LEMMA OwnCall ==
  ASSUME TInv, TInv', WhyInv, NEW t \in Tasks, NEW k \in Kinds, Call(t, k)
  PROVE  Own(t)
<1> DEFINE l == [NoCall EXCEPT !.kind = k]
<1> DEFINE h == Headers(auth_mode, session_token, basic_header)
<1>0. PoolOK /\ ClientOK /\ BmcOK /\ CallsOK /\ LogOK
  BY DEF TInv
<1>1. /\ pc[t] = "idle" /\ EnsureAuth(t, session_token, l)
      /\ disturbed'[t] <=> HttpClosed
      /\ UNCHANGED <<client, bmc>>
  BY <1>0 DEF Call, HttpClosed, LogOK
<1>2. l \in Locals /\ l.conn = 0 /\ l.loginConn = 0 /\ l.refused = NoCred
  BY EmptyTyped DEF NoCall, Locals, Kinds
<1>3. /\ auth_mode' = auth_mode /\ session_token' = session_token /\ issued' = issued
      /\ password' = password /\ service' = service
  BY <1>1 DEF client, bmc
<1> HIDE DEF l
<1>4. CASE NeedsLogin(session_token)
  <2>1. pc'[t] = "password" /\ loc'[t] = l /\ UNCHANGED pool
    BY <1>0, <1>1, <1>4 DEF EnsureAuth, CallsOK
  <2>2. made' = made /\ (HttpClosed' <=> HttpClosed)
    BY <2>1 DEF pool, HttpClosed
  <2>3. ~ IsRetry(t)'
    BY <1>2, <2>1 DEF IsRetry
  <2>4. Connected(t)'
    BY <1>0, <1>1, <1>2, <2>1, <2>2, <2>3 DEF Connected, PoolOK
  <2>5. Informed(t)' /\ Admitted(t)'
    BY <2>1 DEF Informed, Admitted, OnWire
  <2>6. QED
    BY <2>1, <2>4, <2>5 DEF Own, Explained
<1>5. CASE ~ NeedsLogin(session_token)
  <2>1. SendRequest(t, l, h)
    BY <1>1, <1>5 DEF EnsureAuth
  <2>2. h \in Cred /\ (h.mode = "basic" => h.val \in 0..password')
        /\ (h.mode = "session" => h.val \in 0..issued' /\ auth_mode' = "session")
    BY <1>0, <1>3 DEF Headers, Cred, CredMode, NoCred, ClientOK, BmcOK
  <2>3. auth_mode' = "session" => service'
    BY <1>3 DEF WhyInv
  <2> HIDE DEF h
  <2>4. l.conn \in 0..made /\ l.loginConn \in 0..made
    BY <1>0, <1>2 DEF PoolOK
  <2>5. QED
    BY <1>1, <1>2, <2>1, <2>2, <2>3, <2>4, OwnSendRequest
<1>6. QED
  BY <1>4, <1>5

LEMMA OwnTokenGranted ==
  ASSUME TInv, TInv', WhyInv, NEW t \in Tasks, TokenGranted(t)
  PROVE  Own(t)
<1> DEFINE h == [mode |-> "session", val |-> wire[t].grant]
<1>0. Connected(t) /\ Informed(t) /\ Admitted(t) /\ CallsOK /\ loc[t] \in Locals
  BY DEF WhyInv, TInv, CallsOK
<1>1. /\ pc[t] = "session" /\ Reply(t) = "token" /\ auth_mode' = "session"
      /\ SendRequest(t, loc[t], h) /\ UNCHANGED <<bmc, log>>
  BY DEF TokenGranted, Headers
<1>2. disturbed' = disturbed /\ service' = service /\ live' = live /\ issued' = issued
  BY <1>1 DEF bmc, log
<1>3. h \in Cred /\ h.mode = "session" /\ h.val = wire[t].grant /\ wire[t].grant \in 0..issued
  BY DEF TInv, PerCall, BmcOK, Cred, CredMode
<1> HIDE DEF h
<1>4. /\ service /\ (loc[t].refused # NoCred => h.val \in live \/ disturbed[t])
  BY <1>0, <1>1, <1>3 DEF Admitted, IsRetry
<1>5. /\ HttpClosed => disturbed[t]
      /\ loc[t].refused # NoCred => loc[t].conn \in open \/ disturbed[t]
      /\ loc[t].conn \in 0..made /\ loc[t].loginConn \in 0..made
  BY <1>0, <1>1 DEF Connected, InCall, IsRetry
<1>6. QED
  BY <1>0, <1>1, <1>2, <1>3, <1>4, <1>5, OwnSendRequest

LEMMA OwnProbeAccepted ==
  ASSUME TInv, TInv', WhyInv, NEW t \in Tasks, ProbeAccepted(t)
  PROVE  Own(t)
<1> DEFINE h == Headers(auth_mode, session_token, basic_header)
<1>0. /\ Connected(t) /\ Informed(t) /\ Admitted(t) /\ CallsOK /\ loc[t] \in Locals
      /\ ClientOK /\ BmcOK
  BY DEF WhyInv, TInv, CallsOK
<1>1. /\ pc[t] = "probe" /\ SendRequest(t, loc[t], h) /\ UNCHANGED <<client, bmc, log>>
  BY DEF ProbeAccepted
<1>2. /\ disturbed' = disturbed /\ service' = service /\ live' = live /\ issued' = issued
      /\ auth_mode' = auth_mode /\ password' = password
  BY <1>1 DEF client, bmc, log
<1>3. h \in Cred /\ (h.mode = "basic" => h.val \in 0..password')
      /\ (h.mode = "session" => h.val \in 0..issued' /\ auth_mode' = "session")
  BY <1>0, <1>2 DEF Headers, Cred, CredMode, NoCred, ClientOK, BmcOK
<1> HIDE DEF h
<1>4. auth_mode' = "session" => service' /\ disturbed'[t]
  BY <1>0, <1>1, <1>2 DEF WhyInv, Informed
<1>5. /\ HttpClosed => disturbed[t]
      /\ loc[t].refused # NoCred => loc[t].conn \in open \/ disturbed[t]
      /\ loc[t].conn \in 0..made /\ loc[t].loginConn \in 0..made
  BY <1>0, <1>1 DEF Connected, InCall, IsRetry
<1>6. QED
  BY <1>0, <1>1, <1>2, <1>3, <1>4, <1>5, OwnSendRequest

LEMMA OwnRetry ==
  ASSUME TInv, TInv', WhyInv, NEW t \in Tasks, Retry(t)
  PROVE  Own(t)
<1> DEFINE l == [loc[t] EXCEPT !.refused = loc[t].cred]
<1>0. Connected(t) /\ PoolOK /\ CallsOK /\ loc[t] \in Locals
  BY DEF WhyInv, TInv, CallsOK
<1>1. /\ l.conn = loc[t].conn /\ l.loginConn = loc[t].loginConn
  BY <1>0 DEF Locals
<1>2. /\ pc[t] = "request" /\ EnsureAuth(t, 0, l) /\ NeedsLogin(0) /\ disturbed' = disturbed
  BY DEF Retry, Retries, RefusedToken, NeedsLogin, TokenFresh, log
<1> HIDE DEF l
<1>3. pc'[t] = "password" /\ loc'[t] = l /\ UNCHANGED pool
  BY <1>0, <1>2 DEF EnsureAuth, CallsOK
<1>4. made' = made /\ open' = open /\ (HttpClosed' <=> HttpClosed)
  BY <1>3 DEF pool, HttpClosed
<1>5. Connected(t)'
  BY <1>0, <1>1, <1>2, <1>3, <1>4 DEF Connected, InCall
<1>6. Informed(t)' /\ Admitted(t)'
  BY <1>3 DEF Informed, Admitted, OnWire
<1>7. QED
  BY <1>3, <1>5, <1>6 DEF Own, Explained

LEMMA OwnClose ==
  ASSUME TInv, TInv', WhyInv, NEW t \in Tasks, Close(t) \/ CloseDone(t)
  PROVE  Own(t)
<1>1. /\ ~ InCall(t) /\ pc'[t] \in {"idle", "closing"} /\ loc'[t] = loc[t] /\ made' = made
  BY DEF Close, CloseDone, InCall, TInv, CallsOK
<1>2. ~ InCall(t)' /\ ~ OnWire(t)'
  BY <1>1 DEF InCall, OnWire
<1>3. Connected(t)
  BY DEF WhyInv
<1>4. Connected(t)' /\ Informed(t)' /\ Admitted(t)'
  BY <1>1, <1>2, <1>3 DEF Connected, Informed, Admitted
<1>5. QED
  BY <1>1, <1>4 DEF Own, Explained

\* The request is answered, whatever made the BMC answer so.
LEMMA OwnAnswered ==
  ASSUME TInv, TInv', WhyInv, NEW t \in Tasks, pc[t] = "request",
         NEW r \in {"ok", "fail", "denied"}, Answer(t, r, 0),
         r = "denied" => ~ Accepts(loc[t].cred),
         disturbed[t] => disturbed'[t], UNCHANGED <<client, pool, bmc, pc, loc>>
  PROVE  Own(t)
<1>0. Connected(t) /\ Informed(t) /\ Admitted(t) /\ CallsOK
  BY DEF WhyInv, TInv
<1>1. Reply(t)' = r
  BY <1>0 DEF Reply, Answer, CallsOK
<1>2. /\ made' = made /\ open' = open /\ (HttpClosed' <=> HttpClosed)
      /\ InCall(t)' <=> InCall(t)
      /\ IsRetry(t)' <=> IsRetry(t)
      /\ auth_mode' = auth_mode /\ service' = service /\ live' = live
      /\ issued' = issued /\ password' = password
  BY DEF pool, HttpClosed, InCall, IsRetry, client, bmc
<1>3. Connected(t)'
  BY <1>0, <1>2 DEF Connected, InCall
<1>4. Informed(t)'
  <2>1. r = "denied" => ~ Accepts(loc[t].cred)'
    BY <1>2 DEF Accepts
  <2>2. QED
    BY <1>1, <2>1 DEF Informed
<1>5. Admitted(t)'
  BY <1>0, <1>1, <1>2 DEF Admitted
<1>6. QED
  BY <1>3, <1>4, <1>5 DEF Own, Explained

LEMMA OwnAnswer ==
  ASSUME TInv, TInv', WhyInv, NEW t \in Tasks, Serve(t) \/ Lose(t)
  PROVE  Own(t)
<1>0. Connected(t) /\ Informed(t) /\ Admitted(t) /\ CallsOK /\ LogOK /\ BmcOK
  BY DEF WhyInv, TInv
<1>1. /\ UNCHANGED <<client, pool, pc, loc, password, service>> /\ OnWire(t)
      /\ disturbed[t] => disturbed'[t]
      /\ issued <= issued'
  BY <1>0 DEF Serve, ServeSession, ServeProbe, ServeRequest, Lose, OnWire, Fault, Disturb,
     NoFault, log, bmc, LogOK, BmcOK
<1>2. /\ made' = made /\ open' = open /\ (HttpClosed' <=> HttpClosed)
      /\ InCall(t)' <=> InCall(t)
      /\ OnWire(t)' <=> OnWire(t)
      /\ IsRetry(t)' <=> IsRetry(t)
      /\ auth_mode' = auth_mode
  BY <1>1 DEF pool, HttpClosed, InCall, OnWire, IsRetry, client
<1>3. Connected(t)'
  BY <1>0, <1>1, <1>2 DEF Connected, InCall
<1>4. pc[t] \in {"session", "probe"} /\ loc[t].pw # password => disturbed'[t]
  BY <1>0, <1>1 DEF Informed
<1>5. pc[t] = "probe" /\ service => disturbed'[t]
  BY <1>0, <1>1 DEF Informed
<1>6. pc[t] = "request" /\ loc[t].cred.mode = "session" =>
        /\ loc[t].cred.val \in 0..issued' /\ service
        /\ auth_mode # "session" => disturbed'[t]
        /\ IsRetry(t) => loc[t].cred.val \in live \/ disturbed'[t]
  BY <1>0, <1>1 DEF Admitted, BmcOK, TInv
<1>7. Informed(t)' /\ Admitted(t)'
  <2>1. CASE ServeSession(t)
    <3>1. pc[t] = "session"
      BY <2>1 DEF ServeSession
    <3>2. CASE service /\ live' = live \cup {issued'} /\ Answer(t, "token", issued')
      <4>1. Reply(t)' = "token" /\ wire'[t].grant = issued'
        BY <1>0, <3>2 DEF Reply, Answer, CallsOK
      <4>2. QED
        BY <1>1, <1>2, <1>4, <3>1, <3>2, <4>1 DEF Informed, Admitted
    <3>3. CASE Answer(t, "fallback", 0)
      <4>1. Reply(t)' = "fallback"
        BY <1>0, <3>3 DEF Reply, Answer, CallsOK
      <4>2. QED
        BY <1>1, <1>2, <1>4, <3>1, <4>1 DEF Informed, Admitted
    <3>4. CASE Answer(t, "error", 0) /\ Fault({t})
      <4>1. Reply(t)' = "error"
        BY <1>0, <3>4 DEF Reply, Answer, CallsOK
      <4>2. disturbed'[t]
        BY <1>0, <3>1, <3>4 DEF Fault, Disturb
      <4>3. QED
        BY <1>1, <1>2, <3>1, <4>1, <4>2 DEF Informed, Admitted
    <3>5. QED
      BY <2>1, <3>2, <3>3, <3>4 DEF ServeSession
  <2>2. CASE ServeProbe(t)
    <3>1. pc[t] = "probe"
      BY <2>2 DEF ServeProbe
    <3>2. CASE Answer(t, "ok", 0)
      <4>1. Reply(t)' = "ok"
        BY <1>0, <3>2 DEF Reply, Answer, CallsOK
      <4>2. QED
        BY <1>1, <1>2, <1>4, <1>5, <3>1, <4>1 DEF Informed, Admitted
    <3>3. CASE Answer(t, "fail", 0) /\ (IF loc[t].pw = password THEN Fault({t}) ELSE NoFault)
      <4>1. Reply(t)' = "fail"
        BY <1>0, <3>3 DEF Reply, Answer, CallsOK
      <4>2. disturbed'[t]
        BY <1>0, <1>4, <3>1, <3>3 DEF Fault, Disturb
      <4>3. QED
        BY <1>1, <1>2, <3>1, <4>1, <4>2 DEF Informed, Admitted
    <3>4. QED
      BY <2>2, <3>2, <3>3 DEF ServeProbe
  <2>3. CASE ServeRequest(t)
    <3>1. pc[t] = "request" /\ UNCHANGED <<client, pool, bmc, pc, loc>>
      BY <2>3 DEF ServeRequest
    <3>2. PICK r \in {"ok", "fail", "denied"} :
            Answer(t, r, 0) /\ (r = "denied" => ~ Accepts(loc[t].cred))
      BY <2>3 DEF ServeRequest
    <3>3. QED
      BY <1>1, <3>1, <3>2, OwnAnswered DEF Own
  <2>4. CASE Lose(t)
    <3>1. Reply(t)' = "lost" /\ live' = live
      BY <1>0, <2>4 DEF Reply, Lose, Answer, CallsOK, bmc
    <3>2. disturbed'[t]
      <4>1. CASE WireConn(t) \in open
        BY <1>0, <2>4, <4>1 DEF Lose, Fault, Disturb, OnWire
      <4>2. CASE WireConn(t) \notin open
        <5>1. disturbed[t]
          BY <1>0, <1>1, <4>2 DEF WireConn, OnWire, Connected
        <5>2. QED
          BY <1>1, <5>1
      <4>3. QED
        BY <4>1, <4>2
    <3>3. QED
      BY <1>0, <1>1, <1>2, <1>6, <3>1, <3>2 DEF Informed, Admitted
  <2>5. QED
    BY <2>1, <2>2, <2>3, <2>4 DEF Serve
<1>8. QED
  BY <1>1, <1>3, <1>7 DEF Own, Explained, OnWire

LEMMA OwnStep ==
  ASSUME TInv, TInv', WhyInv, NEW t \in Tasks, StepOf(t)
  PROVE  Own(t)
BY OwnReturns, OwnResolvePassword, OwnFallBack, OwnCall, OwnTokenGranted, OwnProbeAccepted,
   OwnRetry, OwnClose, OwnAnswer
   DEF StepOf, Resume

-----------------------------------------------------------------------------
(***************************************************************************)
(* What a step does to the calls of the other tasks.                       *)
(***************************************************************************)
\* Nobody but t is disturbed, or nobody is; nothing is taken from the others.
LEMMA HarmlessIf ==
  ASSUME TInv, NEW u \in Tasks, disturbed[u] => disturbed'[u], Opens,
         password' = password, live \subseteq live',
         auth_mode' \in {auth_mode, "session"}
  PROVE  Harmless(u)
BY DEF Harmless, Opens

LEMMA SameLasts ==
  ASSUME TInv, UNCHANGED bmc, Opens
  PROVE  Lasting /\ password' = password /\ live \subseteq live'
BY DEF TInv, BmcOK, bmc, Lasting, Opens

LEMMA HarmlessStep ==
  ASSUME TInv, WhyInv, NEW t \in Tasks, StepOf(t), NEW u \in Tasks, u # t
  PROVE  Lasting /\ Harmless(u)
<1>0. /\ PoolOK /\ CallsOK /\ ClientOK /\ BmcOK /\ LogOK /\ loc[t] \in Locals
      /\ Connected(t) /\ loc[t].conn \in 0..made /\ loc[t].loginConn \in 0..made
  BY DEF TInv, CallsOK, WhyInv, Connected
<1>1. ASSUME NEW k \in Kinds, Call(t, k) PROVE Lasting /\ Harmless(u)
  <2> DEFINE l == [NoCall EXCEPT !.kind = k]
  <2> DEFINE h == Headers(auth_mode, session_token, basic_header)
  <2>1. /\ EnsureAuth(t, session_token, l) /\ UNCHANGED <<client, bmc>>
        /\ disturbed'[u] = disturbed[u]
    BY <1>0, <1>1 DEF Call, LogOK
  <2>2. l \in Locals /\ l.conn \in 0..made /\ l.loginConn \in 0..made
    BY <1>0, EmptyTyped DEF NoCall, Locals, Kinds, PoolOK
  <2>3. h \in Cred
    BY <1>0 DEF Headers, Cred, CredMode, NoCred, ClientOK, BmcOK
  <2> HIDE DEF l, h
  <2>4. Opens
    <3>1. CASE NeedsLogin(session_token)
      BY <1>0, <2>1, <3>1, PoolSameOpens DEF EnsureAuth
    <3>2. CASE ~ NeedsLogin(session_token)
      BY <1>0, <2>1, <2>2, <2>3, <3>2, SendRequestOpen DEF EnsureAuth, h
    <3>3. QED
      BY <3>1, <3>2
  <2>5. auth_mode' = auth_mode
    BY <2>1 DEF client
  <2>6. QED
    BY <2>1, <2>4, <2>5, SameLasts, HarmlessIf
<1>2. CASE /\ PasswordFails(t) \/ LoginFails(t) \/ ProbeFails(t) \/ RequestDone(t)
              \/ RequestLost(t) \/ Cancel(t)
  <2>1. UNCHANGED <<client, pool, bmc>> /\ (disturbed[u] => disturbed'[u])
    BY <1>0, <1>2 DEF PasswordFails, LoginFails, ProbeFails, RequestDone, RequestLost, Cancel,
                      Fault, Disturb, log, LogOK
  <2>2. auth_mode' = auth_mode /\ Opens
    BY <1>0, <2>1, PoolSameOpens DEF client
  <2>3. QED
    BY <2>1, <2>2, SameLasts, HarmlessIf
<1>3. CASE ResolvePassword(t)
  <2>1. OpenHttp /\ UNCHANGED <<client, bmc, log>>
    BY <1>3 DEF ResolvePassword
  <2>2. auth_mode' = auth_mode /\ disturbed' = disturbed /\ Opens
    BY <1>0, <2>1, OpenHttpOpens DEF client, log
  <2>3. QED
    BY <2>1, <2>2, SameLasts, HarmlessIf
<1>4. CASE TokenGranted(t)
  <2> DEFINE h == [mode |-> "session", val |-> wire[t].grant]
  <2>1. /\ auth_mode' = "session" /\ SendRequest(t, loc[t], h) /\ UNCHANGED <<bmc, log>>
    BY <1>4 DEF TokenGranted, Headers
  <2>2. h \in Cred
    BY <1>0 DEF TInv, PerCall, BmcOK, Cred, CredMode
  <2> HIDE DEF h
  <2>3. Opens
    BY <1>0, <2>1, <2>2, SendRequestOpen
  <2>4. disturbed' = disturbed
    BY <2>1 DEF log
  <2>5. QED
    BY <2>1, <2>3, <2>4, SameLasts, HarmlessIf
<1>5. CASE FallBack(t)
  <2>1. /\ UNCHANGED <<pool, bmc>> /\ Disturb(IF service THEN Tasks ELSE {})
    BY <1>5 DEF FallBack
  <2>2. Opens /\ Lasting /\ password' = password /\ live \subseteq live'
    BY <1>0, <2>1, PoolSameOpens, SameLasts
  <2>3. /\ disturbed[u] => disturbed'[u]
        /\ InCall(u) /\ service => disturbed'[u]
    BY <1>0, <2>1 DEF Disturb, LogOK, InCall
  <2>4. QED
    BY <2>2, <2>3 DEF Harmless, Opens
<1>6. CASE ProbeAccepted(t)
  <2> DEFINE h == Headers(auth_mode, session_token, basic_header)
  <2>1. SendRequest(t, loc[t], h) /\ UNCHANGED <<client, bmc, log>>
    BY <1>6 DEF ProbeAccepted
  <2>2. h \in Cred
    BY <1>0 DEF Headers, Cred, CredMode, NoCred, ClientOK, BmcOK
  <2> HIDE DEF h
  <2>3. Opens /\ auth_mode' = auth_mode /\ disturbed' = disturbed
    BY <1>0, <2>1, <2>2, SendRequestOpen DEF client, log
  <2>4. QED
    BY <2>1, <2>3, SameLasts, HarmlessIf
<1>7. CASE Retry(t)
  <2>1. UNCHANGED <<pool, auth_mode, bmc, log>>
    BY <1>7 DEF Retry, Retries, EnsureAuth, RefusedToken, NeedsLogin, TokenFresh
  <2>2. Opens /\ auth_mode' = auth_mode /\ disturbed' = disturbed
    BY <1>0, <2>1, PoolSameOpens DEF log
  <2>3. QED
    BY <2>1, <2>2, SameLasts, HarmlessIf
<1>8. CASE Close(t)
  <2>1. UNCHANGED <<client, made, bmc>> /\ Fault(Tasks)
    BY <1>8 DEF Close
  <2>2. Lasting
    BY <1>0, <2>1 DEF Lasting, bmc, BmcOK, PoolOK
  <2>3. /\ disturbed[u] => disturbed'[u]
        /\ InCall(u) => disturbed'[u]
    BY <1>0, <2>1 DEF Fault, Disturb, LogOK, InCall
  <2>4. QED
    BY <2>2, <2>3 DEF Harmless
<1>9. CASE CloseDone(t)
  <2>1. UNCHANGED <<client, made, open, bmc, log>> /\ http' = 0
    BY <1>9 DEF CloseDone
  <2>2. Opens /\ auth_mode' = auth_mode /\ disturbed' = disturbed
    BY <1>0, <2>1 DEF Opens, HttpClosed, client, log, PoolOK
  <2>3. QED
    BY <2>1, <2>2, SameLasts, HarmlessIf
<1>10. CASE Serve(t) \/ Lose(t)
  <2>1. /\ UNCHANGED <<client, pool, password, service>>
        /\ disturbed[u] => disturbed'[u]
    BY <1>0, <1>10 DEF Serve, ServeSession, ServeProbe, ServeRequest, Lose, Fault, Disturb,
       NoFault, log, bmc, LogOK
  <2>2. \/ UNCHANGED <<issued, live>>
        \/ issued' = issued + 1 /\ live' = live \cup {issued'}
    BY <1>10 DEF Serve, ServeSession, ServeProbe, ServeRequest, Lose, bmc
  <2>3. Opens /\ auth_mode' = auth_mode /\ live \subseteq live'
    BY <1>0, <2>1, <2>2, PoolSameOpens DEF client
  <2>4. Lasting
    BY <1>0, <2>1, <2>2, <2>3 DEF Lasting, Opens, BmcOK
  <2>5. QED
    BY <2>1, <2>3, <2>4, HarmlessIf
<1>11. QED
  BY <1>1, <1>2, <1>3, <1>4, <1>5, <1>6, <1>7, <1>8, <1>9, <1>10 DEF StepOf, Resume

\* The steps of the BMC's clock, the client's clock and the administrator.
LEMMA HarmlessOutside ==
  ASSUME TInv, NEW u \in Tasks,
         (\E s \in live : Expire(s)) \/ Age \/ Rotate
  PROVE  Lasting /\ Harmless(u)
<1>0. BmcOK /\ LogOK /\ PoolOK
  BY DEF TInv
<1>1. ASSUME NEW s \in live, Expire(s) PROVE Lasting /\ Harmless(u)
  <2>1. /\ UNCHANGED <<client, pool, issued, password, service, pc, loc>>
        /\ live' = live \ {s} /\ Fault({x \in Tasks : IsRetry(x)})
    BY <1>1 DEF Expire
  <2>2. Lasting /\ Opens /\ auth_mode' = auth_mode
    BY <1>0, <2>1, PoolSameOpens DEF Lasting, Opens, BmcOK, client
  <2>3. /\ disturbed[u] => disturbed'[u]
        /\ InCall(u) /\ IsRetry(u) => disturbed'[u]
    BY <1>0, <2>1 DEF Fault, Disturb, LogOK, InCall
  <2>4. QED
    BY <2>1, <2>2, <2>3 DEF Harmless, Opens
<1>2. CASE Age
  <2>1. UNCHANGED <<auth_mode, pool, bmc>> /\ Fault({})
    BY <1>2 DEF Age
  <2>2. Opens /\ (disturbed[u] => disturbed'[u])
    BY <1>0, <2>1, PoolSameOpens DEF Fault, Disturb, LogOK
  <2>3. QED
    BY <2>1, <2>2, SameLasts, HarmlessIf
<1>3. CASE Rotate
  <2>1. UNCHANGED <<client, pool, live, issued, service>> /\ Fault(Tasks)
        /\ password' = password + 1
    BY <1>3 DEF Rotate
  <2>2. Lasting
    BY <1>0, <2>1 DEF Lasting, BmcOK, PoolOK, pool
  <2>3. /\ disturbed[u] => disturbed'[u]
        /\ InCall(u) => disturbed'[u]
    BY <1>0, <2>1 DEF Fault, Disturb, LogOK, InCall
  <2>4. QED
    BY <2>2, <2>3 DEF Harmless
<1>4. QED
  BY <1>1, <1>2, <1>3

\* The client leaves for session mode only with a token it was granted.
LEMMA SessionIsServed ==
  ASSUME TInv, WhyInv, [Next]_vars
  PROVE  auth_mode' = "session" => service'
<1>1. ASSUME NEW t \in Tasks, StepOf(t) PROVE auth_mode' = "session" => service'
  <2>1. CASE TokenGranted(t)
    BY <2>1 DEF TokenGranted, WhyInv, Admitted, bmc
  <2>2. CASE ~ TokenGranted(t)
    <3>1. service' = service /\ auth_mode' \in {auth_mode, "basic"}
      BY <1>1, <2>2 DEF StepOf, Call, Resume, ResolvePassword, PasswordFails, FallBack,
         LoginFails, ProbeAccepted, ProbeFails, Retry, RequestDone, RequestLost, CloseDone,
         Close, Cancel, Lose, Serve, ServeSession, ServeProbe, ServeRequest, client, bmc
    <3>2. QED
      BY <3>1 DEF WhyInv
  <2>3. QED
    BY <2>1, <2>2
<1>2. CASE (\E s \in live : Expire(s)) \/ Age \/ Rotate
  BY <1>2 DEF Expire, Age, Rotate, WhyInv, client, bmc
<1>3. CASE UNCHANGED vars
  BY <1>3 DEF vars, WhyInv, client, bmc
<1>4. QED
  BY <1>1, <1>2, <1>3 DEF Next, StepOf

LEMMA WhyStep ==
  ASSUME TInv, TInv', WhyInv, [Next]_vars
  PROVE  WhyInv' /\ \A u \in Tasks : Explained(u) \/ UNCHANGED vars
<1> SUFFICES ASSUME NEW u \in Tasks
             PROVE  /\ Connected(u)' /\ Informed(u)' /\ Admitted(u)'
                    /\ Explained(u) \/ UNCHANGED vars
  BY SessionIsServed DEF WhyInv
<1>1. ASSUME NEW t \in Tasks, StepOf(t)
      PROVE  Connected(u)' /\ Informed(u)' /\ Admitted(u)' /\ Explained(u)
  <2>1. CASE u = t
    BY <1>1, <2>1, OwnStep DEF Own
  <2>2. CASE u # t
    <3>1. pc'[u] = pc[u] /\ loc'[u] = loc[u] /\ wire'[u] = wire[u]
      BY <1>1, <2>2, OthersSame
    <3>2. Explained(u)
      BY <3>1 DEF Explained, InCall
    <3>3. QED
      BY <1>1, <2>2, <3>1, <3>2, HarmlessStep, HarmlessKeeps
  <2>3. QED
    BY <2>1, <2>2
<1>2. CASE (\E s \in live : Expire(s)) \/ Age \/ Rotate
  <2>1. pc' = pc /\ loc' = loc /\ wire' = wire
    BY <1>2 DEF Expire, Age, Rotate
  <2>2. Explained(u)
    BY <2>1 DEF Explained, InCall
  <2>3. QED
    BY <1>2, <2>1, <2>2, HarmlessOutside, HarmlessKeeps
<1>3. CASE UNCHANGED vars
  <2>1. pc' = pc /\ loc' = loc /\ wire' = wire
    BY <1>3 DEF vars
  <2>2. Lasting /\ Harmless(u)
    BY <1>3 DEF vars, client, pool, bmc, log, Lasting, Harmless, HttpClosed, TInv, BmcOK,
                PoolOK
  <2>3. QED
    BY <1>3, <2>1, <2>2, HarmlessKeeps
<1>4. QED
  BY <1>1, <1>2, <1>3 DEF Next, StepOf

\* A request that fails at the BMC is a fault, and its call is disturbed.
LEMMA FailsRightStep ==
  ASSUME TInv, WhyInv, \A t \in Tasks : FailsRight(t), [Next]_vars
  PROVE  \A t \in Tasks : FailsRight(t)'
<1> SUFFICES ASSUME NEW u \in Tasks PROVE FailsRight(u)'
  OBVIOUS
<1>0. CallsOK /\ LogOK /\ PoolOK /\ ClientOK /\ BmcOK /\ FailsRight(u)
  BY DEF TInv
<1>1. ASSUME NEW t \in Tasks, StepOf(t) PROVE FailsRight(u)'
  <2>1. CASE u # t
    <3>1. pc'[u] = pc[u] /\ wire'[u] = wire[u]
      BY <1>1, <2>1, OthersSame
    <3>2. disturbed[u] => disturbed'[u]
      BY <1>1, <2>1, HarmlessStep DEF Harmless
    <3>3. QED
      BY <1>0, <3>1, <3>2 DEF FailsRight, Reply
  <2>2. CASE u = t
    <3>1. CASE ServeRequest(t)
      <4>1. CASE Answer(t, "fail", 0) /\ Fault({t})
        BY <1>0, <2>2, <3>1, <4>1 DEF ServeRequest, Fault, Disturb, LogOK, FailsRight
      <4>2. CASE Answer(t, "ok", 0) \/ Answer(t, "denied", 0)
        BY <1>0, <2>2, <4>2 DEF Answer, CallsOK, FailsRight, Reply
      <4>3. QED
        BY <3>1, <4>1, <4>2 DEF ServeRequest
    <3>2. CASE ~ ServeRequest(t)
      <4>1. Reply(t)' # "fail" \/ pc'[t] # "request"
        <5>1. CASE \E k \in Kinds : Call(t, k)
          BY <1>0, <5>1 DEF Call, EnsureAuth, SendRequest, Await, Return, CallsOK, Reply, NoReply
        <5>2. CASE Resume(t)
          BY <1>0, <5>2 DEF Resume, ResolvePassword, PasswordFails, TokenGranted, FallBack,
             LoginFails, ProbeAccepted, ProbeFails, Retry, RequestDone, RequestLost, CloseDone,
             EnsureAuth, SendRequest, Await, Return, CallsOK, Reply, NoReply
        <5>3. CASE ServeSession(t) \/ ServeProbe(t) \/ Lose(t)
          BY <1>0, <5>3 DEF ServeSession, ServeProbe, Lose, Answer, CallsOK, Reply
        <5>4. CASE Close(t) \/ Cancel(t)
          BY <1>0, <5>4 DEF Close, Cancel, Return, CallsOK
        <5>5. QED
          BY <1>1, <3>2, <5>1, <5>2, <5>3, <5>4 DEF StepOf, Serve
      <4>2. QED
        BY <2>2, <4>1 DEF FailsRight
    <3>3. QED
      BY <3>1, <3>2
  <2>3. QED
    BY <2>1, <2>2
<1>2. CASE (\E s \in live : Expire(s)) \/ Age \/ Rotate
  <2>1. pc' = pc /\ wire' = wire
    BY <1>2 DEF Expire, Age, Rotate
  <2>2. disturbed[u] => disturbed'[u]
    BY <1>2, HarmlessOutside DEF Harmless
  <2>3. QED
    BY <1>0, <2>1, <2>2 DEF FailsRight, Reply
<1>3. CASE UNCHANGED vars
  BY <1>0, <1>3 DEF vars, log, FailsRight, Reply
<1>4. QED
  BY <1>1, <1>2, <1>3 DEF Next, StepOf

\* No step takes a disturbance back from a call under way.
LEMMA EndingKeepsLog ==
  ASSUME TInv, WhyInv, NEW u \in Tasks, InCall(u), disturbed[u], [Next]_vars
  PROVE  disturbed'[u]
<1>0. LogOK /\ pc[u] # "idle"
  BY DEF TInv, InCall
<1>1. ASSUME NEW t \in Tasks, StepOf(t) PROVE disturbed'[u]
  <2>1. CASE u # t
    BY <1>1, <2>1, HarmlessStep DEF Harmless
  <2>2. CASE u = t
    BY <1>0, <1>1, <2>2 DEF StepOf, Call, Resume, ResolvePassword, PasswordFails, TokenGranted,
       FallBack, LoginFails, ProbeAccepted, ProbeFails, Retry, RequestDone, RequestLost, CloseDone,
       Close, Cancel, Lose, Serve, ServeSession, ServeProbe, ServeRequest, Fault, Disturb, NoFault,
       log, LogOK
  <2>3. QED
    BY <2>1, <2>2
<1>2. CASE (\E s \in live : Expire(s)) \/ Age \/ Rotate
  BY <1>2, HarmlessOutside DEF Harmless
<1>3. CASE UNCHANGED vars
  BY <1>3 DEF vars, log
<1>4. QED
  BY <1>1, <1>2, <1>3 DEF Next, StepOf

\* A call fails only for a reason: a fault or a close() during the call, or a
\* Basic header the BMC rejects; a token that expired before the call, or
\* during its first attempt, is made good (the 401 handlers of _get,
\* _post_action, _patch).
THEOREM FailureExplainedHolds == Spec => FailureExplained
<1> DEFINE Inv == TInv /\ WhyInv /\ \A t \in Tasks : FailsRight(t)
<1> DEFINE Why == \A t \in Tasks :
                    (InCall(t) /\ pc'[t] = "idle" /\ result'[t] # "ok")
                      => \/ disturbed'[t]
                         \/ loc[t].cred.mode = "basic" /\ loc[t].cred.val # password
<1>1. Init => Inv
  BY TInvInit, WhyInit DEF Init, FailsRight
<1>2. Inv /\ [Next]_vars => Inv'
  BY TInvStep, WhyStep, FailsRightStep
<1>3. Inv /\ [Next]_vars => [Why]_vars
  <2> SUFFICES ASSUME Inv, [Next]_vars, ~ UNCHANGED vars, NEW t \in Tasks,
                      InCall(t), pc'[t] = "idle", result'[t] # "ok"
               PROVE  \/ disturbed'[t]
                      \/ loc[t].cred.mode = "basic" /\ loc[t].cred.val # password
    OBVIOUS
  <2>1. Explained(t)
    BY TInvStep, WhyStep
  <2>2. disturbed[t] => disturbed'[t]
    BY EndingKeepsLog
  <2>3. QED
    BY <2>1, <2>2 DEF Explained, FailsRight
<1>4. QED
  BY <1>1, <1>2, <1>3, PTL DEF Spec, FailureExplained

-----------------------------------------------------------------------------
(***************************************************************************)
(* Basic mode, once no login is under way.                                 *)
(***************************************************************************)
LEMMA BasicStep ==
  ASSUME TInv, BasicSettled, [Next]_vars
  PROVE  BasicSettled'
<1> USE DEF BasicSettled
<1>0. CallsOK
  BY DEF TInv
<1>1. ASSUME NEW t \in Tasks, StepOf(t) PROVE BasicSettled'
  <2>1. \A u \in Tasks \ {t} : pc'[u] = pc[u]
    BY <1>1, OthersSame
  <2>2. auth_mode' = auth_mode /\ pc'[t] \notin {"password", "session"}
    <3>1. CASE \E k \in Kinds : Call(t, k)
      BY <1>0, <3>1 DEF Call, EnsureAuth, NeedsLogin, SendRequest, Await, Return, CallsOK, client
    <3>2. CASE Resume(t)
      BY <1>0, <3>2 DEF Resume, ResolvePassword, PasswordFails, TokenGranted, FallBack, LoginFails,
         ProbeAccepted, ProbeFails, Retry, Retries, RequestDone, RequestLost, CloseDone,
         SendRequest, Await, Return, CallsOK, client
    <3>3. CASE Serve(t) \/ Lose(t)
      BY <3>3 DEF Serve, ServeSession, ServeProbe, ServeRequest, Lose, client
    <3>4. CASE Close(t) \/ Cancel(t)
      BY <1>0, <3>4 DEF Close, Cancel, Return, CallsOK, client
    <3>5. QED
      BY <1>1, <3>1, <3>2, <3>3, <3>4 DEF StepOf
  <2>3. QED
    BY <2>1, <2>2
<1>2. CASE UNCHANGED pc /\ auth_mode' = auth_mode
  BY <1>2
<1>3. QED
  BY <1>1, <1>2, NextSteps

\* "Once we've fallen back to basic we stay there for the life of the client"
\* (_ensure_auth), from the moment that no task is logging in any more.
THEOREM BasicStaysHolds == Spec => BasicStays
<1>1. TInv /\ [Next]_vars => [BasicSettled => BasicSettled']_vars
  BY BasicStep
<1>2. QED
  BY <1>1, TInvInit, TInvStep, PTL DEF Spec, BasicStays

-----------------------------------------------------------------------------
(***************************************************************************)
(* The httpx clients.  Only the client's own is open, and not even that    *)
(* one while a close() waits for it.                                       *)
(***************************************************************************)
PoolInv ==
  /\ open \subseteq {http}
  /\ \A t \in Tasks : pc[t] = "closing" => t \in Closers /\ HttpClosed

LEMMA OpenHttpKeeps ==
  ASSUME PoolOK, OpenHttp, open \subseteq {http}
  PROVE  open' \subseteq {http'} /\ (HttpClosed => HttpClosed')
<1>1. CASE http = 0
  <2>1. http' = made + 1 /\ open' = open \cup {made + 1} /\ open \subseteq 1..made
    BY <1>1 DEF PoolOK, OpenHttp, Http
  <2>2. open = {}
    BY <1>1, <2>1
  <2>3. QED
    BY <1>1, <2>1, <2>2 DEF HttpClosed
<1>2. CASE http # 0
  BY <1>2 DEF OpenHttp, pool, HttpClosed
<1>3. QED
  BY <1>1, <1>2

LEMMA PoolStep ==
  ASSUME \A a, b \in Closers : a = b, TInv, PoolInv, [Next]_vars
  PROVE  PoolInv'
<1> USE DEF PoolInv
<1>0. CallsOK /\ PoolOK
  BY DEF TInv
<1>1. ASSUME NEW t \in Tasks, StepOf(t) PROVE PoolInv'
  <2>1. \A u \in Tasks \ {t} : pc'[u] = pc[u]
    BY <1>1, OthersSame
  <2>2. CASE Close(t)
    <3>1. \A u \in Tasks \ {t} : pc[u] # "closing"
      BY <2>2 DEF Close
    <3>2. CASE http \in open
      <4>1. open' = {} /\ http' = http /\ http # 0 /\ t \in Closers
        BY <2>2, <3>2 DEF Close
      <4>2. QED
        BY <2>1, <3>1, <4>1 DEF HttpClosed
    <3>3. CASE http \notin open
      <4>1. open' = {} /\ pc' = pc /\ pc[t] = "idle"
        BY <2>2, <3>3 DEF Close
      <4>2. QED
        BY <3>1, <4>1
    <3>4. QED
      BY <3>2, <3>3
  <2>3. CASE CloseDone(t)
    <3>1. \A u \in Tasks \ {t} : pc[u] # "closing"
      BY <2>3 DEF CloseDone
    <3>2. open' = {} /\ pc'[t] = "idle"
      BY <1>0, <2>3 DEF CloseDone, HttpClosed, CallsOK
    <3>3. QED
      BY <2>1, <3>1, <3>2
  <2>4. CASE ~ Close(t) /\ ~ CloseDone(t)
    <3>1. UNCHANGED pool \/ OpenHttp
      BY <1>1, <2>4 DEF StepOf, Call, Resume, ResolvePassword, PasswordFails, TokenGranted, FallBack,
         LoginFails, ProbeAccepted, ProbeFails, Retry, RequestDone, RequestLost, Cancel, Lose,
         Serve, ServeSession, ServeProbe, ServeRequest, EnsureAuth, SendRequest
    <3>2. open' \subseteq {http'} /\ (HttpClosed => HttpClosed')
      <4>1. CASE UNCHANGED pool
        BY <4>1 DEF pool, HttpClosed
      <4>2. CASE OpenHttp
        BY <1>0, <4>2, OpenHttpKeeps
      <4>3. QED
        BY <3>1, <4>1, <4>2
    <3>3. pc'[t] = "closing" => pc[t] = "closing"
      <4>1. CASE \E k \in Kinds : Call(t, k)
        BY <1>0, <4>1 DEF Call, EnsureAuth, SendRequest, Await, Return, CallsOK
      <4>2. CASE Resume(t)
        BY <1>0, <2>4, <4>2 DEF Resume, ResolvePassword, PasswordFails, TokenGranted, FallBack,
           LoginFails, ProbeAccepted, ProbeFails, Retry, RequestDone, RequestLost,
           EnsureAuth, SendRequest, Await, Return, CallsOK
      <4>3. CASE Serve(t) \/ Lose(t)
        BY <4>3 DEF Serve, ServeSession, ServeProbe, ServeRequest, Lose
      <4>4. CASE Cancel(t)
        BY <1>0, <4>4 DEF Cancel, Return, CallsOK
      <4>5. QED
        BY <1>1, <2>4, <4>1, <4>2, <4>3, <4>4 DEF StepOf
    <3>4. QED
      BY <2>1, <3>2, <3>3
  <2>5. QED
    BY <2>2, <2>3, <2>4
<1>2. CASE UNCHANGED <<pc, pool>>
  BY <1>2 DEF pool, HttpClosed
<1>3. QED
  <2>1. \/ \E t \in Tasks : StepOf(t)
        \/ UNCHANGED <<pc, pool>>
    BY DEF Next, StepOf, Expire, Age, Rotate, vars
  <2>2. QED
    BY <1>1, <1>2, <2>1

\* With one task closing the client, an httpx client that is no longer the
\* client's own is closed whenever no close() is under way (_client, close).
THEOREM NoClientLeakHolds ==
  ASSUME \A a, b \in Closers : a = b
  PROVE  Spec => []NoClientLeak
<1> DEFINE Inv == TInv /\ PoolInv
<1>1. Init => Inv
  BY TInvInit DEF Init, PoolInv
<1>2. Inv /\ [Next]_vars => Inv'
  BY TInvStep, PoolStep
<1>3. Inv => NoClientLeak
  BY DEF PoolInv, NoClientLeak
<1>4. QED
  BY <1>1, <1>2, <1>3, PTL DEF Spec

-----------------------------------------------------------------------------
(***************************************************************************)
(* How many sessions the BMC creates.  What may still be asked for is      *)
(* counted: each task owes, by the place it is at and by what the client   *)
(* holds (nothing usable, a credential the BMC accepts, or one it does     *)
(* not), the sessions it may yet cost.  Each new session is paid for by    *)
(* the task that asks for it, a task that makes the others log in or be    *)
(* refused pays for them all, and a fault adds at most the square of the   *)
(* number of tasks to what is owed in total.                               *)
(*                                                                         *)
(* The total is a cardinality, of the set of unit squares under the graph  *)
(* of the weights, so that the facts about finite sets apply to it.        *)
(***************************************************************************)
Members == Cardinality(Tasks)
Square  == Members * Members
Most    == 1 + Square
Weights == [Tasks -> 0..Most]

\* The sum of f over the tasks: f[t] unit squares above every task t.
Columns(f) == {p \in Tasks \X (1..Most) : p[2] <= f[p[1]]}
Total(f)   == Cardinality(Columns(f))

LEMMA MembersType ==
  /\ Members \in Nat /\ Square \in Nat /\ Most \in Nat
  /\ 1 <= Members /\ Members <= Square /\ Most = 1 + Square
<1>1. Members \in Nat /\ Members # 0
  BY RedfishAssumption, FS_CardinalityType, FS_EmptySet DEF Members
<1>2. ASSUME NEW m \in Nat, m # 0 PROVE m * m \in Nat /\ m <= m * m
  BY <1>2
<1>3. Square \in Nat /\ Members <= Square
  BY <1>1, <1>2 DEF Square
<1>4. QED
  BY <1>1, <1>3 DEF Most

LEMMA GridFinite == IsFiniteSet(Tasks \X (1..Most))
<1>1. 1 \in Int /\ Most \in Int
  BY MembersType
<1>2. IsFiniteSet(1..Most)
  BY <1>1, FS_Interval
<1>3. QED
  BY <1>2, RedfishAssumption, FS_Product

LEMMA TotalType ==
  ASSUME NEW f
  PROVE  IsFiniteSet(Columns(f)) /\ Total(f) \in Nat
<1>1. Columns(f) \in SUBSET (Tasks \X (1..Most))
  BY DEF Columns
<1>2. QED
  BY <1>1, GridFinite, FS_Subset, FS_CardinalityType DEF Total

LEMMA TotalGrows ==
  ASSUME NEW f \in Weights, NEW g \in Weights, \A u \in Tasks : f[u] <= g[u]
  PROVE  Total(f) <= Total(g)
<1>1. ASSUME NEW p \in Columns(f) PROVE p \in Columns(g)
  <2>1. p \in Tasks \X (1..Most) /\ p[2] <= f[p[1]]
    BY DEF Columns
  <2>2. p[1] \in Tasks /\ p[2] \in Nat
    BY <2>1, MembersType
  <2>3. f[p[1]] <= g[p[1]] /\ f[p[1]] \in Nat /\ g[p[1]] \in Nat
    BY <2>2, MembersType DEF Weights
  <2>4. QED
    BY <2>1, <2>2, <2>3 DEF Columns
<1>2. QED
  BY <1>1, TotalType, FS_Subset DEF Total

\* One task's weight falls by k.
LEMMA TotalFalls ==
  ASSUME NEW f \in Weights, NEW g \in Weights, NEW t \in Tasks, NEW k \in Nat,
         g[t] + k = f[t], \A u \in Tasks \ {t} : g[u] = f[u]
  PROVE  Total(g) + k = Total(f)
<1> DEFINE top == {t} \X ((g[t] + 1)..f[t])
<1>0. f[t] \in Nat /\ g[t] \in Nat /\ f[t] <= Most /\ Most \in Nat
  BY MembersType DEF Weights
<1>1. IsFiniteSet(top) /\ Cardinality(top) = k
  <2>0. g[t] + 1 \in Int /\ f[t] \in Int
    BY <1>0
  <2>1. /\ IsFiniteSet((g[t] + 1)..f[t])
        /\ Cardinality((g[t] + 1)..f[t]) = IF g[t] + 1 > f[t] THEN 0 ELSE f[t] - (g[t] + 1) + 1
    BY <2>0, FS_Interval
  <2>2. Cardinality((g[t] + 1)..f[t]) = k
    BY <1>0, <2>1
  <2>3. IsFiniteSet({t}) /\ Cardinality({t}) = 1
    BY FS_Singleton
  <2>4. Cardinality(top) = 1 * k /\ IsFiniteSet(top)
    BY <2>1, <2>2, <2>3, FS_Product
  <2>5. QED
    BY <2>4
<1>2. Columns(f) = Columns(g) \cup top
  <2>1. ASSUME NEW p \in Columns(f) PROVE p \in Columns(g) \cup top
    <3>1. p \in Tasks \X (1..Most) /\ p[2] <= f[p[1]]
      BY DEF Columns
    <3>2. p[1] \in Tasks /\ p[2] \in 1..Most /\ p = <<p[1], p[2]>>
      BY <3>1
    <3>3. CASE p[1] = t
      <4>1. p[2] <= g[t] \/ p[2] \in (g[t] + 1)..f[t]
        BY <1>0, <3>1, <3>2, <3>3
      <4>2. CASE p[2] <= g[t]
        BY <3>1, <3>3, <4>2 DEF Columns
      <4>3. CASE p[2] \in (g[t] + 1)..f[t]
        BY <3>2, <3>3, <4>3
      <4>4. QED
        BY <4>1, <4>2, <4>3
    <3>4. CASE p[1] # t
      BY <3>1, <3>2, <3>4 DEF Columns
    <3>5. QED
      BY <3>3, <3>4
  <2>2. ASSUME NEW p \in Columns(g) PROVE p \in Columns(f)
    <3>1. p \in Tasks \X (1..Most) /\ p[2] <= g[p[1]]
      BY DEF Columns
    <3>2. p[1] \in Tasks /\ p[2] \in Nat
      BY <3>1, MembersType
    <3>3. p[2] <= f[p[1]]
      BY <1>0, <3>1, <3>2
    <3>4. QED
      BY <3>1, <3>3 DEF Columns
  <2>3. ASSUME NEW p \in top PROVE p \in Columns(f)
    <3>1. p[1] = t /\ p[2] \in (g[t] + 1)..f[t] /\ p = <<p[1], p[2]>>
      OBVIOUS
    <3>2. p[2] \in 1..Most /\ p[2] <= f[t]
      BY <1>0, <3>1
    <3>3. QED
      BY <3>1, <3>2 DEF Columns
  <2>4. QED
    BY <2>1, <2>2, <2>3
<1>3. Columns(g) \cap top = {}
  <2>1. ASSUME NEW p \in top, p \in Columns(g) PROVE FALSE
    <3>1. p[1] = t /\ p[2] \in (g[t] + 1)..f[t]
      OBVIOUS
    <3>2. p[2] <= g[t]
      BY <2>1, <3>1 DEF Columns
    <3>3. QED
      BY <1>0, <3>1, <3>2
  <2>2. QED
    BY <2>1
<1> HIDE DEF top
<1>4. Cardinality(Columns(g) \cup top) = Cardinality(Columns(g)) + k - Cardinality(Columns(g) \cap top)
  BY <1>1, TotalType, FS_Union
<1>5. Cardinality(Columns(g) \cap top) = 0
  BY <1>3, FS_EmptySet
<1>6. Total(f) = Total(g) + k - 0
  BY <1>2, <1>4, <1>5 DEF Total
<1>7. QED
  BY <1>6, TotalType

\* Every task's weight rises by at most d.
LEMMA TotalRises ==
  ASSUME NEW f \in Weights, NEW g \in Weights, NEW d \in Nat, \A u \in Tasks : g[u] <= f[u] + d
  PROVE  Total(g) <= Total(f) + Members * d
<1> DEFINE new == {p \in Columns(g) : p[2] > f[p[1]]}
<1> DEFINE slot == [p \in new |-> <<p[1], p[2] - f[p[1]]>>]
<1>0. ASSUME NEW p \in new
      PROVE  /\ p[1] \in Tasks /\ p[2] \in Nat /\ f[p[1]] \in Nat /\ p = <<p[1], p[2]>>
             /\ p[2] - f[p[1]] \in 1..d
  <2>1. p \in Tasks \X (1..Most) /\ p[2] <= g[p[1]] /\ p[2] > f[p[1]]
    BY DEF Columns
  <2>2. p[1] \in Tasks /\ p[2] \in Nat /\ p = <<p[1], p[2]>>
    BY <2>1, MembersType
  <2>3. f[p[1]] \in Nat /\ g[p[1]] \in Nat /\ g[p[1]] <= f[p[1]] + d
    BY <2>2, MembersType DEF Weights
  <2>4. QED
    BY <2>1, <2>2, <2>3
<1>1. slot \in [new -> Tasks \X (1..d)]
  BY <1>0
<1>2. ASSUME NEW p \in new, NEW q \in new, slot[p] = slot[q] PROVE p = q
  <2>1. p[1] = q[1] /\ p[2] - f[p[1]] = q[2] - f[q[1]]
    BY <1>2
  <2>2. p[2] = q[2]
    BY <1>0, <2>1
  <2>3. QED
    BY <1>0, <2>1, <2>2
<1>3. slot \in Injection(new, Tasks \X (1..d))
  BY <1>1, <1>2 DEF Injection, IsInjective
<1>4. IsFiniteSet(Tasks \X (1..d)) /\ Cardinality(Tasks \X (1..d)) = Members * d
  <2>1. IsFiniteSet(1..d) /\ Cardinality(1..d) = d
    <3>1. IsFiniteSet(1..d) /\ Cardinality(1..d) = IF 1 > d THEN 0 ELSE d - 1 + 1
      BY FS_Interval
    <3>2. QED
      BY <3>1
  <2>2. QED
    BY <2>1, RedfishAssumption, FS_Product DEF Members
<1>5. IsFiniteSet(new) /\ Cardinality(new) <= Members * d
  <2> HIDE DEF slot, new
  <2>1. QED
    BY <1>3, <1>4, FS_Injection
<1>6. Columns(g) \subseteq Columns(f) \cup new
  <2>1. ASSUME NEW p \in Columns(g), p \notin new PROVE p \in Columns(f)
    <3>1. p \in Tasks \X (1..Most) /\ ~ (p[2] > f[p[1]])
      BY <2>1 DEF Columns
    <3>2. p[1] \in Tasks /\ p[2] \in Nat
      BY <3>1, MembersType
    <3>3. f[p[1]] \in Nat
      BY <3>2, MembersType DEF Weights
    <3>4. p[2] <= f[p[1]]
      BY <3>1, <3>2, <3>3
    <3>5. QED
      BY <3>1, <3>4 DEF Columns
  <2>2. QED
    BY <2>1
<1> HIDE DEF new, slot
<1>7. /\ IsFiniteSet(Columns(f) \cup new)
      /\ Cardinality(Columns(f) \cup new)
           = Cardinality(Columns(f)) + Cardinality(new) - Cardinality(Columns(f) \cap new)
  BY <1>5, TotalType, FS_Union
<1>8. Cardinality(Columns(g)) <= Cardinality(Columns(f) \cup new)
  BY <1>6, <1>7, FS_Subset
<1>9. Cardinality(Columns(f) \cap new) \in Nat /\ Cardinality(new) \in Nat
  BY <1>5, TotalType, FS_Intersection, FS_CardinalityType
<1>10. Members * d \in Nat
  BY MembersType
<1>11. QED
  BY <1>5, <1>7, <1>8, <1>9, <1>10, TotalType DEF Total

\* One task gives up as much as all of them, itself included, may rise by.
LEMMA TotalTraded ==
  ASSUME NEW f \in Weights, NEW g \in Weights, NEW t \in Tasks, NEW d \in Nat,
         \A u \in Tasks \ {t} : g[u] <= f[u] + d,
         Members * d <= f[t], g[t] + Members * d <= f[t] + d
  PROVE  Total(g) <= Total(f)
<1> DEFINE k == Members * d
<1>0. f[t] \in Nat /\ g[t] \in Nat /\ f[t] <= Most /\ Most \in Nat /\ k \in Nat
  BY MembersType DEF Weights
<1> DEFINE h == [f EXCEPT ![t] = f[t] - k]
<1>1. f[t] - k \in 0..Most /\ k <= f[t] /\ g[t] + k <= f[t] + d
  BY <1>0
<1>2. h \in Weights /\ h[t] = f[t] - k /\ \A u \in Tasks \ {t} : h[u] = f[u]
  BY <1>1 DEF Weights
<1> HIDE DEF h, k
<1>3. h[t] + k = f[t]
  BY <1>0, <1>1, <1>2
<1>4. Total(h) + k = Total(f)
  BY <1>0, <1>2, <1>3, TotalFalls
<1>5. g[t] <= h[t] + d
  BY <1>0, <1>1, <1>2
<1>6. \A u \in Tasks : g[u] <= h[u] + d
  BY <1>2, <1>5
<1>7. Total(g) <= Total(h) + k
  BY <1>2, <1>6, TotalRises DEF k
<1>8. QED
  BY <1>0, <1>4, <1>7, TotalType

\* One task's weight rises by at most k, the others' do not.
LEMMA TotalRisesAt ==
  ASSUME NEW f \in Weights, NEW g \in Weights, NEW t \in Tasks, NEW k \in Nat,
         g[t] <= f[t] + k, \A u \in Tasks \ {t} : g[u] <= f[u]
  PROVE  Total(g) <= Total(f) + k
<1>0. f[t] \in Nat /\ g[t] \in Nat /\ f[t] <= Most /\ g[t] <= Most
  BY MembersType DEF Weights
<1>1. CASE g[t] <= f[t]
  <2>1. Total(g) <= Total(f)
    BY <1>1, TotalGrows
  <2>2. QED
    BY <2>1, TotalType
<1>2. CASE g[t] > f[t]
  <2> DEFINE r == g[t] - f[t]
  <2> DEFINE h == [g EXCEPT ![t] = f[t]]
  <2>1. h \in Weights /\ h[t] = f[t] /\ \A u \in Tasks \ {t} : h[u] = g[u]
    BY DEF Weights
  <2>2. r \in Nat /\ f[t] + r = g[t] /\ r <= k
    BY <1>0, <1>2
  <2> HIDE DEF h, r
  <2>3. Total(h) + r = Total(g)
    BY <2>1, <2>2, TotalFalls
  <2>4. \A u \in Tasks : h[u] <= f[u]
    BY <1>0, <2>1
  <2>5. Total(h) <= Total(f)
    BY <2>1, <2>4, TotalGrows
  <2>6. QED
    BY <2>2, <2>3, <2>5, TotalType
<1>3. QED
  BY <1>0, <1>1, <1>2

-----------------------------------------------------------------------------
Moods == {"bad", "good", "stale"}
Places == {"home", "asking", "exposed", "cut", "granted", "dead", "falling", "refused"}

\* What the client would log in with or for.
Mood ==
  IF NeedsLogin(session_token) THEN "bad"
  ELSE IF \/ auth_mode = "session" /\ session_token \in live
          \/ auth_mode = "basic" /\ basic_header = password
       THEN "good" ELSE "stale"

Place(t) ==
  CASE pc[t] = "password" -> IF HttpClosed THEN "exposed" ELSE "asking"
    [] pc[t] = "session" /\ Reply(t) = "none" /\ loc[t].pw = password ->
         IF loc[t].loginConn \in open THEN "asking" ELSE "cut"
    [] pc[t] = "session" /\ Reply(t) = "none" /\ loc[t].pw # password -> "falling"
    [] pc[t] = "session" /\ Reply(t) = "fallback" -> "falling"
    [] pc[t] = "session" /\ Reply(t) = "token" /\ wire[t].grant \in live ->
         IF loc[t].loginConn \in open THEN "granted" ELSE "home"
    [] pc[t] = "session" /\ Reply(t) = "token" /\ wire[t].grant \notin live ->
         IF loc[t].loginConn \in open THEN "dead" ELSE "falling"
    [] pc[t] = "probe" /\ ~ IsRetry(t) -> "refused"
    [] pc[t] = "request" /\ ~ IsRetry(t) /\ ~ Accepts(loc[t].cred) -> "refused"
    [] OTHER -> "home"

\* The sessions a task at place p may still cost while the client is in mood m.
Owed(p, m) ==
  CASE p = "home"    -> IF m = "bad" THEN 1 ELSE IF m = "good" THEN 0 ELSE Members
    [] p = "asking"  -> 1
    [] p = "exposed" -> IF m = "stale" THEN 1 + Members ELSE 1
    [] p = "cut"     -> IF m = "bad" THEN 2 ELSE IF m = "good" THEN 1 ELSE 1 + Members
    [] p = "granted" -> 0
    [] p = "dead"    -> Square
    [] p = "falling" -> IF m = "bad" THEN 1 + Square ELSE Square
    [] p = "refused" -> IF m = "bad" THEN 1 + Members ELSE Members

Owing == [t \in Tasks |-> Owed(Place(t), Mood)]

LEMMA OwedType ==
  ASSUME NEW p \in Places, NEW m \in Moods
  PROVE  Owed(p, m) \in 0..Most
<1>1. 0 \in 0..Most /\ 1 \in 0..Most /\ 2 \in 0..Most /\ Members \in 0..Most
      /\ 1 + Members \in 0..Most /\ Square \in 0..Most /\ 1 + Square \in 0..Most
  BY MembersType
<1>2. Owed(p, m) \in {0, 1, 2, Members, 1 + Members, Square, 1 + Square}
  BY DEF Owed, Places
<1>3. QED
  BY <1>1, <1>2

\* A change of mood costs a task at most Members, a loss of the token at most
\* one, and a good credential nothing.
LEMMA OwedMoods ==
  ASSUME NEW p \in Places, NEW m \in Moods, NEW o \in Moods
  PROVE  /\ Owed(p, o) <= Owed(p, m) + Members
         /\ Owed(p, "bad") <= Owed(p, m) + 1
         /\ Owed(p, "good") <= Owed(p, m)
BY MembersType DEF Owed, Places, Moods

LEMMA MoodType == Mood \in Moods
BY DEF Mood, Moods

LEMMA PlaceType == \A t \in Tasks : Place(t) \in Places
BY DEF Place, Places

LEMMA OwingType == Owing \in Weights
BY MoodType, PlaceType, OwedType DEF Owing, Weights

Cheaper(p, q) == \A m \in Moods : Owed(p, m) <= Owed(q, m)

LEMMA CheaperRefl ==
  ASSUME NEW p \in Places
  PROVE  Cheaper(p, p)
BY OwedType, MembersType DEF Cheaper

LEMMA CheaperPlaces ==
  /\ Cheaper("asking", "exposed") /\ Cheaper("asking", "cut") /\ Cheaper("granted", "home")
  /\ Cheaper("dead", "falling") /\ Cheaper("granted", "dead") /\ Cheaper("home", "falling")
  /\ Cheaper("home", "refused") /\ Cheaper("home", "exposed") /\ Cheaper("home", "cut")
  /\ Cheaper("granted", "falling")
BY MembersType DEF Cheaper, Owed, Moods

\* The pool is at least as open, and the BMC forgets nothing.
Better ==
  /\ HttpClosed' => HttpClosed
  /\ open \subseteq open'
  /\ live \subseteq live'
  /\ password' = password

LEMMA PlaceKept ==
  ASSUME NEW u \in Tasks, pc'[u] = pc[u], loc'[u] = loc[u], wire'[u] = wire[u], Better
  PROVE  Cheaper(Place(u)', Place(u))
<1>0. /\ Reply(u)' = Reply(u)
      /\ IsRetry(u)' = IsRetry(u)
      /\ Accepts(loc[u].cred) => Accepts(loc[u].cred)'
  <2>1. PICK c : c = loc[u].cred
    OBVIOUS
  <2>2. Accepts(c) => Accepts(c)'
    BY DEF Accepts, Better
  <2>3. QED
    BY <2>1, <2>2 DEF Reply, IsRetry, Accepts
<1>1. CASE pc[u] = "password"
  <2>1. Place(u) = (IF HttpClosed THEN "exposed" ELSE "asking")
    BY <1>1 DEF Place
  <2>2. Place(u)' = (IF HttpClosed' THEN "exposed" ELSE "asking")
    BY <1>1 DEF Place
  <2>3. QED
    BY <2>1, <2>2, CheaperPlaces, CheaperRefl DEF Better, Places
<1>2. CASE pc[u] = "session" /\ Reply(u) = "none"
  <2>1. CASE loc[u].pw = password
    <3>1. Place(u) = (IF loc[u].loginConn \in open THEN "asking" ELSE "cut")
      BY <1>2, <2>1 DEF Place
    <3>2. Place(u)' = (IF loc[u].loginConn \in open' THEN "asking" ELSE "cut")
      BY <1>0, <1>2, <2>1 DEF Place, Better
    <3>3. QED
      BY <3>1, <3>2, CheaperPlaces, CheaperRefl DEF Better, Places
  <2>2. CASE loc[u].pw # password
    <3>1. Place(u) = "falling" /\ Place(u)' = "falling"
      BY <1>0, <1>2, <2>2 DEF Place, Better
    <3>2. QED
      BY <3>1, CheaperRefl DEF Places
  <2>3. QED
    BY <2>1, <2>2
<1>3. CASE pc[u] = "session" /\ Reply(u) = "fallback"
  <2>1. Place(u) = "falling" /\ Place(u)' = "falling"
    BY <1>0, <1>3 DEF Place
  <2>2. QED
    BY <2>1, CheaperRefl DEF Places
<1>4. CASE pc[u] = "session" /\ Reply(u) = "token"
  <2>1. /\ wire[u].grant \in live =>
             Place(u) = (IF loc[u].loginConn \in open THEN "granted" ELSE "home")
        /\ wire[u].grant \notin live =>
             Place(u) = (IF loc[u].loginConn \in open THEN "dead" ELSE "falling")
    BY <1>4 DEF Place
  <2>2. /\ wire[u].grant \in live' =>
             Place(u)' = (IF loc[u].loginConn \in open' THEN "granted" ELSE "home")
        /\ wire[u].grant \notin live' =>
             Place(u)' = (IF loc[u].loginConn \in open' THEN "dead" ELSE "falling")
    BY <1>0, <1>4 DEF Place
  <2>3. QED
    BY <2>1, <2>2, CheaperPlaces, CheaperRefl DEF Better, Places
<1>5. CASE pc[u] = "session" /\ Reply(u) \notin {"none", "fallback", "token"}
  <2>1. Place(u) = "home" /\ Place(u)' = "home"
    BY <1>0, <1>5 DEF Place
  <2>2. QED
    BY <2>1, CheaperRefl DEF Places
<1>6. CASE pc[u] = "probe"
  <2>1. /\ Place(u) = (IF IsRetry(u) THEN "home" ELSE "refused")
        /\ Place(u)' = (IF IsRetry(u) THEN "home" ELSE "refused")
    BY <1>0, <1>6 DEF Place
  <2>2. QED
    BY <2>1, CheaperRefl DEF Places
<1>7. CASE pc[u] = "request"
  <2>1. Place(u) = (IF IsRetry(u) \/ Accepts(loc[u].cred) THEN "home" ELSE "refused")
    BY <1>7 DEF Place
  <2>2. Place(u)' = (IF IsRetry(u) \/ Accepts(loc[u].cred)' THEN "home" ELSE "refused")
    BY <1>0, <1>7 DEF Place
  <2>3. QED
    BY <1>0, <2>1, <2>2, CheaperPlaces, CheaperRefl DEF Places
<1>8. CASE pc[u] \notin {"password", "session", "probe", "request"}
  <2>1. Place(u) = "home" /\ Place(u)' = "home"
    BY <1>8 DEF Place
  <2>2. QED
    BY <2>1, CheaperRefl DEF Places
<1>9. QED
  BY <1>1, <1>2, <1>3, <1>4, <1>5, <1>6, <1>7, <1>8

-----------------------------------------------------------------------------
\* A step that pays for the session it costs, and one that a fault pays for.
Paid ==
  /\ issued' + Total(Owing)' <= issued + Total(Owing)
  /\ faults <= faults' /\ password' = password

Charged ==
  /\ issued' = issued /\ faults' = faults + 1 /\ password' = password
  /\ Total(Owing)' <= Total(Owing) + Square

LEMMA OwingAt ==
  /\ \A t \in Tasks : Owing[t] = Owed(Place(t), Mood) /\ Owing'[t] = Owed(Place(t)', Mood')
  /\ Owing \in Weights /\ Owing' \in Weights
  /\ Total(Owing) \in Nat /\ Total(Owing)' \in Nat /\ Total(Owing)' = Total(Owing')
<1>1. \A t \in Tasks : Owing[t] = Owed(Place(t), Mood)
  BY DEF Owing
<1>2. \A t \in Tasks : Owing'[t] = Owed(Place(t)', Mood')
  BY DEF Owing, Owed
<1>3. Owing \in Weights /\ Total(Owing) \in Nat
  BY OwingType, TotalType
<1>4. Owing' \in Weights /\ Total(Owing') \in Nat
  <2>1. Mood' \in Moods
    BY DEF Mood, Moods
  <2>2. \A t \in Tasks : Place(t)' \in Places
    BY DEF Place, Places
  <2>3. \A t \in Tasks : Owed(Place(t)', Mood') \in 0..Most
    BY <2>1, <2>2, OwedType
  <2>4. Owing' = [t \in Tasks |-> Owed(Place(t), Mood)']
    BY DEF Owing
  <2>5. Owing' \in [Tasks -> 0..Most]
    BY <1>2, <2>3, <2>4
  <2>6. QED
    BY <2>5, TotalType DEF Weights
<1>5. Total(Owing)' = Total(Owing')
  BY DEF Total, Columns, Most, Square, Members
<1>6. QED
  BY <1>1, <1>2, <1>3, <1>4, <1>5

LEMMA OwedNat ==
  ASSUME NEW t \in Tasks
  PROVE  Owed(Place(t), Mood) \in 0..Most /\ Owed(Place(t)', Mood') \in 0..Most
BY OwingAt DEF Weights

\* The steps of a task by what they do to the places of the tasks.  In the
\* first kind nobody's grows, and that of t shrinks by what it has cost.
LEMMA PaidIf ==
  ASSUME TInv, NEW t \in Tasks, StepOf(t), Better, Mood' \in {Mood, "good"},
         issued' \in {issued, issued + 1},
         Owed(Place(t)', Mood') + (issued' - issued) <= Owed(Place(t), Mood),
         faults <= faults'
  PROVE  Paid
<1> DEFINE k == issued' - issued
<1>0. issued \in Nat /\ issued' \in Nat /\ k \in Nat /\ issued' = issued + k
  <2>1. issued \in Nat
    BY DEF TInv, BmcOK
  <2>2. CASE issued' = issued
    BY <2>1, <2>2
  <2>3. CASE issued' = issued + 1
    BY <2>1, <2>3
  <2>4. QED
    BY <2>2, <2>3
<1>1. ASSUME NEW u \in Tasks \ {t} PROVE Owing'[u] <= Owing[u]
  <2>1. Cheaper(Place(u)', Place(u))
    BY OthersSame, PlaceKept
  <2>2. Owed(Place(u)', Mood) <= Owed(Place(u), Mood)
    BY <2>1, MoodType DEF Cheaper
  <2>3. Owed(Place(u)', "good") <= Owed(Place(u)', Mood)
    <3>1. Place(u)' \in Places
      BY DEF Place, Places
    <3>2. QED
      BY <3>1, MoodType, OwedMoods
  <2>4. /\ Owed(Place(u), Mood) \in Nat /\ Owed(Place(u)', Mood) \in Nat
        /\ Owed(Place(u)', "good") \in Nat
    <3>1. Place(u)' \in Places
      BY DEF Place, Places
    <3>2. "good" \in Moods
      BY DEF Moods
    <3>3. QED
      BY <3>1, <3>2, MoodType, PlaceType, OwedType, MembersType
  <2>5. QED
    BY <2>2, <2>3, <2>4, OwingAt
<1>2. Owing'[t] + k <= Owing[t]
  BY OwingAt
<1>3. Owing[t] \in 0..Most /\ Owing'[t] \in 0..Most
  BY OwingAt DEF Weights
<1> DEFINE h == [Owing EXCEPT ![t] = Owing[t] - k]
<1>4. Owing[t] - k \in 0..Most
  BY <1>0, <1>2, <1>3, MembersType
<1>5. h \in Weights /\ h[t] = Owing[t] - k /\ \A u \in Tasks \ {t} : h[u] = Owing[u]
  BY <1>4, OwingAt DEF Weights
<1> HIDE DEF h, k
<1>6. h[t] + k = Owing[t]
  BY <1>0, <1>3, <1>5, MembersType
<1>7. Total(h) + k = Total(Owing)
  BY <1>0, <1>5, <1>6, OwingAt, TotalFalls
<1>8. Owing'[t] <= h[t]
  BY <1>0, <1>2, <1>3, <1>5, MembersType
<1>9. Total(Owing') <= Total(h)
  <2>1. \A u \in Tasks : Owing'[u] <= h[u]
    BY <1>1, <1>5, <1>8
  <2>2. QED
    BY <1>5, <2>1, OwingAt, TotalGrows
<1>10. issued' + Total(Owing)' <= issued + Total(Owing)
  BY <1>0, <1>7, <1>9, OwingAt, TotalType
<1>11. QED
  BY <1>10 DEF Paid, Better

\* In the second kind t gives up a share for every task, itself included.
LEMMA PaidIfTraded ==
  ASSUME TInv, NEW t \in Tasks, StepOf(t), Better,
         NEW d \in Nat,
         d = Members \/ (d = 1 /\ Mood' = "bad"),
         issued' = issued, faults' = faults,
         Members * d <= Owed(Place(t), Mood),
         Owed(Place(t)', Mood') + Members * d <= Owed(Place(t), Mood) + d
  PROVE  Paid
<1>1. ASSUME NEW u \in Tasks \ {t} PROVE Owing'[u] <= Owing[u] + d
  <2>0. Place(u)' \in Places /\ Mood' \in Moods
    BY DEF Place, Places, Mood, Moods
  <2>1. Owed(Place(u)', Mood) <= Owed(Place(u), Mood)
    BY OthersSame, PlaceKept, MoodType DEF Cheaper
  <2>2. Owed(Place(u)', Mood') <= Owed(Place(u)', Mood) + d
    BY <2>0, MoodType, OwedMoods
  <2>3. /\ Owed(Place(u), Mood) \in Nat /\ Owed(Place(u)', Mood) \in Nat
        /\ Owed(Place(u)', Mood') \in Nat
    BY <2>0, MoodType, PlaceType, OwedType, MembersType
  <2>4. QED
    BY <2>1, <2>2, <2>3, OwingAt
<1>2. Members * d <= Owing[t] /\ Owing'[t] + Members * d <= Owing[t] + d
  BY OwingAt
<1>3. Total(Owing') <= Total(Owing)
  BY <1>1, <1>2, OwingAt, TotalTraded
<1>4. issued \in Nat /\ faults \in Nat
  BY DEF TInv, BmcOK, LogOK
<1>5. QED
  BY <1>3, <1>4, OwingAt DEF Paid, Better

\* A fault that hits one task.
LEMMA ChargedIf ==
  ASSUME TInv, NEW t \in Tasks, StepOf(t), Better, Mood' = Mood,
         issued' = issued, faults' = faults + 1,
         Owed(Place(t)', Mood') <= Owed(Place(t), Mood) + Square
  PROVE  Charged
<1>1. ASSUME NEW u \in Tasks \ {t} PROVE Owing'[u] <= Owing[u]
  BY OthersSame, PlaceKept, MoodType, OwingAt DEF Cheaper
<1>2. Owing'[t] <= Owing[t] + Square
  BY OwingAt
<1>3. Total(Owing') <= Total(Owing) + Square
  BY <1>1, <1>2, OwingAt, TotalRisesAt, MembersType
<1>4. QED
  BY <1>3, OwingAt DEF Charged, Better

\* A fault that changes what each task may have to pay.
LEMMA ChargedIfAll ==
  ASSUME \A u \in Tasks : Owed(Place(u)', Mood') <= Owed(Place(u), Mood) + Members,
         issued' = issued, faults' = faults + 1, password' = password
  PROVE  Charged
<1>1. \A u \in Tasks : Owing'[u] <= Owing[u] + Members
  BY OwingAt
<1>2. Total(Owing') <= Total(Owing) + Members * Members
  BY <1>1, OwingAt, TotalRises, MembersType
<1>3. QED
  BY <1>2, OwingAt DEF Charged, Square

-----------------------------------------------------------------------------
\* The parts of the actions, by place and mood.
LEMMA MoodSame ==
  ASSUME UNCHANGED client, live' = live, password' = password
  PROVE  Mood' = Mood
BY DEF Mood, NeedsLogin, TokenFresh, client

LEMMA BetterIfSame ==
  ASSUME TInv, UNCHANGED pool \/ OpenHttp, live \subseteq live', password' = password
  PROVE  Better
<1>1. PoolOK
  BY DEF TInv
<1>2. Opens
  BY <1>1, PoolSameOpens, OpenHttpOpens
<1>3. QED
  BY <1>2 DEF Opens, Better

LEMMA HomeIfIdle ==
  ASSUME NEW t \in Tasks, pc'[t] \in {"idle", "closing"}
  PROVE  Place(t)' = "home"
BY DEF Place

\* Where a task is that sends its request, or fails to.
LEMMA SendRequestPlace ==
  ASSUME TInv, NEW t \in Tasks, NEW l \in Locals, NEW cred \in Cred,
         SendRequest(t, l, cred), UNCHANGED <<live, password>>
  PROVE  /\ Better
         /\ Place(t)' \in {"home", "refused"}
         /\ l.refused # NoCred \/ Accepts(cred) => Place(t)' = "home"
<1>0. CallsOK /\ PoolOK
  BY DEF TInv
<1>1. Better
  BY BetterIfSame DEF SendRequest
<1>2. \/ /\ pc' = [pc EXCEPT ![t] = "request"]
         /\ loc'[t].cred = cred /\ loc'[t].refused = l.refused
      \/ pc' = [pc EXCEPT ![t] = "idle"]
  BY <1>0, SendRequestCalls
<1>3. CASE pc'[t] = "request" /\ loc'[t].cred = cred /\ loc'[t].refused = l.refused
  <2>1. Accepts(loc[t].cred)' = Accepts(cred)
    BY <1>3 DEF Accepts
  <2>2. Place(t)' = (IF l.refused # NoCred \/ Accepts(cred) THEN "home" ELSE "refused")
    BY <1>3, <2>1 DEF Place, IsRetry
  <2>3. QED
    BY <1>1, <2>2
<1>4. CASE pc'[t] = "idle"
  BY <1>1, <1>4, HomeIfIdle
<1>5. QED
  BY <1>0, <1>2, <1>3, <1>4 DEF CallsOK

\* What a place at home or refused costs, against the place before.
LEMMA OwedAgainst ==
  ASSUME NEW m \in Moods
  PROVE  /\ Owed("home", m) <= Owed("refused", m)
         /\ Owed("asking", "bad") = 1 /\ Owed("exposed", "bad") = 1
         /\ Owed("home", "bad") = 1 /\ Owed("home", "good") = 0
         /\ Owed("refused", "stale") = Owed("home", "stale")
         /\ Owed("home", m) \in 0..Members
         /\ Owed("home", m) <= Owed("exposed", m) /\ Owed("home", m) <= Owed("cut", m)
         /\ Owed("home", m) <= Owed("falling", m)
         /\ Owed("asking", m) <= Owed("exposed", m) /\ Owed("asking", m) = 1
         /\ Owed("granted", m) = 0
         /\ Owed("cut", m) = Owed("home", m) + 1
         /\ Square <= Owed("falling", m) /\ Square <= Owed("dead", m)
         /\ Members <= Owed("refused", m)
         /\ Owed("refused", "good") = Members /\ Owed("refused", "stale") = Members
BY MembersType DEF Owed, Moods

-----------------------------------------------------------------------------
\* The call is over, and was at a place that costs as much.
LEMMA PaidIfEnds ==
  ASSUME TInv, NEW t \in Tasks, StepOf(t), pc'[t] = "idle",
         UNCHANGED <<client, live, issued, password>>, Better, faults <= faults',
         Place(t) \in {"home", "exposed", "cut", "falling", "refused"}
  PROVE  Paid
<1>1. Mood' = Mood /\ Place(t)' = "home"
  BY MoodSame, HomeIfIdle
<1>2. issued \in Nat
  BY DEF TInv, BmcOK
<1>3. Owed("home", Mood) <= Owed(Place(t), Mood)
  BY MoodType, OwedAgainst, MembersType
<1>4. Owed(Place(t)', Mood') + (issued' - issued) <= Owed(Place(t), Mood)
  BY <1>1, <1>2, <1>3, MoodType, OwedAgainst
<1>5. QED
  BY <1>1, <1>4, PaidIf

\* A fault ended what t was at, or brought it home.
LEMMA ChargedIfHome ==
  ASSUME TInv, NEW t \in Tasks, StepOf(t), Place(t)' = "home",
         UNCHANGED <<client, live, issued, password>>, Better, faults' = faults + 1
  PROVE  Charged
<1>1. Mood' = Mood
  BY MoodSame
<1>2. Owed("home", Mood) \in 0..Members
  BY MoodType, OwedAgainst
<1>3. Owed(Place(t), Mood) \in Nat
  BY OwedNat, MembersType
<1>4. Owed(Place(t)', Mood') <= Owed(Place(t), Mood) + Square
  BY <1>1, <1>2, <1>3, MembersType
<1>5. QED
  BY <1>1, <1>4, ChargedIf

\* A request that goes out with the client's own credential, when it need not
\* log in.
LEMMA GoesOut ==
  ASSUME TInv, NEW t \in Tasks, NEW l \in Locals, ~ NeedsLogin(session_token),
         SendRequest(t, l, Headers(auth_mode, session_token, basic_header)),
         UNCHANGED <<client, live, password>>
  PROVE  Better /\ Owed(Place(t)', Mood) <= Owed("home", Mood)
<1> DEFINE h == Headers(auth_mode, session_token, basic_header)
<1>0. ClientOK /\ BmcOK
  BY DEF TInv
<1>1. h \in Cred
  BY <1>0 DEF NeedsLogin, TokenFresh, Headers, Cred, CredMode, ClientOK, BmcOK
<1>2. Mood \in {"good", "stale"} /\ (Mood = "good" => Accepts(h))
  BY DEF Mood, Accepts, Headers
<1> HIDE DEF h
<1>3. /\ Better
      /\ Place(t)' \in {"home", "refused"}
      /\ Accepts(h) => Place(t)' = "home"
  BY <1>1, SendRequestPlace DEF h
<1>4. Owed("home", Mood) \in Nat /\ Owed("refused", "stale") = Owed("home", "stale")
  BY MoodType, OwedAgainst, MembersType
<1>5. CASE Mood = "good"
  BY <1>2, <1>3, <1>4, <1>5
<1>6. CASE Mood = "stale"
  BY <1>3, <1>4, <1>6
<1>7. QED
  BY <1>2, <1>3, <1>5, <1>6

LEMMA PaysCall ==
  ASSUME TInv, NEW t \in Tasks, NEW k \in Kinds, Call(t, k)
  PROVE  Paid
<1> DEFINE l == [NoCall EXCEPT !.kind = k]
<1>0. CallsOK /\ ClientOK /\ PoolOK /\ BmcOK /\ LogOK
  BY DEF TInv
<1>1. l \in Locals
  BY EmptyTyped DEF Locals, Kinds
<1>2. /\ EnsureAuth(t, session_token, l) /\ pc[t] = "idle"
      /\ UNCHANGED <<client, live, issued, password, faults>>
  BY DEF Call, bmc
<1> HIDE DEF l
<1>3. Mood' = Mood
  BY <1>2, MoodSame
<1>4. Place(t) = "home"
  BY <1>2 DEF Place
<1>5. StepOf(t)
  BY DEF StepOf
<1>6. Better /\ Owed(Place(t)', Mood) <= Owed("home", Mood)
  <2>1. CASE NeedsLogin(session_token)
    <3>1. pc'[t] = "password" /\ UNCHANGED pool
      BY <1>0, <1>2, <2>1 DEF EnsureAuth, CallsOK
    <3>2. Mood = "bad" /\ Place(t)' \in {"asking", "exposed"}
      BY <2>1, <3>1 DEF Mood, Place
    <3>3. Better
      BY <1>2, <3>1, BetterIfSame
    <3>4. Owed("asking", "bad") = 1 /\ Owed("exposed", "bad") = 1 /\ Owed("home", "bad") = 1
      BY OwedAgainst DEF Moods
    <3>5. QED
      BY <3>2, <3>3, <3>4
  <2>2. CASE ~ NeedsLogin(session_token)
    BY <1>1, <1>2, <2>2, GoesOut DEF EnsureAuth
  <2>3. QED
    BY <2>1, <2>2
<1>7. issued \in Nat /\ faults \in Nat /\ Owed(Place(t)', Mood') \in Nat
  BY <1>0, OwedNat, MembersType DEF BmcOK, LogOK
<1>8. Owed(Place(t)', Mood') + (issued' - issued) <= Owed(Place(t), Mood)
  BY <1>2, <1>3, <1>4, <1>6, <1>7
<1>9. QED
  BY <1>2, <1>3, <1>5, <1>6, <1>7, <1>8, PaidIf

LEMMA PaysResolvePassword ==
  ASSUME TInv, NEW t \in Tasks, ResolvePassword(t)
  PROVE  Paid
<1> DEFINE l == [loc[t] EXCEPT !.pw = password, !.loginConn = Http]
<1>0. CallsOK /\ PoolOK /\ BmcOK /\ LogOK
  BY DEF TInv
<1>1. /\ OpenHttp /\ Await(t, "session", Http, l) /\ pc[t] = "password"
      /\ UNCHANGED <<client, live, issued, password, faults>>
  BY DEF ResolvePassword, bmc, log
<1>2. StepOf(t)
  BY DEF StepOf, Resume
<1>3. Better
  BY <1>1, BetterIfSame
<1>4. issued \in Nat /\ faults \in Nat
  BY <1>0 DEF BmcOK, LogOK
<1>5. CASE Usable(Http)
  <2>1. Http \in open'
    BY <1>1, <1>5 DEF Usable, OpenHttp, pool, Http
  <2>2. pc'[t] = "session" /\ loc'[t] = l /\ wire'[t] = NoReply
    BY <1>0, <1>1, <1>5 DEF Await, CallsOK
  <2>3. loc[t] \in Locals
    BY <1>0 DEF CallsOK
  <2>4. loc'[t].pw = password' /\ loc'[t].loginConn \in open'
    BY <1>1, <2>1, <2>2, <2>3 DEF Locals
  <2>5. Place(t)' = "asking"
    BY <2>2, <2>4 DEF Place, Reply, NoReply
  <2>6. Place(t) \in {"asking", "exposed"}
    BY <1>1 DEF Place
  <2>7. Mood' = Mood
    BY <1>1, MoodSame
  <2>8. Owed("asking", Mood) = 1 /\ Owed("asking", Mood) <= Owed("exposed", Mood)
    BY MoodType, OwedAgainst
  <2>9. Owed(Place(t)', Mood') + (issued' - issued) <= Owed(Place(t), Mood)
    BY <1>1, <1>4, <2>5, <2>6, <2>7, <2>8
  <2>10. QED
    BY <1>1, <1>2, <1>3, <1>4, <2>7, <2>9, PaidIf
<1>6. CASE ~ Usable(Http)
  <2>1. HttpClosed
    BY <1>6 DEF Usable, Http, HttpClosed
  <2>2. pc'[t] = "idle"
    BY <1>0, <1>1, <1>6 DEF Await, Return, CallsOK
  <2>3. Place(t) = "exposed"
    BY <1>1, <2>1 DEF Place
  <2>4. QED
    BY <1>1, <1>2, <1>3, <1>4, <2>2, <2>3, PaidIfEnds
<1>7. QED
  BY <1>5, <1>6

LEMMA PaysFallBack ==
  ASSUME TInv, NEW t \in Tasks, FallBack(t)
  PROVE  Paid
<1>0. CallsOK /\ PoolOK /\ BmcOK /\ LogOK
  BY DEF TInv
<1>1. /\ Await(t, "probe", loc[t].loginConn, loc[t])
      /\ pc[t] = "session" /\ Reply(t) = "fallback" /\ auth_mode' = "basic"
      /\ UNCHANGED <<pool, live, issued, password, faults>>
  BY DEF FallBack, bmc
<1>2. StepOf(t)
  BY DEF StepOf, Resume
<1>3. Better
  BY <1>1, BetterIfSame
<1>4. Mood' \in {"good", "stale"}
  BY <1>1 DEF Mood, NeedsLogin
<1>5. Place(t) = "falling"
  BY <1>1 DEF Place
<1>6. Place(t)' \in {"home", "refused"}
  <2>1. pc'[t] \in {"probe", "idle"}
    BY <1>0, <1>1 DEF Await, Return, CallsOK
  <2>2. QED
    BY <2>1 DEF Place
<1>7. Square <= Owed(Place(t), Mood) /\ Owed(Place(t), Mood) \in Nat
  BY <1>5, MoodType, OwedAgainst, OwedNat, MembersType
<1>8. Owed(Place(t)', Mood') <= Members /\ Owed(Place(t)', Mood') \in Nat
  <2>1. /\ Owed("refused", "good") = Members /\ Owed("refused", "stale") = Members
        /\ Owed("home", "good") \in 0..Members /\ Owed("home", "stale") \in 0..Members
    BY OwedAgainst DEF Moods
  <2>2. QED
    BY <1>4, <1>6, <2>1, MembersType
<1>9. /\ Members * Members <= Owed(Place(t), Mood)
      /\ Owed(Place(t)', Mood') + Members * Members <= Owed(Place(t), Mood) + Members
  <2>1. Members * Members = Square
    BY DEF Square
  <2>2. QED
    BY <1>7, <1>8, <2>1, MembersType
<1>10. QED
  BY <1>1, <1>2, <1>3, <1>9, MembersType, PaidIfTraded

LEMMA PaysTokenGranted ==
  ASSUME TInv, TokenInv, NEW t \in Tasks, TokenGranted(t)
  PROVE  Paid
<1> DEFINE h == Headers("session", wire[t].grant, basic_header)
<1>0. CallsOK /\ PoolOK /\ BmcOK /\ LogOK /\ PerCall(t)
  BY DEF TInv
<1>1. /\ pc[t] = "session" /\ Reply(t) = "token"
      /\ session_token' = wire[t].grant /\ fresh' = TRUE /\ auth_mode' = "session"
      /\ SendRequest(t, loc[t], h)
      /\ UNCHANGED <<live, issued, password, faults>>
  BY DEF TokenGranted, bmc, log
<1>2. h \in Cred /\ h.mode = "session" /\ h.val = wire[t].grant
  BY <1>0 DEF Headers, Cred, CredMode, PerCall, BmcOK
<1>3. loc[t] \in Locals
  BY <1>0 DEF CallsOK
<1> HIDE DEF h
<1>4. /\ Better
      /\ Place(t)' \in {"home", "refused"}
      /\ Accepts(h) => Place(t)' = "home"
  BY <1>1, <1>2, <1>3, SendRequestPlace
<1>5. StepOf(t)
  BY DEF StepOf, Resume
<1>6. wire[t].grant # 0
  BY <1>1 DEF TokenInv, Granted
<1>7. ~ NeedsLogin(session_token)'
  BY <1>1, <1>6 DEF NeedsLogin, TokenFresh
<1>8. issued \in Nat /\ faults \in Nat /\ Owed(Place(t), Mood) \in Nat
  BY <1>0, OwedNat, MembersType DEF BmcOK, LogOK
<1>9. CASE wire[t].grant \in live
  <2>1. Mood' = "good"
    BY <1>1, <1>7, <1>9 DEF Mood
  <2>2. Accepts(h)
    BY <1>2, <1>9 DEF Accepts
  <2>3. Owed(Place(t)', Mood') = 0
    BY <1>4, <2>1, <2>2, OwedAgainst DEF Moods
  <2>4. Owed(Place(t)', Mood') + (issued' - issued) <= Owed(Place(t), Mood)
    BY <1>1, <1>8, <2>3
  <2>5. QED
    BY <1>1, <1>4, <1>5, <1>8, <2>1, <2>4, PaidIf
<1>10. CASE wire[t].grant \notin live
  <2>1. Mood' \in {"good", "stale"}
    BY <1>7 DEF Mood
  <2>2. Place(t) \in {"dead", "falling"}
    BY <1>1, <1>10 DEF Place
  <2>3. Square <= Owed(Place(t), Mood)
    BY <2>2, MoodType, OwedAgainst
  <2>4. Owed(Place(t)', Mood') <= Members /\ Owed(Place(t)', Mood') \in Nat
    <3>1. /\ Owed("refused", "good") = Members /\ Owed("refused", "stale") = Members
          /\ Owed("home", "good") \in 0..Members /\ Owed("home", "stale") \in 0..Members
      BY OwedAgainst DEF Moods
    <3>2. QED
      BY <1>4, <2>1, <3>1, MembersType
  <2>5. /\ Members * Members <= Owed(Place(t), Mood)
        /\ Owed(Place(t)', Mood') + Members * Members <= Owed(Place(t), Mood) + Members
    <3>1. Members * Members = Square
      BY DEF Square
    <3>2. QED
      BY <1>8, <2>3, <2>4, <3>1, MembersType
  <2>6. QED
    BY <1>1, <1>4, <1>5, <2>5, MembersType, PaidIfTraded
<1>11. QED
  BY <1>9, <1>10

LEMMA PaysRetry ==
  ASSUME TInv, NEW t \in Tasks, Informed(t), Retry(t)
  PROVE  Paid
<1>0. CallsOK /\ LogOK
  BY DEF TInv
<1>1. /\ pc[t] = "request" /\ Reply(t) = "denied" /\ auth_mode = "session" /\ ~ IsRetry(t)
      /\ session_token' = 0 /\ auth_mode' = "session"
      /\ EnsureAuth(t, 0, [loc[t] EXCEPT !.refused = loc[t].cred])
      /\ UNCHANGED <<live, issued, password, faults>>
  BY DEF Retry, Retries, RefusedToken, bmc, log
<1>2. StepOf(t)
  BY DEF StepOf, Resume
<1>3. NeedsLogin(0) /\ NeedsLogin(session_token)'
  BY <1>1 DEF NeedsLogin, TokenFresh
<1>4. pc'[t] = "password" /\ UNCHANGED pool
  BY <1>0, <1>1, <1>3 DEF EnsureAuth, CallsOK
<1>5. Better
  BY <1>1, <1>4, BetterIfSame
<1>6. Mood' = "bad" /\ Place(t)' \in {"asking", "exposed"}
  BY <1>3, <1>4 DEF Mood, Place
<1>7. Place(t) = "refused"
  BY <1>1 DEF Informed, Place
<1>8. Members <= Owed(Place(t), Mood) /\ Owed(Place(t), Mood) \in Nat
  BY <1>7, MoodType, OwedAgainst, OwedNat, MembersType
<1>9. Owed(Place(t)', Mood') = 1
  BY <1>6, OwedAgainst DEF Moods
<1>10. Members * 1 <= Owed(Place(t), Mood) /\ Owed(Place(t)', Mood') + Members * 1 <= Owed(Place(t), Mood) + 1
  BY <1>8, <1>9, MembersType
<1>11. QED
  BY <1>1, <1>2, <1>5, <1>6, <1>10, PaidIfTraded

LEMMA PaysProbeAccepted ==
  ASSUME TInv, NEW t \in Tasks, ProbeAccepted(t)
  PROVE  Paid
<1> DEFINE h == Headers(auth_mode, session_token, basic_header)
<1>0. CallsOK /\ LogOK /\ BmcOK /\ ClientOK
  BY DEF TInv
<1>1. /\ pc[t] = "probe" /\ SendRequest(t, loc[t], h)
      /\ UNCHANGED <<client, live, issued, password, faults>>
  BY DEF ProbeAccepted, bmc, log
<1>2. h \in Cred
  BY <1>0, EmptyTyped DEF Headers, Cred, CredMode, ClientOK, BmcOK
<1>3. loc[t] \in Locals
  BY <1>0 DEF CallsOK
<1> HIDE DEF h
<1>4. /\ Better /\ Place(t)' \in {"home", "refused"}
      /\ IsRetry(t) => Place(t)' = "home"
  BY <1>1, <1>2, <1>3, SendRequestPlace DEF IsRetry
<1>5. StepOf(t)
  BY DEF StepOf, Resume
<1>6. Place(t) = (IF IsRetry(t) THEN "home" ELSE "refused") /\ Mood' = Mood
  BY <1>1, MoodSame DEF Place
<1>7. issued \in Nat /\ faults \in Nat /\ Owed(Place(t)', Mood') \in Nat
  BY <1>0, OwedNat, MembersType DEF BmcOK, LogOK
<1>8. Owed("home", Mood) <= Owed("refused", Mood)
  BY MoodType, OwedAgainst
<1>9. Owed(Place(t)', Mood') <= Owed(Place(t), Mood)
  BY <1>4, <1>6, <1>7, <1>8
<1>10. Owed(Place(t)', Mood') + (issued' - issued) <= Owed(Place(t), Mood)
  BY <1>1, <1>7, <1>9
<1>11. QED
  BY <1>1, <1>4, <1>5, <1>6, <1>7, <1>10, PaidIf

\* The answers and exceptions that end a call.
LEMMA PaysEnd ==
  ASSUME TInv, NEW t \in Tasks,
         LoginFails(t) \/ ProbeFails(t) \/ RequestDone(t) \/ RequestLost(t)
  PROVE  Paid
<1>0. CallsOK /\ LogOK
  BY DEF TInv
<1>1. /\ pc'[t] = "idle"
      /\ UNCHANGED <<client, pool, live, issued, password, faults>>
  BY <1>0 DEF LoginFails, ProbeFails, RequestDone, RequestLost, Return, CallsOK, bmc, log
<1>2. Place(t) \in {"home", "refused"}
  <2>1. \/ pc[t] \in {"probe", "request"}
        \/ pc[t] = "session" /\ Reply(t) \in {"error", "lost"}
    BY DEF LoginFails, ProbeFails, RequestDone, RequestLost
  <2>2. QED
    BY <2>1 DEF Place
<1>3. StepOf(t)
  BY DEF StepOf, Resume
<1>4. Better /\ faults <= faults'
  BY <1>0, <1>1, BetterIfSame DEF LogOK
<1>5. QED
  BY <1>1, <1>2, <1>3, <1>4, PaidIfEnds

LEMMA PaysCloseDone ==
  ASSUME TInv, NEW t \in Tasks, CloseDone(t)
  PROVE  Paid
<1>0. CallsOK /\ LogOK
  BY DEF TInv
<1>1. /\ pc[t] = "closing" /\ pc'[t] = "idle" /\ http' = 0
      /\ UNCHANGED <<client, open, live, issued, password, faults>>
  BY <1>0 DEF CloseDone, CallsOK, bmc, log
<1>2. Better /\ faults <= faults'
  BY <1>0, <1>1 DEF Better, HttpClosed, LogOK
<1>3. Place(t) = "home" /\ StepOf(t)
  BY <1>1 DEF Place, StepOf, Resume
<1>4. QED
  BY <1>1, <1>2, <1>3, PaidIfEnds

LEMMA ChargedStops ==
  ASSUME TInv, NEW t \in Tasks, PasswordFails(t) \/ Cancel(t)
  PROVE  Charged
<1>0. CallsOK /\ LogOK
  BY DEF TInv
<1>1. /\ pc'[t] = "idle" /\ faults' = faults + 1
      /\ UNCHANGED <<client, pool, live, issued, password>>
  BY <1>0 DEF PasswordFails, Cancel, Fault, Return, CallsOK, bmc
<1>2. Place(t)' = "home" /\ StepOf(t)
  BY <1>1, HomeIfIdle DEF StepOf, Resume
<1>3. Better
  BY <1>1, BetterIfSame
<1>4. QED
  BY <1>1, <1>2, <1>3, ChargedIfHome

-----------------------------------------------------------------------------
LEMMA PaysServeSession ==
  ASSUME TInv, NEW t \in Tasks, ServeSession(t), service
  PROVE  Paid \/ Charged
<1>0. CallsOK /\ LogOK /\ BmcOK /\ ClientOK
  BY DEF TInv
<1>1. /\ pc[t] = "session" /\ Reply(t) = "none" /\ pc' = pc /\ loc' = loc
      /\ UNCHANGED <<client, pool, password>>
  BY DEF ServeSession
<1>2. StepOf(t)
  BY DEF StepOf, Serve
<1>3. issued \in Nat /\ faults \in Nat /\ session_token \in 0..issued
  BY <1>0 DEF BmcOK, LogOK, ClientOK
<1>4. CASE /\ loc[t].pw = password /\ issued' = issued + 1 /\ live' = live \cup {issued'}
           /\ Answer(t, "token", issued') /\ NoFault
  <2>1. Better
    BY <1>1, <1>4, BetterIfSame
  <2>2. Mood' = Mood \/ Mood' = "good"
    <3>1. NeedsLogin(session_token)' = NeedsLogin(session_token)
      BY <1>1 DEF NeedsLogin, TokenFresh, client
    <3>2. CASE NeedsLogin(session_token)
      BY <3>1, <3>2 DEF Mood
    <3>3. CASE ~ NeedsLogin(session_token)
      <4>1. Mood = "good" => Mood' = "good"
        BY <1>1, <1>4, <3>1, <3>3 DEF Mood, client
      <4>2. Mood \in {"good", "stale"} /\ Mood' \in {"good", "stale"}
        BY <3>1, <3>3 DEF Mood
      <4>3. QED
        BY <4>1, <4>2
    <3>4. QED
      BY <3>2, <3>3
  <2>3. wire'[t].reply = "token" /\ wire'[t].grant \in live'
    BY <1>0, <1>4 DEF Answer, CallsOK
  <2>4. CASE loc[t].loginConn \in open
    <3>1. Place(t) = "asking"
      BY <1>1, <1>4, <2>4 DEF Place
    <3>2. Place(t)' = "granted"
      BY <1>1, <2>3, <2>4 DEF Place, Reply, pool
    <3>3. Owed(Place(t), Mood) = 1 /\ Owed(Place(t)', Mood') = 0
      <4>1. "good" \in Moods
        BY DEF Moods
      <4>2. QED
        BY <2>2, <3>1, <3>2, <4>1, MoodType, OwedAgainst
    <3>4. Owed(Place(t)', Mood') + (issued' - issued) <= Owed(Place(t), Mood)
      BY <1>3, <1>4, <3>3
    <3>5. QED
      BY <1>2, <1>3, <1>4, <2>1, <2>2, <3>4, PaidIf DEF NoFault, log
  <2>5. CASE loc[t].loginConn \notin open
    <3>1. Place(t) = "cut"
      BY <1>1, <1>4, <2>5 DEF Place
    <3>2. Place(t)' = "home"
      BY <1>1, <2>3, <2>5 DEF Place, Reply, pool
    <3>3. Owed("cut", Mood) = Owed("home", Mood) + 1 /\ Owed("home", "good") <= Owed("home", Mood)
          /\ Owed("home", Mood) \in Nat /\ Owed("home", "good") = 0
      BY MoodType, OwedAgainst, MembersType DEF Moods
    <3>4. Owed(Place(t)', Mood') + (issued' - issued) <= Owed(Place(t), Mood)
      BY <1>3, <1>4, <2>2, <3>1, <3>2, <3>3
    <3>5. QED
      BY <1>2, <1>3, <1>4, <2>1, <2>2, <3>4, PaidIf DEF NoFault, log
  <2>6. QED
    BY <2>4, <2>5
<1>5. CASE /\ Answer(t, "fallback", 0) /\ UNCHANGED <<issued, live>>
           /\ IF loc[t].pw = password THEN Fault({t}) ELSE NoFault
  <2>1. Better /\ Mood' = Mood
    BY <1>1, <1>5, BetterIfSame, MoodSame
  <2>2. wire'[t].reply = "fallback"
    BY <1>0, <1>5 DEF Answer, CallsOK
  <2>3. Place(t)' = "falling"
    BY <1>1, <2>2 DEF Place, Reply
  <2>4. CASE loc[t].pw = password
    <3>1. Place(t) \in {"asking", "cut"}
      BY <1>1, <2>4 DEF Place
    <3>2. Owed("falling", Mood) <= Owed("asking", Mood) + Square
          /\ Owed("falling", Mood) <= Owed("cut", Mood) + Square
      BY MoodType, MembersType DEF Owed, Moods
    <3>3. QED
      BY <1>2, <1>5, <2>1, <2>3, <2>4, <3>1, <3>2, ChargedIf DEF Fault
  <2>5. CASE loc[t].pw # password
    <3>1. Place(t) = "falling"
      BY <1>1, <2>5 DEF Place
    <3>2. Owed(Place(t)', Mood') + (issued' - issued) <= Owed(Place(t), Mood)
      BY <1>3, <1>5, <2>1, <2>3, <3>1, OwedNat, MembersType
    <3>3. QED
      BY <1>2, <1>3, <1>5, <2>1, <2>5, <3>2, PaidIf DEF NoFault, log
  <2>6. QED
    BY <2>4, <2>5
<1>6. CASE Answer(t, "error", 0) /\ Fault({t}) /\ UNCHANGED <<issued, live>>
  <2>1. Better
    BY <1>1, <1>6, BetterIfSame
  <2>2. wire'[t].reply = "error"
    BY <1>0, <1>6 DEF Answer, CallsOK
  <2>3. Place(t)' = "home"
    BY <1>1, <2>2 DEF Place, Reply
  <2>4. QED
    BY <1>1, <1>2, <1>6, <2>1, <2>3, ChargedIfHome DEF Fault
<1>7. QED
  BY <1>4, <1>5, <1>6 DEF ServeSession

\* The answer to the probe or to the request leaves the task where it was.
LEMMA PaysServe ==
  ASSUME TInv, NEW t \in Tasks, ServeProbe(t) \/ ServeRequest(t)
  PROVE  Paid
<1>0. LogOK /\ BmcOK
  BY DEF TInv
<1>1. /\ pc[t] \in {"probe", "request"} /\ pc' = pc /\ loc' = loc
      /\ UNCHANGED <<client, pool, live, issued, password>>
      /\ NoFault \/ Fault({t})
  BY DEF ServeProbe, ServeRequest, bmc
<1>2. faults <= faults'
  BY <1>0, <1>1 DEF NoFault, log, Fault, LogOK
<1>3. Better /\ Mood' = Mood /\ StepOf(t)
  BY <1>1, BetterIfSame, MoodSame DEF StepOf, Serve
<1>4. Place(t)' = Place(t)
  <2>1. PICK c : c = loc[t].cred
    OBVIOUS
  <2>2. Accepts(loc[t].cred)' = Accepts(loc[t].cred)
    BY <1>1 DEF Accepts
  <2>3. IsRetry(t)' = IsRetry(t)
    BY <1>1 DEF IsRetry
  <2>4. CASE pc[t] = "probe"
    BY <1>1, <2>3, <2>4 DEF Place
  <2>5. CASE pc[t] = "request"
    BY <1>1, <2>2, <2>3, <2>5 DEF Place
  <2>6. QED
    BY <1>1, <2>4, <2>5
<1>5. issued \in Nat
  BY <1>0 DEF BmcOK
<1>6. Owed(Place(t)', Mood') + (issued' - issued) <= Owed(Place(t), Mood)
  BY <1>1, <1>3, <1>4, <1>5, OwedNat, MembersType
<1>7. QED
  BY <1>1, <1>2, <1>3, <1>6, PaidIf

LEMMA PaysLose ==
  ASSUME TInv, NEW t \in Tasks, Lose(t)
  PROVE  Paid \/ Charged
<1>0. LogOK /\ BmcOK /\ CallsOK
  BY DEF TInv
<1>1. /\ pc[t] \in {"session", "probe", "request"} /\ Reply(t) # "lost" /\ pc' = pc /\ loc' = loc
      /\ wire'[t].reply = "lost"
      /\ UNCHANGED <<client, pool, live, issued, password>>
      /\ IF WireConn(t) \in open THEN Fault({t}) ELSE NoFault
  BY <1>0 DEF Lose, OnWire, Answer, CallsOK, bmc
<1>2. faults \in Nat /\ issued \in Nat
  BY <1>0 DEF LogOK, BmcOK
<1>3. Better /\ Mood' = Mood /\ StepOf(t)
  BY <1>1, BetterIfSame, MoodSame DEF StepOf
<1>4. CASE pc[t] = "session"
  <2>1. Place(t)' = "home"
    BY <1>1, <1>4 DEF Place, Reply
  <2>2. CASE WireConn(t) \in open
    BY <1>1, <1>3, <2>1, <2>2, ChargedIfHome DEF Fault
  <2>3. CASE WireConn(t) \notin open
    <3>1. loc[t].loginConn \notin open
      BY <1>4, <2>3 DEF WireConn
    <3>2. Place(t) \in {"home", "cut", "falling"}
      BY <1>4, <3>1 DEF Place
    <3>3. /\ Owed("home", Mood) <= Owed("cut", Mood) /\ Owed("home", Mood) <= Owed("falling", Mood)
          /\ Owed("home", Mood) \in Nat
      BY MoodType, OwedAgainst, MembersType
    <3>4. Owed(Place(t)', Mood') + (issued' - issued) <= Owed(Place(t), Mood)
      BY <1>1, <1>2, <1>3, <2>1, <3>2, <3>3
    <3>5. faults <= faults'
      BY <1>1, <1>2, <2>3 DEF NoFault, log
    <3>6. QED
      BY <1>1, <1>3, <3>4, <3>5, PaidIf
  <2>4. QED
    BY <2>2, <2>3
<1>5. CASE pc[t] \in {"probe", "request"}
  <2>1. Place(t)' = Place(t)
    <3>1. Accepts(loc[t].cred)' = Accepts(loc[t].cred)
      BY <1>1 DEF Accepts
    <3>2. IsRetry(t)' = IsRetry(t)
      BY <1>1 DEF IsRetry
    <3>3. CASE pc[t] = "probe"
      BY <1>1, <3>2, <3>3 DEF Place
    <3>4. CASE pc[t] = "request"
      BY <1>1, <3>1, <3>2, <3>4 DEF Place
    <3>5. QED
      BY <1>5, <3>3, <3>4
  <2>2. Owed(Place(t)', Mood') + (issued' - issued) <= Owed(Place(t), Mood)
    BY <1>1, <1>2, <1>3, <2>1, OwedNat, MembersType
  <2>3. faults <= faults'
    BY <1>1, <1>2 DEF NoFault, log, Fault
  <2>4. QED
    BY <1>1, <1>3, <2>2, <2>3, PaidIf
<1>6. QED
  BY <1>1, <1>4, <1>5

-----------------------------------------------------------------------------
\* What a place costs more when an httpx client is closed, or a credential is
\* not accepted any more.
Near(p, q) == \A m \in Moods : Owed(p, m) <= Owed(q, m) + Members

LEMMA NearPlaces ==
  /\ \A p \in Places : Near(p, p)
  /\ Near("exposed", "asking") /\ Near("cut", "asking") /\ Near("home", "granted")
  /\ Near("falling", "dead")
  /\ Near("asking", "exposed") /\ Near("asking", "cut") /\ Near("granted", "home")
  /\ Near("dead", "falling")
<1>1. \A p \in Places : Near(p, p)
  BY OwedType, MembersType DEF Near
<1>2. /\ Near("exposed", "asking") /\ Near("cut", "asking") /\ Near("home", "granted")
      /\ Near("falling", "dead")
      /\ Near("asking", "exposed") /\ Near("asking", "cut") /\ Near("granted", "home")
      /\ Near("dead", "falling")
  BY MembersType DEF Near, Owed, Moods
<1>3. QED
  BY <1>1, <1>2

LEMMA PlaceNear ==
  ASSUME NEW u \in Tasks, pc'[u] = pc[u], loc'[u] = loc[u], wire'[u] = wire[u],
         live' = live, password' = password
  PROVE  Near(Place(u)', Place(u))
<1>0. /\ Reply(u)' = Reply(u)
      /\ IsRetry(u)' = IsRetry(u)
      /\ Accepts(loc[u].cred)' = Accepts(loc[u].cred)
  BY DEF Reply, IsRetry, Accepts
<1>1. CASE pc[u] = "password"
  <2>1. Place(u) \in {"exposed", "asking"} /\ Place(u)' \in {"exposed", "asking"}
    BY <1>1 DEF Place
  <2>2. QED
    BY <2>1, NearPlaces DEF Places
<1>2. CASE pc[u] = "session" /\ Reply(u) = "none" /\ loc[u].pw = password
  <2>1. Place(u) \in {"cut", "asking"} /\ Place(u)' \in {"cut", "asking"}
    BY <1>0, <1>2 DEF Place
  <2>2. Near("cut", "cut") /\ Near("asking", "asking")
    BY NearPlaces DEF Places
  <2>3. QED
    BY <2>1, <2>2, NearPlaces
<1>3. CASE pc[u] = "session" /\ Reply(u) = "token" /\ wire[u].grant \in live
  <2>1. Place(u) \in {"granted", "home"} /\ Place(u)' \in {"granted", "home"}
    BY <1>0, <1>3 DEF Place
  <2>2. Near("granted", "granted") /\ Near("home", "home")
    BY NearPlaces DEF Places
  <2>3. QED
    BY <2>1, <2>2, NearPlaces
<1>4. CASE pc[u] = "session" /\ Reply(u) = "token" /\ wire[u].grant \notin live
  <2>1. Place(u) \in {"dead", "falling"} /\ Place(u)' \in {"dead", "falling"}
    BY <1>0, <1>4 DEF Place
  <2>2. Near("dead", "dead") /\ Near("falling", "falling")
    BY NearPlaces DEF Places
  <2>3. QED
    BY <2>1, <2>2, NearPlaces
<1>5. CASE \/ pc[u] # "session" /\ pc[u] # "password"
           \/ pc[u] = "session" /\ Reply(u) # "token" /\ ~ (Reply(u) = "none" /\ loc[u].pw = password)
  <2>1. Place(u)' = Place(u)
    <3>1. CASE pc[u] # "session" /\ pc[u] # "password"
      BY <1>0, <3>1 DEF Place
    <3>2. CASE pc[u] = "session" /\ Reply(u) # "token" /\ ~ (Reply(u) = "none" /\ loc[u].pw = password)
      BY <1>0, <3>2 DEF Place
    <3>3. QED
      BY <1>5, <3>1, <3>2
  <2>2. QED
    BY <2>1, PlaceType, NearPlaces
<1>6. QED
  BY <1>1, <1>2, <1>3, <1>4, <1>5

LEMMA ChargedClose ==
  ASSUME TInv, NEW t \in Tasks, Close(t)
  PROVE  Charged
<1>0. CallsOK
  BY DEF TInv
<1>1. /\ pc[t] = "idle" /\ loc' = loc /\ wire' = wire /\ faults' = faults + 1
      /\ pc'[t] \in {"idle", "closing"} /\ \A u \in Tasks \ {t} : pc'[u] = pc[u]
      /\ UNCHANGED <<client, live, issued, password>>
  BY <1>0 DEF Close, Fault, bmc, CallsOK
<1>2. Mood' = Mood
  BY <1>1, MoodSame
<1>3. ASSUME NEW u \in Tasks PROVE Near(Place(u)', Place(u))
  <2>1. CASE u = t
    <3>1. Place(u)' = "home" /\ Place(u) = "home"
      BY <1>1, <2>1, HomeIfIdle DEF Place
    <3>2. QED
      BY <3>1, NearPlaces DEF Places
  <2>2. CASE u # t
    BY <1>1, <2>2, PlaceNear
  <2>3. QED
    BY <2>1, <2>2
<1>4. \A u \in Tasks : Owed(Place(u)', Mood') <= Owed(Place(u), Mood) + Members
  BY <1>2, <1>3, MoodType DEF Near
<1>5. QED
  BY <1>1, <1>4, ChargedIfAll

LEMMA ChargedAge ==
  ASSUME TInv, Age
  PROVE  Charged
<1>1. /\ pc' = pc /\ loc' = loc /\ wire' = wire /\ faults' = faults + 1
      /\ UNCHANGED <<pool, live, issued, password>>
  BY DEF Age, Fault, bmc
<1>2. ASSUME NEW u \in Tasks
      PROVE  Owed(Place(u)', Mood') <= Owed(Place(u), Mood) + Members
  <2>1. Place(u)' = Place(u)
    BY <1>1 DEF Place, Reply, IsRetry, Accepts, HttpClosed, pool
  <2>2. Mood' \in Moods
    BY DEF Mood, Moods
  <2>3. QED
    BY <2>1, <2>2, PlaceType, MoodType, OwedMoods
<1>3. QED
  BY <1>1, <1>2, ChargedIfAll

-----------------------------------------------------------------------------
\* A session that expires under a login that has not been told of it yet is
\* in nobody else's hands.
LEMMA ChargedExpire ==
  ASSUME TInv, TokenInv, NEW s \in live, Expire(s)
  PROVE  Charged
<1>0. ClientOK /\ BmcOK
  BY DEF TInv
<1>1. /\ pc' = pc /\ loc' = loc /\ wire' = wire /\ faults' = faults + 1 /\ live' = live \ {s}
      /\ UNCHANGED <<client, pool, issued, password>>
  BY DEF Expire, Fault
<1>2. NeedsLogin(session_token)' = NeedsLogin(session_token)
  BY <1>1 DEF NeedsLogin, TokenFresh, client
<1>3. ASSUME NEW u \in Tasks
      PROVE  /\ Reply(u)' = Reply(u) /\ IsRetry(u)' = IsRetry(u)
             /\ loc[u].cred.mode # "session" \/ loc[u].cred.val # s =>
                  Accepts(loc[u].cred)' = Accepts(loc[u].cred)
  <2>1. PICK c : c = loc[u].cred
    OBVIOUS
  <2>2. c.mode # "session" \/ c.val # s => Accepts(c)' = Accepts(c)
    BY <1>1 DEF Accepts
  <2>3. QED
    BY <1>1, <2>1, <2>2 DEF Reply, IsRetry, Accepts
<1>4. ASSUME NEW t \in Tasks, pc[t] = "session", Granted(t), wire[t].grant = s
      PROVE  Charged
  <2>1. Mood' = Mood
    <3>1. session_token # s
      BY <1>4 DEF TokenInv
    <3>2. QED
      BY <1>1, <1>2, <3>1 DEF Mood, client
  <2>2. ASSUME NEW u \in Tasks \ {t} PROVE Place(u)' = Place(u)
    <3>1. Granted(u) => wire[u].grant # s
      BY <1>4 DEF TokenInv
    <3>2. loc[u].cred.mode # "session" \/ loc[u].cred.val # s
      BY <1>4 DEF TokenInv, Unused
    <3>3. Accepts(loc[u].cred)' = Accepts(loc[u].cred)
      BY <1>3, <3>2
    <3>4. Reply(u) = "token" => (wire[u].grant \in live' <=> wire[u].grant \in live)
      BY <1>1, <3>1 DEF Granted
    <3>5. CASE pc[u] = "session" /\ Reply(u) = "token"
      BY <1>1, <1>3, <3>4, <3>5 DEF Place, pool
    <3>6. CASE ~ (pc[u] = "session" /\ Reply(u) = "token")
      BY <1>1, <1>3, <3>3, <3>6 DEF Place, HttpClosed, pool
    <3>7. QED
      BY <3>5, <3>6
  <2>3. Owed(Place(t)', Mood) <= Owed(Place(t), Mood) + Square
    <3>1. wire[t].grant \in live /\ wire[t].grant \notin live' /\ Reply(t) = "token"
      BY <1>1, <1>4 DEF Granted
    <3>2. CASE loc[t].loginConn \in open
      <4>1. Place(t) = "granted" /\ Place(t)' = "dead"
        BY <1>1, <1>3, <1>4, <3>1, <3>2 DEF Place, pool
      <4>2. Owed("dead", Mood) <= Owed("granted", Mood) + Square
        BY MoodType, MembersType DEF Owed, Moods
      <4>3. QED
        BY <4>1, <4>2
    <3>3. CASE loc[t].loginConn \notin open
      <4>1. Place(t) = "home" /\ Place(t)' = "falling"
        BY <1>1, <1>3, <1>4, <3>1, <3>3 DEF Place, pool
      <4>2. Owed("falling", Mood) <= Owed("home", Mood) + Square
        BY MoodType, MembersType DEF Owed, Moods
      <4>3. QED
        BY <4>1, <4>2
    <3>4. QED
      BY <3>2, <3>3
  <2>4. Owing'[t] <= Owing[t] + Square
    BY <2>1, <2>3, OwingAt
  <2>5. ASSUME NEW u \in Tasks \ {t} PROVE Owing'[u] <= Owing[u]
    BY <2>1, <2>2, OwingAt, OwedNat, MembersType
  <2>6. Total(Owing') <= Total(Owing) + Square
    BY <2>4, <2>5, OwingAt, TotalRisesAt, MembersType
  <2>7. QED
    BY <1>1, <2>6, OwingAt DEF Charged
<1>5. ASSUME \A t \in Tasks : ~ (pc[t] = "session" /\ Granted(t) /\ wire[t].grant = s)
      PROVE  Charged
  <2>1. Mood' = Mood \/ (Mood = "good" /\ Mood' = "stale")
    BY <1>1, <1>2 DEF Mood, client
  <2>2. ASSUME NEW u \in Tasks
        PROVE  Place(u)' = Place(u) \/ (Place(u) = "home" /\ Place(u)' = "refused")
    <3>1. CASE pc[u] = "session" /\ Reply(u) = "token"
      <4>1. wire[u].grant \in live' <=> wire[u].grant \in live
        BY <1>1, <1>5, <3>1 DEF Granted
      <4>2. QED
        BY <1>1, <1>3, <3>1, <4>1 DEF Place, pool
    <3>2. CASE pc[u] = "request"
      <4>1. Accepts(loc[u].cred)' => Accepts(loc[u].cred)
        <5>1. PICK c : c = loc[u].cred
          OBVIOUS
        <5>2. Accepts(c)' => Accepts(c)
          BY <1>1 DEF Accepts
        <5>3. QED
          BY <1>1, <5>1, <5>2 DEF Accepts
      <4>2. /\ Place(u) = (IF IsRetry(u) \/ Accepts(loc[u].cred) THEN "home" ELSE "refused")
            /\ Place(u)' = (IF IsRetry(u) \/ Accepts(loc[u].cred)' THEN "home" ELSE "refused")
        BY <1>1, <1>3, <3>2 DEF Place
      <4>3. QED
        BY <4>1, <4>2
    <3>3. CASE pc[u] # "request" /\ ~ (pc[u] = "session" /\ Reply(u) = "token")
      BY <1>1, <1>3, <3>3 DEF Place, HttpClosed, pool
    <3>4. QED
      BY <3>1, <3>2, <3>3
  <2>3. ASSUME NEW u \in Tasks
        PROVE  Owed(Place(u)', Mood') <= Owed(Place(u), Mood) + Members
    <3>1. CASE Place(u)' = Place(u)
      <4>1. Mood' \in Moods
        BY DEF Mood, Moods
      <4>2. QED
        BY <3>1, <4>1, PlaceType, MoodType, OwedMoods
    <3>2. CASE Place(u) = "home" /\ Place(u)' = "refused"
      <4>1. /\ Owed("refused", Mood) <= Owed("home", Mood) + Members
            /\ Owed("refused", "stale") <= Owed("home", "good") + Members
        BY MoodType, MembersType DEF Owed, Moods
      <4>2. QED
        BY <2>1, <3>2, <4>1
    <3>3. QED
      BY <2>2, <3>1, <3>2
  <2>4. QED
    BY <1>1, <2>3, ChargedIfAll
<1>6. QED
  BY <1>4, <1>5

\* A new password refuses every request and login with the old one.
ChargedTwice ==
  /\ issued' = issued /\ faults' = faults + 1 /\ password' = password + 1
  /\ Total(Owing)' <= Total(Owing) + Members * Square

LEMMA ChargedRotate ==
  ASSUME TInv, Rotate
  PROVE  ChargedTwice
<1>0. ClientOK /\ BmcOK
  BY DEF TInv
<1>1. /\ pc' = pc /\ loc' = loc /\ wire' = wire /\ faults' = faults + 1
      /\ password' = password + 1 /\ password \in Nat
      /\ UNCHANGED <<client, pool, live, issued>>
  BY <1>0 DEF Rotate, Fault, BmcOK
<1>2. NeedsLogin(session_token)' = NeedsLogin(session_token)
  BY <1>1 DEF NeedsLogin, TokenFresh, client
<1>3. Mood' = Mood \/ (Mood # "bad" /\ Mood' \in {"good", "stale"})
  BY <1>2 DEF Mood
<1>4. ASSUME NEW u \in Tasks
      PROVE  \/ Place(u)' = Place(u)
             \/ Place(u) \in {"asking", "cut"} /\ Place(u)' = "falling"
             \/ Place(u) \in {"home", "refused"} /\ Place(u)' \in {"home", "refused"}
  <2>1. Reply(u)' = Reply(u) /\ IsRetry(u)' = IsRetry(u)
    BY <1>1 DEF Reply, IsRetry
  <2>2. CASE pc[u] = "session" /\ Reply(u) = "none"
    <3>1. loc[u].pw \in 0..password
      BY DEF TInv, PerCall
    <3>2. loc[u].pw # password'
      BY <1>1, <3>1
    <3>3. Place(u)' = "falling"
      BY <1>1, <2>1, <2>2, <3>2 DEF Place
    <3>4. Place(u) \in {"asking", "cut", "falling"}
      BY <2>2 DEF Place
    <3>5. QED
      BY <3>3, <3>4
  <2>3. CASE pc[u] = "request"
    <3>1. Place(u) \in {"home", "refused"} /\ Place(u)' \in {"home", "refused"}
      BY <1>1, <2>3 DEF Place
    <3>2. QED
      BY <3>1
  <2>4. CASE pc[u] # "request" /\ ~ (pc[u] = "session" /\ Reply(u) = "none")
    BY <1>1, <2>1, <2>4 DEF Place, HttpClosed, pool
  <2>5. QED
    BY <2>2, <2>3, <2>4
<1>5. ASSUME NEW u \in Tasks
      PROVE  Owed(Place(u)', Mood') <= Owed(Place(u), Mood) + Square
  <2>1. Mood' \in Moods
    BY DEF Mood, Moods
  <2>2. CASE Place(u)' = Place(u)
    <3>1. Owed(Place(u)', Mood') <= Owed(Place(u), Mood) + Members
      BY <2>1, <2>2, PlaceType, MoodType, OwedMoods
    <3>2. QED
      BY <3>1, OwedNat, MembersType
  <2>3. CASE Place(u) \in {"asking", "cut"} /\ Place(u)' = "falling"
    <3>1. CASE Mood' = Mood
      <4>1. /\ Owed("falling", Mood) <= Owed("asking", Mood) + Square
            /\ Owed("falling", Mood) <= Owed("cut", Mood) + Square
        BY MoodType, MembersType DEF Owed, Moods
      <4>2. QED
        BY <2>3, <3>1, <4>1
    <3>2. CASE Mood # "bad" /\ Mood' \in {"good", "stale"}
      <4>1. Owed("falling", "good") = Square /\ Owed("falling", "stale") = Square
        BY DEF Owed
      <4>2. QED
        BY <2>3, <3>2, <4>1, OwedNat, MembersType
    <3>3. QED
      BY <1>3, <3>1, <3>2
  <2>4. CASE Place(u) \in {"home", "refused"} /\ Place(u)' \in {"home", "refused"}
    <3>1. CASE Mood' = Mood
      <4>1. ASSUME NEW p \in {"home", "refused"}, NEW q \in {"home", "refused"}
            PROVE  Owed(p, Mood) <= Owed(q, Mood) + Members
        BY MoodType, MembersType DEF Owed, Moods
      <4>2. Owed(Place(u)', Mood') <= Owed(Place(u), Mood) + Members
        BY <2>4, <3>1, <4>1
      <4>3. QED
        BY <4>2, OwedNat, MembersType
    <3>2. CASE Mood # "bad" /\ Mood' \in {"good", "stale"}
      <4>1. /\ Owed("home", "good") <= Members /\ Owed("refused", "good") <= Members
            /\ Owed("home", "stale") <= Members /\ Owed("refused", "stale") <= Members
        BY MembersType DEF Owed
      <4>2. Owed(Place(u)', Mood') <= Members
        BY <2>4, <3>2, <4>1
      <4>3. QED
        BY <4>2, OwedNat, MembersType
    <3>3. QED
      BY <1>3, <3>1, <3>2
  <2>5. QED
    BY <1>4, <2>2, <2>3, <2>4
<1>6. \A u \in Tasks : Owing'[u] <= Owing[u] + Square
  BY <1>5, OwingAt
<1>7. Total(Owing') <= Total(Owing) + Members * Square
  BY <1>6, OwingAt, TotalRises, MembersType
<1>8. QED
  BY <1>1, <1>7, OwingAt DEF ChargedTwice

-----------------------------------------------------------------------------
LEMMA CountStep ==
  ASSUME TInv, TokenInv, WhyInv, service, [Next]_vars
  PROVE  Paid \/ Charged \/ ChargedTwice
<1>1. ASSUME NEW t \in Tasks, StepOf(t) PROVE Paid \/ Charged
  <2>1. Informed(t)
    BY DEF WhyInv
  <2>2. CASE (\E k \in Kinds : Call(t, k)) \/ Close(t) \/ Cancel(t) \/ Lose(t) \/ Serve(t)
    BY <2>2, PaysCall, ChargedClose, ChargedStops, PaysLose, PaysServe, PaysServeSession DEF Serve
  <2>3. CASE Resume(t)
    BY <2>1, <2>3, PaysResolvePassword, ChargedStops, PaysTokenGranted, PaysFallBack, PaysEnd,
       PaysProbeAccepted, PaysRetry, PaysCloseDone DEF Resume
  <2>4. QED
    BY <1>1, <2>2, <2>3 DEF StepOf
<1>2. CASE (\E s \in live : Expire(s)) \/ Age \/ Rotate
  BY <1>2, ChargedExpire, ChargedAge, ChargedRotate
<1>3. CASE UNCHANGED vars
  <2>1. Owing' = Owing /\ issued' = issued /\ faults' = faults /\ password' = password
    <3>1. ASSUME NEW u \in Tasks PROVE Place(u)' = Place(u)
      BY <1>3 DEF vars, pool, bmc, Place, Reply, IsRetry, Accepts, HttpClosed
    <3>2. Mood' = Mood
      BY <1>3, MoodSame DEF vars, bmc
    <3>3. Owing' = [t \in Tasks |-> Owed(Place(t)', Mood')]
      BY DEF Owing, Owed
    <3>4. Owing = [t \in Tasks |-> Owed(Place(t), Mood)]
      BY DEF Owing
    <3>5. QED
      BY <1>3, <3>1, <3>2, <3>3, <3>4 DEF vars, bmc, log
  <2>2. issued \in Nat /\ faults \in Nat
    BY DEF TInv, BmcOK, LogOK
  <2>3. QED
    BY <2>1, <2>2, OwingAt DEF Paid
<1>4. QED
  BY <1>1, <1>2, <1>3 DEF Next, StepOf

\* Without SessionService nothing is issued.
LEMMA NothingIssued ==
  ASSUME TInv, [Next]_vars
  PROVE  service' = service /\ (~ service => issued' = issued)
BY DEF Next, Call, Resume, ResolvePassword, PasswordFails, TokenGranted, FallBack, LoginFails,
   ProbeAccepted, ProbeFails, Retry, RequestDone, RequestLost, CloseDone, Close, Cancel, Lose,
   Serve, ServeSession, ServeProbe, ServeRequest, Expire, Age, Rotate, vars, bmc

Cube == Members * Square - Square

SessionInv ==
  IF service
  THEN issued - CtorToken + Total(Owing) <= Members + Square * faults + Cube * (password - 1)
  ELSE issued = CtorToken

LEMMA CubeType == Cube \in Nat /\ Members * Square = Cube + Square
<1>1. ASSUME NEW m \in Nat, NEW q \in Nat, 1 <= m PROVE m * q \in Nat /\ q <= m * q
  <2>1. PICK r \in Nat : m = 1 + r
    BY <1>1
  <2>2. m * q = q + r * q /\ r * q \in Nat
    BY <2>1
  <2>3. QED
    BY <2>2
<1>2. QED
  BY <1>1, MembersType DEF Cube

LEMMA SessionInit == Init => SessionInv
<1> SUFFICES ASSUME Init, service
             PROVE  issued - CtorToken + Total(Owing) <= Members + Square * faults + Cube * (password - 1)
  BY DEF Init, SessionInv
<1>1. issued = CtorToken /\ faults = 0 /\ password = 1 /\ auth_mode = "unknown"
      /\ \A t \in Tasks : pc[t] = "idle"
  BY DEF Init
<1>2. Mood = "bad" /\ \A t \in Tasks : Place(t) = "home"
  BY <1>1 DEF Mood, NeedsLogin, Place
<1> DEFINE z == [t \in Tasks |-> 0]
<1>3. z \in Weights /\ \A t \in Tasks : z[t] = 0
  BY MembersType DEF Weights
<1> HIDE DEF z
<1>4. Columns(z) = {}
  <2>1. ASSUME NEW p \in Columns(z) PROVE FALSE
    <3>1. p \in Tasks \X (1..Most) /\ p[2] <= z[p[1]]
      BY DEF Columns
    <3>2. p[1] \in Tasks /\ p[2] \in 1..Most
      BY <3>1
    <3>3. QED
      BY <1>3, <3>1, <3>2, MembersType
  <2>2. QED
    BY <2>1
<1>5. Total(z) = 0
  BY <1>4, FS_EmptySet DEF Total
<1>6. \A t \in Tasks : Owing[t] <= z[t] + 1
  BY <1>2, <1>3, OwingAt, OwedAgainst DEF Moods
<1>7. Total(Owing) <= Total(z) + Members * 1
  BY <1>3, <1>6, OwingAt, TotalRises
<1>8. Square * 0 = 0 /\ Cube * 0 = 0
  BY MembersType, CubeType
<1>9. CtorToken \in Nat
  BY RedfishAssumption
<1>10. QED
  BY <1>1, <1>5, <1>7, <1>8, <1>9, OwingAt, MembersType

LEMMA Balance ==
  ASSUME NEW i \in Nat, NEW j \in Nat, NEW c \in Nat, NEW x \in Nat, NEW y \in Nat,
         NEW m \in Nat, NEW a \in Nat, NEW b \in Nat, NEW k \in Nat, NEW l \in Nat, NEW e \in Nat,
         i - c + x <= m + a + b, j + y <= i + x + e, a + b + e <= k + l
  PROVE  j - c + y <= m + k + l
OBVIOUS

LEMMA Ahead ==
  ASSUME NEW x \in Nat, NEW y \in Nat, x <= y
  PROVE  \E d \in Nat : y = x + d
<1>1. y - x \in Nat /\ y = x + (y - x)
  OBVIOUS
<1>2. QED
  BY <1>1

LEMMA SessionStep ==
  ASSUME TInv, TInv', TokenInv, WhyInv, SessionInv, [Next]_vars
  PROVE  SessionInv'
<1>1. CASE ~ service
  BY <1>1, NothingIssued DEF SessionInv
<1>2. CASE service
  <2> DEFINE a == Square * faults
  <2> DEFINE b == Cube * (password - 1)
  <2>0. /\ issued \in Nat /\ faults \in Nat /\ password \in Nat /\ password >= 1
        /\ issued' \in Nat /\ faults' \in Nat /\ password' \in Nat
    BY DEF TInv, BmcOK, LogOK
  <2>1. service' /\ issued - CtorToken + Total(Owing) <= Members + a + b
    BY <1>2, NothingIssued DEF SessionInv
  <2>2. a \in Nat /\ b \in Nat
    BY <2>0, MembersType, CubeType
  <2>3. Square * (faults + 1) = a + Square
    BY <2>0, MembersType
  <2>4. Cube * ((password + 1) - 1) = b + Cube
    BY <2>0, CubeType
  <2>5. CtorToken \in Nat
    BY RedfishAssumption
  <2> DEFINE k == Square * faults'
  <2> DEFINE l == Cube * (password' - 1)
  <2>6. \E e \in Nat : /\ k \in Nat /\ l \in Nat /\ a + b + e <= k + l
                       /\ issued' + Total(Owing)' <= issued + Total(Owing) + e
    <3>1. CASE Paid
      <4>1. faults <= faults' /\ issued' + Total(Owing)' <= issued + Total(Owing) /\ l = b
        BY <3>1 DEF Paid
      <4>2. PICK x \in Nat : faults' = faults + x
        BY <2>0, <4>1, Ahead
      <4>3. k = a + Square * x /\ Square * x \in Nat
        BY <2>0, <4>2, MembersType
      <4> HIDE DEF a, b, k, l
      <4>4. k \in Nat /\ l \in Nat /\ a + b + 0 <= k + l
        BY <2>2, <4>1, <4>3
      <4>5. issued' + Total(Owing)' <= issued + Total(Owing) + 0
        BY <2>0, <4>1, OwingAt
      <4>6. QED
        BY <4>4, <4>5
    <3>2. CASE Charged
      <4>1. k = a + Square /\ l = b
        BY <2>3, <3>2 DEF Charged
      <4>2. issued' = issued /\ Total(Owing)' <= Total(Owing) + Square
        BY <3>2 DEF Charged
      <4> HIDE DEF a, b, k, l
      <4>3. k \in Nat /\ l \in Nat /\ a + b + Square <= k + l
        BY <2>2, <4>1, MembersType
      <4>4. issued' + Total(Owing)' <= issued + Total(Owing) + Square
        BY <2>0, <4>2, OwingAt, MembersType
      <4>5. QED
        BY <4>3, <4>4, MembersType
    <3>3. CASE ChargedTwice
      <4>1. k = a + Square /\ l = b + Cube
        BY <2>3, <2>4, <3>3 DEF ChargedTwice
      <4>2. issued' = issued /\ Total(Owing)' <= Total(Owing) + (Cube + Square)
        BY <3>3, CubeType DEF ChargedTwice
      <4> HIDE DEF a, b, k, l
      <4>3. k \in Nat /\ l \in Nat /\ a + b + (Cube + Square) <= k + l /\ Cube + Square \in Nat
        BY <2>2, <4>1, MembersType, CubeType
      <4>4. issued' + Total(Owing)' <= issued + Total(Owing) + (Cube + Square)
        BY <2>0, <4>2, OwingAt, MembersType, CubeType
      <4>5. QED
        BY <4>3, <4>4
    <3>4. QED
      BY <1>2, <3>1, <3>2, <3>3, CountStep
  <2> HIDE DEF a, b, k, l
  <2>7. issued' - CtorToken + Total(Owing)' <= Members + k + l
    BY <2>0, <2>1, <2>2, <2>5, <2>6, OwingAt, MembersType, Balance
  <2>8. issued' - CtorToken + Total(Owing)' <= Members' + Square' * faults' + Cube' * (password' - 1)
    BY <2>7 DEF k, l, Members, Square, Cube
  <2>9. QED
    BY <2>1, <2>8 DEF SessionInv
<1>3. QED
  BY <1>1, <1>2

\* Beyond one login per task, a fault costs each task at most one session for
\* every request that was in flight, and a change of the password one more
\* round of that for each of the other tasks (_ensure_auth, _login, the 401
\* handlers of _get, _post_action, _patch).
THEOREM SessionsAccountedHolds == Spec => []SessionsAccounted
<1> DEFINE Inv == TInv /\ TokenInv /\ WhyInv /\ SessionInv
<1>1. Init => Inv
  BY TInvInit, TokenInvInit, WhyInit, SessionInit
<1>2. Inv /\ [Next]_vars => Inv'
  BY TInvStep, TokenInvStep, WhyStep, SessionStep
<1>3. Inv => SessionsAccounted
  <2> SUFFICES ASSUME Inv PROVE SessionsAccounted
    OBVIOUS
  <2>1. /\ issued \in Nat /\ faults \in Nat /\ password \in Nat /\ password >= 1 /\ CtorToken \in Nat
    BY RedfishAssumption DEF TInv, BmcOK, LogOK
  <2> DEFINE m == Members
  <2> DEFINE p == password - 1
  <2>2. m \in Nat /\ m >= 1 /\ p \in Nat
    BY <2>1, MembersType
  <2>3. issued - CtorToken <= m + Square * faults + Cube * p
    <3>1. CASE service
      BY <2>1, <2>2, <3>1, OwingAt, MembersType, CubeType DEF SessionInv
    <3>2. CASE ~ service
      <4>1. issued = CtorToken
        BY <3>2 DEF SessionInv
      <4>2. Square * faults \in Nat /\ Cube * p \in Nat
        BY <2>1, <2>2, MembersType, CubeType
      <4>3. QED
        BY <2>1, <2>2, <4>1, <4>2
    <3>3. QED
      BY <3>1, <3>2
  <2>4. m * (1 + m * (faults + (m - 1) * p)) = m + (m * m) * faults + (m * (m * m) - m * m) * p
    <3> HIDE DEF m, p
    <3>1. QED
      BY <2>1, <2>2
  <2>5. QED
    BY <2>3, <2>4 DEF SessionsAccounted, Members, Square, Cube
<1>4. QED
  BY <1>1, <1>2, <1>3, PTL DEF Spec
=============================================================================
