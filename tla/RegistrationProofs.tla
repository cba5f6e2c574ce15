------------------------ MODULE RegistrationProofs ------------------------
(***************************************************************************)
(* What holds of Registration for any number of calls, of attempts, of     *)
(* decisions and of cuts.                                                  *)
(*                                                                         *)
(* The table of servers is written by handlers that looked at it in an     *)
(* earlier statement.  The properties follow from what each handler on its *)
(* way may still rely on while no statement came between: Settled says so  *)
(* for each place a handler, or the agent that waits for it, can be at.    *)
(***************************************************************************)
EXTENDS Registration, TLAPS

\* The handlers of Register that may still write.
Writing == {"key", "ip", "enroll", "create"}

\* Everything but the delay between reconnects, whose bounds are a matter of powers of two.
Formed ==
    /\ row \in Server /\ agent \in Process
    /\ calls \in [Calls -> Handler] /\ beats \in [Kinds -> Beat]
    /\ used \in 0 .. MaxCalls /\ fails \in Nat /\ raced \in BOOLEAN
    /\ agent.pc = "register" <=> agent.call # 0
    /\ agent.pc = "retry" => agent.attempt < MaxAttempts

\* The agent runs, or the reply that lets it run is on its way.
Admitted ==
    \/ agent.pc = "run"
    \/ agent.pc = "register" /\ calls[agent.call].pc = "done" /\ calls[agent.call].status = "active"

\* Approval: who lets an agent in saw a row the user had spoken about.  That row may be
\* deleted since, but then no registration is left that could make another.
Approved ==
    /\ row.status \in {"active", "offline"} => word # "none"
    /\ Exists /\ Beating({"validate", "update"}) => word # "none"
    /\ Admitted => IF Exists THEN word # "none" ELSE ~Registering(Writing)

\* Rejection: a heartbeat past its validation found a row that was not rejected.
StaysRejected ==
    /\ word = "rejected" => row.status = "rejected"
    /\ Beating({"update"}) => word # "rejected"

\* Who knows a token, or was validated, has a row, unless the user took it away.
HasRow ==
    /\ \A c \in Calls : calls[c].pc = "done" => revoked \/ (Exists /\ row.token = calls[c].token)
    /\ agent.pc = "poll" => revoked \/ (Exists /\ row.token = agent.token)
    /\ agent.pc = "run" => revoked \/ Exists
    /\ Beating({"validate", "update"}) => revoked \/ Exists
    /\ Beating({"refused"}) => revoked
    /\ agent.pc = "gone" => revoked \/ misrouted

Settled == Undisturbed => ~Registering({"enroll"}) /\ Approved /\ StaysRejected /\ HasRow

RejectedIsRevoked == row.status = "rejected" => revoked

\* The counters, the ghosts and the state of reconnecting, whatever the delay.
Bounded ==
    /\ fails \in 0 .. MaxFails /\ decisions \in 0 .. MaxDecisions /\ cuts \in 0 .. MaxCuts
    /\ word \in Decisions \cup {"none"} /\ revoked \in BOOLEAN /\ misrouted \in BOOLEAN
Linked ==
    \E d : link \in [reach : BOOLEAN, reconnecting : {"no", "waiting", "testing"},
                     count : 0 .. MaxCount, delay : {d}]

IInv == Formed /\ RejectedIsRevoked /\ Settled

----------------------------------------------------------------------------
\* The values the steps start from are well formed.
LEMMA EmptyTypes ==
    /\ NoRow \in Server /\ NoAgent \in Process /\ NoCall \in Handler /\ NoBeat \in Beat
    /\ NoAgent.pc = "none" /\ NoAgent.call = 0 /\ NoCall.pc = "free" /\ NoBeat.pc = "idle"
BY BoundsAssumption DEF NoRow, NoAgent, NoCall, NoBeat, Server, Process, Handler, Beat,
    Statuses, Decisions

\* What holds before the agent is installed.
LEMMA InitHolds == Init => IInv
<1> SUFFICES ASSUME Init PROVE IInv
    OBVIOUS
<1>1. Formed
    <2>1. calls \in [Calls -> Handler] /\ beats \in [Kinds -> Beat]
        BY EmptyTypes DEF Init
    <2>2. used \in 0 .. MaxCalls /\ fails \in Nat
        BY BoundsAssumption DEF Init
    <2>3. raced \in BOOLEAN
        BY DEF Init
    <2> QED
        BY <2>1, <2>2, <2>3, EmptyTypes DEF Init, Formed
<1>2. /\ row = NoRow /\ row.status = "none" /\ word = "none" /\ agent.pc = "none"
      /\ \A c \in Calls : calls[c].pc = "free"
      /\ \A k \in Kinds : beats[k].pc = "idle"
    BY EmptyTypes DEF Init, NoRow
<1>3. ~Registering({"enroll"}) /\ ~Beating({"validate", "update"}) /\ ~Beating({"update"})
      /\ ~Beating({"refused"}) /\ ~Admitted
    BY <1>2 DEF Registering, Beating, Admitted
<1>4. RejectedIsRevoked /\ Settled
    BY <1>2, <1>3 DEF RejectedIsRevoked, Settled, Approved, StaysRejected, HasRow, Exists
<1> QED
    BY <1>1, <1>4 DEF IInv

\* How a process ends: down or gone, with its key and nothing else.
LEMMA ExitTypes ==
    ASSUME agent \in Process, NEW status, Exit(status)
    PROVE  /\ agent' \in Process /\ agent'.call = 0
           /\ agent'.pc = IF status = 0 THEN "gone" ELSE "down"
<1>1. PICK pc \in {"gone", "down"}, key \in {"none", "issued", "mistyped"} :
          /\ agent' = [NoAgent EXCEPT !.pc = pc, !.key = key]
          /\ pc = IF status = 0 THEN "gone" ELSE "down"
    BY DEF Exit, Process
<1>2. agent' = [pc |-> pc, key |-> key, ip |-> FALSE, attempt |-> 0, call |-> 0, token |-> 0]
    BY <1>1 DEF NoAgent
<1>3. agent' \in Process /\ agent'.call = 0 /\ agent'.pc = pc
    BY <1>2, BoundsAssumption DEF Process
<1> QED
    BY <1>1, <1>3

\* The table of servers stays well formed.
LEMMA RowStep == Formed /\ [Next]_vars => row' \in Server
<1> SUFFICES ASSUME Formed, [Next]_vars PROVE row' \in Server
    OBVIOUS
<1> USE DEF counters, ghosts
<1>0. row \in Server
    BY DEF Formed
<1>1. CASE UNCHANGED row
    BY <1>0, <1>1
<1>2. CASE \E c \in Calls : Reenroll(c)
    <2>1. PICK c \in Calls : Reenroll(c)
        BY <1>2
    <2>2. \/ row' = row
          \/ row' = [row EXCEPT !.status = "active", !.token = c, !.stale = FALSE]
        BY <2>1 DEF Reenroll, UpdateServerForReenrollment
    <2>3. c \in 0 .. MaxCalls /\ "active" \in Statuses
        BY DEF Calls, Statuses, Decisions
    <2> QED
        BY <1>0, <2>2, <2>3 DEF Server
<1>3. CASE \E c \in Calls : CreateServer(c)
    <2>1. PICK c \in Calls : CreateServer(c)
        BY <1>3
    <2>2. calls[c].ip \in BOOLEAN /\ c \in 0 .. MaxCalls
        BY DEF Formed, Handler, Calls
    <2>3. ASSUME NEW token \in 0 .. MaxCalls, NEW ip \in BOOLEAN
          PROVE  [status |-> "pending", token |-> token, ip |-> ip, stale |-> FALSE] \in Server
        BY DEF Server, Statuses
    <2> QED
        BY <1>0, <2>1, <2>2, <2>3 DEF CreateServer, CreateServerWithIDAndAPIKey
<1>4. CASE \E k \in Kinds : UpdateBeat(k)
    <2>1. PICK k \in Kinds : UpdateBeat(k)
        BY <1>4
    <2>2. (row.ip \/ beats[k].ip) \in BOOLEAN
        OBVIOUS
    <2> QED
        BY <1>0, <2>1, <2>2 DEF UpdateBeat, UpdateServerHeartbeat, Server, Statuses, Decisions
<1>5. CASE HandleUpdateServerStatus
    BY <1>0, <1>5 DEF HandleUpdateServerStatus, UpdateServerStatus, Server, Statuses
<1>6. CASE HandleDeleteServer
    BY <1>6, EmptyTypes DEF HandleDeleteServer, DeleteServer
<1>7. CASE Age \/ MarkStaleServersOffline
    BY <1>0, <1>7 DEF Age, MarkStaleServersOffline, Server, Statuses
<1> QED
    BY <1>1, <1>2, <1>3, <1>4, <1>5, <1>6, <1>7, Zenon
    DEF Next, vars, Install, Launch, RetryRegister, CallRegister,
        RegisterTimesOut, ProxyAnswers, RegisterReturns, PollStatus, LookupKey, LookupAddress, CancelCall, SendHeartbeat,
        FlushToAPI, TimerCalls, CheckConnection, AttemptReconnect, TimerReturns, TestReturns,
        ValidateBeat, BeatTimesOut, CancelBeat, Crash, LoseConnection, RegainConnection

\* The process waits for a call exactly while it registers, and tries again only while
\* attempts are left.
LEMMA AgentStep ==
    Formed /\ [Next]_vars => /\ agent' \in Process /\ (agent'.pc = "register" <=> agent'.call # 0)
                             /\ (agent'.pc = "retry" => agent'.attempt < MaxAttempts)
<1> DEFINE Good(a) == /\ a \in Process /\ (a.pc = "register" <=> a.call # 0)
                      /\ (a.pc = "retry" => a.attempt < MaxAttempts)
<1> SUFFICES ASSUME Formed, [Next]_vars PROVE Good(agent')
    OBVIOUS
<1> USE DEF counters, ghosts
<1>0. Good(agent) /\ calls \in [Calls -> Handler] /\ used \in 0 .. MaxCalls /\ row \in Server
    BY DEF Formed
<1>1. CASE UNCHANGED agent
    BY <1>0, <1>1
<1>2. ASSUME NEW status, Exit(status) PROVE Good(agent')
    BY <1>0, <1>2, ExitTypes
<1>3. ASSUME RegisterError PROVE Good(agent')
    <2>1. CASE agent.attempt < MaxAttempts
        <3>1. agent' = [agent EXCEPT !.pc = "retry", !.call = 0] /\ 0 \in 0 .. MaxCalls
            BY <1>3, <2>1, BoundsAssumption DEF RegisterError
        <3>2. /\ agent' \in Process /\ agent'.pc = "retry" /\ agent'.call = 0
              /\ agent'.attempt = agent.attempt
            BY <1>0, <3>1 DEF Process
        <3> QED
            BY <2>1, <3>2
    <2> QED
        BY <1>2, <1>3, <2>1 DEF RegisterError
<1>4. CASE Install
    <2>1. PICK key \in {"issued", "mistyped"} :
              agent' = [pc |-> "down", key |-> key, ip |-> FALSE, attempt |-> 0, call |-> 0, token |-> 0]
        BY <1>4 DEF Install, NoAgent
    <2> QED
        BY <2>1, BoundsAssumption DEF Process
<1>5. ASSUME NEW attempt \in 0 .. MaxAttempts, NEW ip \in BOOLEAN, CallRegister(attempt, ip)
      PROVE  Good(agent')
    <2>1. used + 1 \in 0 .. MaxCalls /\ used + 1 # 0
        BY <1>0, <1>5, BoundsAssumption DEF CallRegister
    <2>2. agent' = [agent EXCEPT !.pc = "register", !.attempt = attempt, !.ip = ip, !.call = used + 1]
        BY <1>5 DEF CallRegister
    <2> QED
        BY <1>0, <2>1, <2>2 DEF Process
<1>6. CASE Launch
    BY <1>5, <1>6, BoundsAssumption DEF Launch, getPublicIP
<1>7. CASE RetryRegister
    <2>1. agent.attempt + 1 \in 0 .. MaxAttempts /\ agent.ip \in BOOLEAN
        BY <1>0, <1>7, BoundsAssumption DEF RetryRegister, Process
    <2> QED
        BY <1>5, <1>7, <2>1 DEF RetryRegister
<1>8. CASE RegisterTimesOut
    BY <1>3, <1>8 DEF RegisterTimesOut
<1>9. CASE RegisterReturns
    <2>1. CASE RegisterError
        BY <1>3, <2>1
    <2>2. CASE Exit(0) \/ Exit(1)
        BY <1>2, <2>2
    <2>3. CASE agent' = [agent EXCEPT !.pc = IF calls[agent.call].status = "active" THEN "run" ELSE "poll",
                                      !.token = calls[agent.call].token, !.call = 0]
        <3>1. agent.call \in Calls
            BY <1>0, <1>9 DEF RegisterReturns, Process, Calls
        <3>2. calls[agent.call].token \in 0 .. MaxCalls
            BY <1>0, <3>1 DEF Handler
        <3>3. (IF calls[agent.call].status = "active" THEN "run" ELSE "poll") \in {"run", "poll"}
            OBVIOUS
        <3>4. PICK pc \in {"run", "poll"}, token \in 0 .. MaxCalls :
                  agent' = [agent EXCEPT !.pc = pc, !.token = token, !.call = 0]
            BY <2>3, <3>2, <3>3
        <3>5. 0 \in 0 .. MaxCalls
            BY BoundsAssumption
        <3>6. agent' \in Process /\ agent'.pc = pc /\ agent'.call = 0
            BY <1>0, <3>4, <3>5 DEF Process
        <3> QED
            BY <3>6
    <2> QED
        BY <1>9, <2>1, <2>2, <2>3 DEF RegisterReturns
<1>10. CASE PollStatus
    <2>1. CASE Exit(0)
        BY <1>2, <2>1
    <2>2. CASE agent' = [agent EXCEPT !.pc = "run"] /\ agent.pc = "poll"
        BY <1>0, <2>2 DEF Process
    <2> QED
        BY <1>10, <2>1, <2>2 DEF PollStatus
<1>11. CASE TimerReturns \/ Crash
    BY <1>1, <1>2, <1>11 DEF TimerReturns, Crash, Leave
<1> QED
    BY <1>1, <1>4, <1>6, <1>7, <1>8, <1>9, <1>10, <1>11, Zenon
    DEF Next, vars, ProxyAnswers, LookupKey, LookupAddress, Reenroll, CreateServer, CancelCall, SendHeartbeat,
        FlushToAPI, TimerCalls, CheckConnection, AttemptReconnect, TestReturns, ValidateBeat,
        UpdateBeat, BeatTimesOut, CancelBeat, HandleUpdateServerStatus, HandleDeleteServer, Age,
        MarkStaleServersOffline, LoseConnection, RegainConnection

\* The handlers of Register stay well formed.
LEMMA CallsStep == Formed /\ [Next]_vars => calls' \in [Calls -> Handler]
<1> SUFFICES ASSUME Formed, [Next]_vars PROVE calls' \in [Calls -> Handler]
    OBVIOUS
<1> USE DEF counters, ghosts
<1>0. calls \in [Calls -> Handler] /\ row \in Server
    BY DEF Formed
<1>1. CASE UNCHANGED calls
    BY <1>0, <1>1
<1>2. ASSUME NEW c \in Calls, NEW pc \in {"ip", "enroll", "create"}, To(c, pc)
      PROVE  calls' \in [Calls -> Handler]
    <2>1. [calls[c] EXCEPT !.pc = pc] \in Handler
        BY <1>0 DEF Handler
    <2> QED
        BY <1>0, <1>2, <2>1 DEF To
<1>3. ASSUME NEW c \in Calls, NEW pc \in {"done", "error"}, NEW status \in Statuses,
             NEW token \in 0 .. MaxCalls, Reply(c, pc, status, token)
      PROVE  calls' \in [Calls -> Handler]
    <2>1. [calls[c] EXCEPT !.pc = pc, !.status = status, !.token = token] \in Handler
        BY <1>0 DEF Handler
    <2> QED
        BY <1>0, <1>3, <2>1, EmptyTypes DEF Reply
<1>4. ASSUME NEW c \in Calls, ReplyError(c) PROVE calls' \in [Calls -> Handler]
    BY <1>3, <1>4, BoundsAssumption DEF ReplyError, Statuses
<1>5. ASSUME NEW attempt, NEW ip \in BOOLEAN, CallRegister(attempt, ip)
      PROVE  calls' \in [Calls -> Handler]
    <2>1. \A pc \in {"error", "key", "refused"} : [NoCall EXCEPT !.ip = ip, !.pc = pc] \in Handler
        BY EmptyTypes DEF Handler
    <2>2. PICK pc \in {"error", "key", "refused"} :
              calls' = [calls EXCEPT ![used + 1] = [NoCall EXCEPT !.ip = ip, !.pc = pc]]
        BY <1>5 DEF CallRegister
    <2> QED
        BY <1>0, <2>1, <2>2
<1>6. CASE Launch
    BY <1>5, <1>6 DEF Launch, getPublicIP
<1>7. CASE RetryRegister
    BY <1>5, <1>7 DEF RetryRegister, Formed, Process
<1>8. CASE RegisterReturns \/ \E c \in Calls : CancelCall(c)
    BY <1>0, <1>8, EmptyTypes DEF RegisterReturns, CancelCall
<1>9. CASE \E c \in Calls : LookupKey(c)
    <2>1. PICK c \in Calls : LookupKey(c)
        BY <1>9
    <2>2. row.status \in Statuses /\ row.token \in 0 .. MaxCalls
        BY <1>0 DEF Server
    <2> QED
        BY <1>2, <1>3, <2>1, <2>2 DEF LookupKey
<1>10. CASE \E c \in Calls : LookupAddress(c)
    BY <1>2, <1>10 DEF LookupAddress
<1>11. CASE \E c \in Calls : Reenroll(c) \/ CreateServer(c)
    <2>1. PICK c \in Calls : Reenroll(c) \/ CreateServer(c)
        BY <1>11
    <2>2. c \in 0 .. MaxCalls /\ {"active", "pending"} \subseteq Statuses
        BY DEF Calls, Statuses, Decisions
    <2> QED
        BY <1>3, <1>4, <2>1, <2>2 DEF Reenroll, CreateServer
<1>12. CASE ProxyAnswers
    <2>1. [calls[agent.call] EXCEPT !.pc = "unrouted"] \in Handler \/ agent.call \notin Calls
        BY <1>0 DEF Handler
    <2> QED
        BY <1>0, <1>12, <2>1 DEF ProxyAnswers
<1> QED
    BY <1>1, <1>6, <1>7, <1>8, <1>9, <1>10, <1>11, <1>12, Zenon
    DEF Next, vars, Install, RegisterTimesOut, PollStatus, SendHeartbeat, FlushToAPI,
        TimerCalls, CheckConnection, AttemptReconnect, TimerReturns, TestReturns, ValidateBeat,
        UpdateBeat, BeatTimesOut, CancelBeat, HandleUpdateServerStatus, HandleDeleteServer, Age,
        MarkStaleServersOffline, Crash, LoseConnection, RegainConnection

\* The handlers of heartbeats stay well formed.
LEMMA BeatsStep == Formed /\ [Next]_vars => beats' \in [Kinds -> Beat]
<1> SUFFICES ASSUME Formed, [Next]_vars PROVE beats' \in [Kinds -> Beat]
    OBVIOUS
<1> USE DEF counters, ghosts
<1>0. beats \in [Kinds -> Beat] /\ agent.ip \in BOOLEAN /\ "timer" \in Kinds /\ "test" \in Kinds
    BY DEF Formed, Process, Kinds
<1>1. CASE UNCHANGED beats
    BY <1>0, <1>1
<1>2. ASSUME NEW k \in Kinds, NEW flush \in BOOLEAN, NEW ip \in BOOLEAN, Begin(k, flush, ip)
      PROVE  beats' \in [Kinds -> Beat]
    <2>1. [pc |-> "validate", flush |-> flush, ip |-> ip, waited |-> TRUE] \in Beat
        BY DEF Beat
    <2> QED
        BY <1>0, <1>2, <2>1 DEF Begin
<1>3. ASSUME NEW k \in Kinds, NEW pc \in {"ok", "refused", "denied", "failed"}, Answer(k, pc)
      PROVE  beats' \in [Kinds -> Beat]
    <2>1. [beats[k] EXCEPT !.pc = pc] \in Beat
        BY <1>0 DEF Beat
    <2> QED
        BY <1>0, <1>3, <2>1, EmptyTypes DEF Answer
<1>4. ASSUME NEW status, Leave(status) PROVE beats' \in [Kinds -> Beat]
    <2>1. \A k \in Kinds : [beats[k] EXCEPT !.waited = FALSE] \in Beat
        BY <1>0 DEF Beat
    <2> QED
        BY <1>4, <2>1, EmptyTypes DEF Leave
<1>5. CASE SendHeartbeat \/ FlushToAPI \/ AttemptReconnect
    BY <1>0, <1>1, <1>2, <1>5 DEF SendHeartbeat, FlushToAPI, TimerCalls, AttemptReconnect
<1>6. CASE TimerReturns \/ Crash
    BY <1>0, <1>4, <1>6, EmptyTypes DEF TimerReturns, Crash
<1>7. CASE TestReturns \/ \E k \in Kinds : CancelBeat(k)
    BY <1>0, <1>7, EmptyTypes DEF TestReturns, CancelBeat
<1>8. CASE \E k \in Kinds : ValidateBeat(k)
    <2>1. PICK k \in Kinds : ValidateBeat(k)
        BY <1>8
    <2>2. [beats[k] EXCEPT !.pc = "update"] \in Beat
        BY <1>0 DEF Beat
    <2>3. CASE beats' = [beats EXCEPT ![k].pc = "update"]
        BY <1>0, <2>2, <2>3
    <2> QED
        BY <1>3, <2>1, <2>3 DEF ValidateBeat
<1>9. CASE \E k \in Kinds : UpdateBeat(k)
    BY <1>3, <1>9 DEF UpdateBeat
<1>10. CASE \E k \in Kinds : BeatTimesOut(k)
    <2>1. PICK k \in Kinds : beats' = [beats EXCEPT ![k].waited = FALSE]
        BY <1>10 DEF BeatTimesOut
    <2>2. [beats[k] EXCEPT !.waited = FALSE] \in Beat
        BY <1>0 DEF Beat
    <2> QED
        BY <1>0, <2>1, <2>2
<1> QED
    BY <1>1, <1>5, <1>6, <1>7, <1>8, <1>9, <1>10, Zenon
    DEF Next, vars, Install, Launch, RetryRegister, CallRegister,
        RegisterTimesOut, ProxyAnswers, RegisterReturns, PollStatus, LookupKey, LookupAddress, Reenroll, CreateServer,
        CancelCall, CheckConnection, HandleUpdateServerStatus, HandleDeleteServer, Age,
        MarkStaleServersOffline, LoseConnection, RegainConnection

\* Calls and failed queries are counted, and what is raced stays so.
LEMMA CountsStep ==
    Formed /\ [Next]_vars => /\ used' \in 0 .. MaxCalls /\ fails' \in Nat /\ raced' \in BOOLEAN
                             /\ Undisturbed' => Undisturbed
<1> SUFFICES ASSUME Formed, [Next]_vars
             PROVE  /\ used' \in 0 .. MaxCalls /\ fails' \in Nat /\ raced' \in BOOLEAN
                    /\ Undisturbed' => Undisturbed
    OBVIOUS
<1>0. used \in 0 .. MaxCalls /\ fails \in Nat /\ raced \in BOOLEAN
    BY DEF Formed
<1>1. used' = used \/ (used < MaxCalls /\ used' = used + 1)
    BY Zenon DEF Next, vars, counters, ghosts, Install, Launch, RetryRegister, CallRegister,
        RegisterTimesOut, ProxyAnswers, RegisterReturns, PollStatus, LookupKey, LookupAddress, Reenroll, CreateServer, CancelCall,
        SendHeartbeat, FlushToAPI, TimerCalls, CheckConnection, AttemptReconnect, TimerReturns,
        TestReturns, ValidateBeat, UpdateBeat, BeatTimesOut, CancelBeat,
        HandleUpdateServerStatus, HandleDeleteServer, Age, MarkStaleServersOffline, Crash,
        LoseConnection, RegainConnection
<1>2. fails' = fails \/ QueryFails
    BY Zenon DEF Next, vars, counters, ghosts, Install, Launch, RetryRegister, CallRegister,
        RegisterTimesOut, ProxyAnswers, RegisterReturns, PollStatus, LookupKey, LookupAddress, Reenroll, CreateServer, CancelCall,
        SendHeartbeat, FlushToAPI, TimerCalls, CheckConnection, AttemptReconnect, TimerReturns,
        TestReturns, ValidateBeat, UpdateBeat, BeatTimesOut, CancelBeat,
        HandleUpdateServerStatus, HandleDeleteServer, Age, MarkStaleServersOffline, Crash,
        LoseConnection, RegainConnection
<1>3. raced' = raced \/ raced' = (raced \/ Exists)
      \/ raced' = (raced \/ Beating({"validate", "update"}))
      \/ raced' = (raced \/ Beating({"update"}) \/ Registering({"ip", "enroll", "create"}))
      \/ raced' = (raced \/ Registering({"key", "ip", "enroll", "create"}))
    BY Zenon DEF Next, vars, counters, ghosts, Install, Launch, RetryRegister, CallRegister,
        RegisterTimesOut, ProxyAnswers, RegisterReturns, PollStatus, LookupKey, LookupAddress, Reenroll, CreateServer, CancelCall,
        SendHeartbeat, FlushToAPI, TimerCalls, CheckConnection, AttemptReconnect, TimerReturns,
        TestReturns, ValidateBeat, UpdateBeat, BeatTimesOut, CancelBeat,
        HandleUpdateServerStatus, HandleDeleteServer, Age, MarkStaleServersOffline, Crash,
        LoseConnection, RegainConnection
<1>4. used' \in 0 .. MaxCalls /\ fails' \in Nat /\ (fails' = 0 => fails = 0)
    BY <1>0, <1>1, <1>2, BoundsAssumption DEF QueryFails
<1>5. raced' \in BOOLEAN /\ (raced => raced')
    BY <1>0, <1>3, Zenon
<1> QED
    BY <1>4, <1>5 DEF Undisturbed

\* Every step keeps the form of the table, of the agent and of the handlers.
LEMMA FormedStep == Formed /\ [Next]_vars => Formed'
BY RowStep, AgentStep, CallsStep, BeatsStep, CountsStep DEF Formed

\* Only the answer of a proxy counts as one.
LEMMA MisroutedStays ==
    ASSUME [Next]_vars
    PROVE  misrouted' = misrouted \/ misrouted' = (misrouted \/ calls[agent.call].pc = "unrouted")
BY Zenon DEF Next, vars, counters, ghosts, Install, Launch, RetryRegister, CallRegister,
    RegisterTimesOut, ProxyAnswers, RegisterReturns, PollStatus, LookupKey, LookupAddress, Reenroll, CreateServer, CancelCall,
    SendHeartbeat, FlushToAPI, TimerCalls, CheckConnection, AttemptReconnect, TimerReturns,
    TestReturns, ValidateBeat, UpdateBeat, BeatTimesOut, CancelBeat,
    HandleUpdateServerStatus, HandleDeleteServer, Age, MarkStaleServersOffline, Crash,
    LoseConnection, RegainConnection

\* What a step does to the user's word, the failures, the cuts and the decisions.
LEMMA BoundsStep == Bounded /\ [Next]_vars => Bounded'
<1> SUFFICES ASSUME Bounded, [Next]_vars PROVE Bounded'
    OBVIOUS
<1>1. fails' = fails \/ QueryFails
    BY Zenon DEF Next, vars, counters, ghosts, Install, Launch, RetryRegister, CallRegister,
        RegisterTimesOut, ProxyAnswers, RegisterReturns, PollStatus, LookupKey, LookupAddress, Reenroll, CreateServer, CancelCall,
        SendHeartbeat, FlushToAPI, TimerCalls, CheckConnection, AttemptReconnect, TimerReturns,
        TestReturns, ValidateBeat, UpdateBeat, BeatTimesOut, CancelBeat,
        HandleUpdateServerStatus, HandleDeleteServer, Age, MarkStaleServersOffline, Crash,
        LoseConnection, RegainConnection
<1>2. decisions' = decisions \/ (decisions < MaxDecisions /\ decisions' = decisions + 1)
    BY Zenon DEF Next, vars, counters, ghosts, Install, Launch, RetryRegister, CallRegister,
        RegisterTimesOut, ProxyAnswers, RegisterReturns, PollStatus, LookupKey, LookupAddress, Reenroll, CreateServer, CancelCall,
        SendHeartbeat, FlushToAPI, TimerCalls, CheckConnection, AttemptReconnect, TimerReturns,
        TestReturns, ValidateBeat, UpdateBeat, BeatTimesOut, CancelBeat,
        HandleUpdateServerStatus, HandleDeleteServer, Age, MarkStaleServersOffline, Crash,
        LoseConnection, RegainConnection
<1>3. cuts' = cuts \/ (cuts < MaxCuts /\ cuts' = cuts + 1)
    BY Zenon DEF Next, vars, counters, ghosts, Install, Launch, RetryRegister, CallRegister,
        RegisterTimesOut, ProxyAnswers, RegisterReturns, PollStatus, LookupKey, LookupAddress, Reenroll, CreateServer, CancelCall,
        SendHeartbeat, FlushToAPI, TimerCalls, CheckConnection, AttemptReconnect, TimerReturns,
        TestReturns, ValidateBeat, UpdateBeat, BeatTimesOut, CancelBeat,
        HandleUpdateServerStatus, HandleDeleteServer, Age, MarkStaleServersOffline, Crash,
        LoseConnection, RegainConnection, Leave
<1>4. /\ word' = word \/ word' = "none" \/ word' \in Decisions
      /\ revoked' = revoked \/ revoked' = TRUE \/ \E s \in Decisions : revoked' = (revoked \/ s = "rejected")
    BY Zenon DEF Next, vars, counters, ghosts, Install, Launch, RetryRegister, CallRegister,
        RegisterTimesOut, ProxyAnswers, RegisterReturns, PollStatus, LookupKey, LookupAddress, Reenroll, CreateServer, CancelCall,
        SendHeartbeat, FlushToAPI, TimerCalls, CheckConnection, AttemptReconnect, TimerReturns,
        TestReturns, ValidateBeat, UpdateBeat, BeatTimesOut, CancelBeat,
        HandleUpdateServerStatus, HandleDeleteServer, Age, MarkStaleServersOffline, Crash,
        LoseConnection, RegainConnection
<1>5. fails' \in 0 .. MaxFails /\ decisions' \in 0 .. MaxDecisions /\ cuts' \in 0 .. MaxCuts
    BY <1>1, <1>2, <1>3, BoundsAssumption DEF Bounded, QueryFails
<1>6. word' \in Decisions \cup {"none"} /\ revoked' \in BOOLEAN /\ misrouted' \in BOOLEAN
    BY <1>4, MisroutedStays, Zenon DEF Bounded
<1> QED
    BY <1>5, <1>6 DEF Bounded

\* The ways in which reconnecting goes on.
LEMMA LinkStep == Linked /\ [Next]_vars => Linked'
<1> SUFFICES ASSUME Linked, [Next]_vars PROVE Linked'
    OBVIOUS
<1>1. \/ link' = link \/ link' = Scheduled(link)
      \/ \E r \in BOOLEAN : link' = [link EXCEPT !.reach = r]
      \/ link' = [link EXCEPT !.reconnecting = "testing"]
      \/ link' = [link EXCEPT !.reconnecting = "no", !.count = 0]
      \/ link' = [Connected EXCEPT !.reach = link.reach]
    BY Zenon DEF Next, vars, counters, ghosts, Install, Launch, RetryRegister, CallRegister,
        RegisterTimesOut, ProxyAnswers, RegisterReturns, PollStatus, LookupKey, LookupAddress, Reenroll, CreateServer, CancelCall,
        SendHeartbeat, FlushToAPI, TimerCalls, CheckConnection, AttemptReconnect, TimerReturns,
        TestReturns, ValidateBeat, UpdateBeat, BeatTimesOut, CancelBeat,
        HandleUpdateServerStatus, HandleDeleteServer, Age, MarkStaleServersOffline, Crash,
        LoseConnection, RegainConnection, Leave, TestFailed, scheduleReconnect
<1>2. PICK b \in BOOLEAN, r \in {"no", "waiting", "testing"}, n \in 0 .. MaxCount, d \in {link.delay} :
          link = [reach |-> b, reconnecting |-> r, count |-> n, delay |-> d]
    BY DEF Linked
<1>3. n + 1 \in 0 .. MaxCount \/ ~(n < MaxCount)
    BY BoundsAssumption
<1>4. 0 \in 0 .. MaxCount
    BY BoundsAssumption
<1>5. ASSUME NEW b2 \in BOOLEAN, NEW r2 \in {"no", "waiting", "testing"}, NEW n2 \in 0 .. MaxCount, NEW d2,
             link' = [reach |-> b2, reconnecting |-> r2, count |-> n2, delay |-> d2]
      PROVE  Linked'
    BY <1>5, Zenon DEF Linked
<1>6. CASE link' = Scheduled(link)
    <2> DEFINE m == IF n < MaxCount THEN n + 1 ELSE n
    <2>1. m \in 0 .. MaxCount
        BY <1>3
    <2>2. link' = [reach |-> b, reconnecting |-> "waiting", count |-> m, delay |-> Delay(n)]
        BY <1>2, <1>6 DEF Scheduled
    <2> QED
        BY <2>1, <2>2, <1>5
<1>7. ASSUME NEW q \in BOOLEAN, link' = [link EXCEPT !.reach = q] PROVE Linked'
    <2>1. link' = [reach |-> q, reconnecting |-> r, count |-> n, delay |-> d]
        BY <1>2, <1>7
    <2> QED
        BY <2>1, <1>5
<1>8. CASE link' = [link EXCEPT !.reconnecting = "testing"]
    <2>1. link' = [reach |-> b, reconnecting |-> "testing", count |-> n, delay |-> d]
        BY <1>2, <1>8
    <2> QED
        BY <2>1, <1>5
<1>9. CASE link' = [link EXCEPT !.reconnecting = "no", !.count = 0]
    <2>1. link' = [reach |-> b, reconnecting |-> "no", count |-> 0, delay |-> d]
        BY <1>2, <1>9
    <2> QED
        BY <2>1, <1>4, <1>5
<1>10. CASE link' = [Connected EXCEPT !.reach = link.reach]
    <2>1. link' = [reach |-> b, reconnecting |-> "no", count |-> 0, delay |-> Second]
        BY <1>2, <1>10 DEF Connected
    <2> QED
        BY <2>1, <1>4, <1>5
<1>11. CASE link' = link
    BY <1>11, <1>2, <1>5
<1> QED
    BY <1>1, <1>6, <1>7, <1>8, <1>9, <1>10, <1>11

----------------------------------------------------------------------------
(* What a step does to each party, in the terms of the invariant. *)

\* The ways a row is written.
RowSame == UNCHANGED <<row, word, revoked>>
RowKept == Exists /\ Exists' /\ UNCHANGED <<word, revoked>> /\ row'.token = row.token
RowAged == RowKept /\ row'.status = row.status /\ UNCHANGED <<agent, calls, beats>>
RowBeaten == RowKept /\ row'.status = "active" /\ Beating({"update"}) /\ UNCHANGED <<agent, calls>>
RowOffline ==
    RowKept /\ row.status = "active" /\ row'.status = "offline" /\ UNCHANGED <<agent, calls, beats>>
RowDecided ==
    /\ Exists /\ Exists' /\ row'.token = row.token /\ row'.status = word' /\ word' \in Decisions
    /\ revoked' = (revoked \/ word' = "rejected")
    /\ UNCHANGED <<agent, calls, beats>>
    /\ raced' = (raced \/ Beating({"update"}) \/ Registering({"ip", "enroll", "create"}))
RowDeleted ==
    /\ Exists /\ ~Exists' /\ row'.status = "none" /\ word' = "none" /\ revoked'
    /\ UNCHANGED <<agent, calls, beats>>
    /\ raced' = (raced \/ Registering(Writing))
RowCreated(c) ==
    /\ ~Exists /\ Exists' /\ row'.status = "pending" /\ row'.token = c /\ word' = "none"
    /\ calls[c].pc = "create" /\ CreateServer(c) /\ UNCHANGED <<agent, beats, revoked>>
    /\ raced' = (raced \/ Beating({"validate", "update"}))

\* No handler writes the row in another way, but a re-enrolment.
LEMMA RowMoves ==
    ASSUME Formed, [Next]_vars
    PROVE  \/ RowSame \/ RowAged \/ RowBeaten \/ RowOffline \/ RowDecided \/ RowDeleted
           \/ \E c \in Calls : RowCreated(c) \/ Reenroll(c)
<1> USE DEF counters, ghosts
<1>0. row \in Server /\ NoRow.status = "none" /\ ~NoRow.stale
    BY DEF Formed, NoRow
<1>1. CASE \E c \in Calls : CreateServer(c)
    <2>1. PICK c \in Calls : CreateServer(c)
        BY <1>1
    <2>2. CASE Exists
        BY <2>1, <2>2, Zenon DEF CreateServer, RowSame
    <2>3. CASE ~Exists
        <3>1. row' = [status |-> "pending", token |-> c, ip |-> calls[c].ip, stale |-> FALSE]
            BY <2>1, <2>3, Zenon DEF CreateServer, CreateServerWithIDAndAPIKey
        <3>2. row'.status = "pending" /\ row'.token = c /\ Exists'
            BY <1>0, <3>1 DEF Exists
        <3> QED
            BY <2>1, <2>3, <3>2, Zenon DEF CreateServer, RowCreated
    <2> QED
        BY <2>2, <2>3
<1>2. CASE \E k \in Kinds : UpdateBeat(k)
    <2>1. PICK k \in Kinds : UpdateBeat(k)
        BY <1>2
    <2>2. CASE row' = row
        BY <2>1, <2>2, Zenon DEF UpdateBeat, RowSame
    <2>3. CASE row' # row
        <3>1. Exists /\ row' = [row EXCEPT !.status = "active", !.stale = FALSE, !.ip = @ \/ beats[k].ip]
            BY <2>1, <2>3 DEF UpdateBeat, UpdateServerHeartbeat
        <3>2. row'.status = "active" /\ row'.token = row.token /\ Exists'
            BY <1>0, <3>1 DEF Server, Exists
        <3>3. Beating({"update"})
            BY <2>1 DEF UpdateBeat, Beating
        <3> QED
            BY <2>1, <3>1, <3>2, <3>3, Zenon DEF UpdateBeat, RowBeaten, RowKept
    <2> QED
        BY <2>2, <2>3
<1>3. CASE HandleUpdateServerStatus
    <2>1. PICK status \in Decisions :
              row' = [row EXCEPT !.status = status] /\ word' = status
              /\ revoked' = (revoked \/ status = "rejected")
        BY <1>3 DEF HandleUpdateServerStatus, UpdateServerStatus
    <2>2. row'.status = status /\ row'.token = row.token /\ Exists'
        BY <1>0, <2>1 DEF Server, Exists, Decisions
    <2> QED
        BY <1>3, <2>1, <2>2, Zenon DEF HandleUpdateServerStatus, RowDecided
<1>4. CASE HandleDeleteServer
    BY <1>0, <1>4 DEF HandleDeleteServer, DeleteServer, RowDeleted, Exists, Writing
<1>5. CASE Age
    <2>1. row'.status = row.status /\ row'.token = row.token /\ Exists'
        BY <1>0, <1>5 DEF Age, Server, Exists
    <2> QED
        BY <1>5, <2>1, Zenon DEF Age, RowAged, RowKept
<1>6. CASE MarkStaleServersOffline
    <2>1. row.status = "active" /\ row'.status = "offline" /\ row'.token = row.token /\ Exists /\ Exists'
        BY <1>0, <1>6 DEF MarkStaleServersOffline, Server, Exists
    <2> QED
        BY <1>6, <2>1, Zenon DEF MarkStaleServersOffline, RowOffline, RowKept
<1> QED
    BY <1>1, <1>2, <1>3, <1>4, <1>5, <1>6, Zenon
    DEF RowSame, Next, vars, Install, Launch, RetryRegister, CallRegister,
        RegisterTimesOut, ProxyAnswers, RegisterReturns, PollStatus, LookupKey, LookupAddress, CancelCall, SendHeartbeat,
        FlushToAPI, TimerCalls, CheckConnection, AttemptReconnect, TimerReturns, TestReturns,
        ValidateBeat, BeatTimesOut, CancelBeat, Crash, LoseConnection, RegainConnection

\* A heartbeat begins with an agent that runs; it is validated, and refused, by the row
\* that is there, unless the query fails.
LEMMA BeatMoves ==
    ASSUME Formed, [Next]_vars, NEW k \in Kinds
    PROVE  \/ beats'[k].pc = beats[k].pc
           \/ beats'[k].pc = "validate" /\ agent.pc = "run" /\ RowSame
           \/ beats[k].pc = "validate" /\ beats'[k].pc = "update" /\ ValidateAPIKey /\ RowSame
           \/ beats[k].pc = "validate" /\ beats'[k].pc = "refused" /\ RowSame
              /\ (~ValidateAPIKey \/ fails' # 0)
           \/ beats'[k].pc \notin {"validate", "update", "refused"}
<1> USE DEF counters, ghosts
<1>0. beats \in [Kinds -> Beat] /\ fails \in Nat /\ "timer" \in Kinds /\ "test" \in Kinds
    BY DEF Formed, Kinds
<1>1. CASE UNCHANGED beats
    BY <1>1
<1>2. ASSUME NEW b \in Kinds, NEW flush, NEW ip, Begin(b, flush, ip)
      PROVE  beats'[k].pc = beats[k].pc \/ beats'[k].pc = "validate"
    BY <1>0, <1>2 DEF Begin
<1>3. ASSUME NEW b \in Kinds, NEW pc \in {"ok", "refused", "denied", "failed"}, Answer(b, pc)
      PROVE  beats'[k].pc = beats[k].pc \/ beats'[k].pc = "idle" \/ (b = k /\ beats'[k].pc = pc)
    BY <1>0, <1>3, EmptyTypes DEF Answer, Beat
<1>4. ASSUME NEW status, Leave(status) PROVE beats'[k].pc \in {beats[k].pc, "idle"}
    <2>1. [beats[k] EXCEPT !.waited = FALSE].pc = beats[k].pc
        BY <1>0 DEF Beat
    <2> QED
        BY <1>4, <2>1, EmptyTypes DEF Leave
<1>5. CASE SendHeartbeat \/ FlushToAPI \/ AttemptReconnect
    <2>1. \/ UNCHANGED beats
          \/ \E b \in Kinds : \E flush, ip : Begin(b, flush, ip)
        BY <1>0, <1>5, Zenon DEF SendHeartbeat, FlushToAPI, TimerCalls, AttemptReconnect
    <2>2. agent.pc = "run" /\ RowSame
        BY <1>5, Zenon DEF SendHeartbeat, FlushToAPI, TimerCalls, AttemptReconnect, RowSame
    <2> QED
        BY <1>1, <1>2, <2>1, <2>2
<1>6. CASE TimerReturns \/ TestReturns \/ Crash \/ \E b \in Kinds : CancelBeat(b)
    <2>1. CASE \E status : Leave(status)
        BY <1>4, <2>1
    <2>2. CASE \E b \in Kinds : beats' = [beats EXCEPT ![b] = NoBeat]
        BY <1>0, <2>2, EmptyTypes
    <2> QED
        BY <1>0, <1>6, <2>1, <2>2 DEF TimerReturns, TestReturns, Crash, CancelBeat
<1>7. CASE \E b \in Kinds : ValidateBeat(b)
    <2>1. PICK b \in Kinds : ValidateBeat(b)
        BY <1>7
    <2>2. RowSame /\ beats[b].pc = "validate"
        BY <2>1, Zenon DEF ValidateBeat, RowSame
    <2>3. CASE ValidateAPIKey /\ beats' = [beats EXCEPT ![b].pc = "update"]
        BY <1>0, <2>2, <2>3 DEF Beat
    <2>4. CASE Answer(b, "denied") \/ Answer(b, "failed")
        BY <1>3, <2>4
    <2>5. CASE Answer(b, "refused") /\ (~ValidateAPIKey \/ fails' # 0)
        BY <1>3, <2>2, <2>5
    <2>6. QueryFails => fails' # 0
        BY <1>0 DEF QueryFails
    <2> QED
        BY <2>1, <2>3, <2>4, <2>5, <2>6, Zenon DEF ValidateBeat
<1>8. CASE \E b \in Kinds : UpdateBeat(b)
    BY <1>3, <1>8 DEF UpdateBeat
<1>9. CASE \E b \in Kinds : BeatTimesOut(b)
    <2>1. PICK b \in Kinds : beats' = [beats EXCEPT ![b].waited = FALSE]
        BY <1>9 DEF BeatTimesOut
    <2> QED
        BY <1>0, <2>1 DEF Beat
<1> QED
    BY <1>1, <1>5, <1>6, <1>7, <1>8, <1>9, Zenon
    DEF Next, vars, Install, Launch, RetryRegister, CallRegister,
        RegisterTimesOut, ProxyAnswers, RegisterReturns, PollStatus, LookupKey, LookupAddress, Reenroll, CreateServer,
        CancelCall, CheckConnection, HandleUpdateServerStatus, HandleDeleteServer, Age,
        MarkStaleServersOffline, LoseConnection, RegainConnection

\* A call begins with an agent that is not let in yet; it is done with the row it found
\* or made; and it goes on to re-enrol only a row that another handler made.
LEMMA CallMoves ==
    ASSUME Formed, [Next]_vars, NEW c \in Calls
    PROVE  \/ calls'[c] = calls[c] \/ calls'[c].pc = "free"
           \/ calls'[c].pc \in {"error", "key", "refused"} /\ agent.pc \in {"down", "retry"}
           \/ calls[c].pc \in Writing /\ calls'[c].pc \in {"ip", "create", "error", "unrouted"}
           \/ calls[c].pc \in Writing /\ calls'[c].pc = "enroll" /\ raced'
           \/ calls[c].pc = "key" /\ calls'[c].pc = "done" /\ Exists /\ RowSame
              /\ calls'[c].status = row.status /\ calls'[c].token = row.token
           \/ calls'[c].pc = "done" /\ calls'[c].status = "pending" /\ calls'[c].token = c
              /\ RowCreated(c)
           \/ Reenroll(c)
<1> USE DEF counters, ghosts
<1>0. calls \in [Calls -> Handler] /\ row \in Server
    BY DEF Formed
<1>1. CASE UNCHANGED calls
    BY <1>1
<1>2. ASSUME NEW b \in Calls, NEW pc, To(b, pc)
      PROVE  calls'[c] = calls[c] \/ (b = c /\ calls'[c].pc = pc)
    BY <1>0, <1>2 DEF To, Handler
<1>3. ASSUME NEW b \in Calls, NEW pc, NEW status, NEW token, Reply(b, pc, status, token)
      PROVE  \/ calls'[c] = calls[c] \/ calls'[c].pc = "free"
             \/ b = c /\ calls'[c].pc = pc /\ calls'[c].status = status /\ calls'[c].token = token
    BY <1>0, <1>3, EmptyTypes DEF Reply, Handler
<1>4. CASE Launch \/ RetryRegister
    <2>1. PICK attempt, ip : CallRegister(attempt, ip)
        BY <1>4, Zenon DEF Launch, RetryRegister
    <2>2. \A pc \in {"error", "key", "refused"} : [NoCall EXCEPT !.ip = ip, !.pc = pc].pc = pc
        BY DEF NoCall
    <2>3. PICK pc \in {"error", "key", "refused"} :
              calls' = [calls EXCEPT ![used + 1] = [NoCall EXCEPT !.ip = ip, !.pc = pc]]
        BY <2>1 DEF CallRegister
    <2>4. calls'[c] = calls[c] \/ calls'[c] = [NoCall EXCEPT !.ip = ip, !.pc = pc]
        BY <1>0, <2>3
    <2>5. agent.pc \in {"down", "retry"}
        BY <1>4, Zenon DEF Launch, RetryRegister
    <2> QED
        BY <2>2, <2>4, <2>5
<1>5. CASE RegisterReturns \/ \E b \in Calls : CancelCall(b)
    BY <1>0, <1>5, EmptyTypes DEF RegisterReturns, CancelCall
<1>6. CASE \E b \in Calls : LookupKey(b)
    <2>1. PICK b \in Calls : LookupKey(b)
        BY <1>6
    <2>2. RowSame /\ calls[b].pc = "key" /\ "key" \in Writing
        BY <2>1, Zenon DEF LookupKey, RowSame, Writing
    <2>3. CASE Exists /\ Reply(b, "done", row.status, row.token)
        BY <1>3, <2>2, <2>3
    <2>4. CASE To(b, IF calls[b].ip THEN "ip" ELSE "create")
        BY <1>2, <2>2, <2>4
    <2> QED
        BY <2>1, <2>3, <2>4, Zenon DEF LookupKey, GetServerByAPIKey
<1>7. CASE \E b \in Calls : LookupAddress(b)
    <2>1. PICK b \in Calls : LookupAddress(b)
        BY <1>7
    <2>2. calls[b].pc = "ip" /\ "ip" \in Writing /\ (Exists => raced')
        BY <2>1, Zenon DEF LookupAddress, Writing
    <2>3. To(b, "create") \/ (To(b, "enroll") /\ Exists)
        BY <2>1, Zenon DEF LookupAddress, GetServerByUserAndIP
    <2> QED
        BY <1>2, <2>2, <2>3
<1>8. CASE \E b \in Calls : CreateServer(b)
    <2>1. PICK b \in Calls : CreateServer(b)
        BY <1>8
    <2>2. calls[b].pc = "create" /\ "create" \in Writing
        BY <2>1, Zenon DEF CreateServer, Writing
    <2>3. CASE Exists
        BY <1>3, <2>1, <2>2, <2>3 DEF CreateServer, ReplyError
    <2>4. CASE ~Exists
        <3>1. Reply(b, "done", "pending", b)
            BY <2>1, <2>4 DEF CreateServer
        <3>2. row' = [status |-> "pending", token |-> b, ip |-> calls[b].ip, stale |-> FALSE]
            BY <2>1, <2>4, Zenon DEF CreateServer, CreateServerWithIDAndAPIKey
        <3>3. row'.status = "pending" /\ row'.token = b /\ Exists'
            BY <3>2 DEF Exists, NoRow
        <3>4. RowCreated(b)
            BY <2>1, <2>4, <3>3, Zenon DEF CreateServer, RowCreated
        <3> QED
            BY <1>3, <3>1, <3>4
    <2> QED
        BY <2>3, <2>4
<1>9. CASE \E b \in Calls : Reenroll(b)
    <2>1. PICK b \in Calls : Reenroll(b)
        BY <1>9
    <2>2. PICK pc, status, token : Reply(b, pc, status, token)
        BY <2>1, Zenon DEF Reenroll, ReplyError
    <2> QED
        BY <1>3, <2>1, <2>2
<1>10. CASE ProxyAnswers
    <2>1. calls[agent.call].pc = "key" /\ calls' = [calls EXCEPT ![agent.call].pc = "unrouted"]
        BY <1>10 DEF ProxyAnswers
    <2> QED
        BY <1>0, <2>1 DEF Handler, Writing
<1> QED
    BY <1>1, <1>4, <1>5, <1>6, <1>7, <1>8, <1>9, <1>10, Zenon
    DEF Next, vars, Install, RegisterTimesOut, PollStatus, SendHeartbeat, FlushToAPI,
        TimerCalls, CheckConnection, AttemptReconnect, TimerReturns, TestReturns, ValidateBeat,
        UpdateBeat, BeatTimesOut, CancelBeat, HandleUpdateServerStatus, HandleDeleteServer, Age,
        MarkStaleServersOffline, Crash, LoseConnection, RegainConnection

\* An agent is let in by a reply or by an answer to its polling; it is gone for good after
\* an answer to its polling, a refused heartbeat or the answer of a proxy.
LEMMA AgentMoves ==
    ASSUME Formed, [Next]_vars
    PROVE  \/ UNCHANGED agent
           \/ agent'.pc \in {"down", "retry"}
           \/ agent'.pc = "register" /\ calls'[agent'.call].pc \in {"error", "key", "refused"}
           \/ /\ agent.pc = "register" /\ agent.call \in Calls /\ calls[agent.call].pc = "done"
              /\ agent'.pc = IF calls[agent.call].status = "active" THEN "run" ELSE "poll"
              /\ agent'.token = calls[agent.call].token /\ RowSame
           \/ /\ agent.pc = "poll" /\ agent'.pc = "run" /\ RowSame
              /\ Exists /\ row.token = agent.token /\ row.status = "active"
           \/ /\ agent.pc = "poll" /\ agent'.pc = "gone" /\ RowSame
              /\ fails' # 0 \/ row.status = "rejected" \/ ~(Exists /\ row.token = agent.token)
           \/ agent'.pc = "gone" /\ beats["timer"].pc = "refused" /\ RowSame
           \/ agent'.pc = "gone" /\ misrouted' /\ RowSame
<1> USE DEF counters, ghosts
<1>0. agent \in Process /\ calls \in [Calls -> Handler] /\ used \in 0 .. MaxCalls /\ fails \in Nat
      /\ (agent.pc = "register" <=> agent.call # 0)
    BY DEF Formed
<1>1. CASE UNCHANGED agent
    BY <1>1
<1>2. ASSUME Exit(1) PROVE agent'.pc \in {"down", "retry"}
    BY <1>0, <1>2, ExitTypes
<1>3. ASSUME Exit(0) PROVE agent'.pc = "gone"
    BY <1>0, <1>3, ExitTypes
<1>4. ASSUME RegisterError PROVE agent'.pc \in {"down", "retry"}
    <2>1. CASE agent' = [agent EXCEPT !.pc = "retry", !.call = 0]
        BY <1>0, <2>1 DEF Process
    <2> QED
        BY <1>2, <1>4, <2>1 DEF RegisterError
<1>5. CASE Install
    <2>1. agent'.pc = "down"
        BY <1>5 DEF Install, NoAgent
    <2> QED
        BY <2>1
<1>6. CASE Launch \/ RetryRegister
    <2>1. PICK attempt, ip : CallRegister(attempt, ip)
        BY <1>6, Zenon DEF Launch, RetryRegister
    <2>2. used + 1 \in Calls
        BY <1>0, <2>1, BoundsAssumption DEF CallRegister, Calls
    <2>3. agent' = [agent EXCEPT !.pc = "register", !.attempt = attempt, !.ip = ip, !.call = used + 1]
        BY <2>1 DEF CallRegister
    <2>4. agent'.pc = "register" /\ agent'.call = used + 1
        BY <1>0, <2>3 DEF Process
    <2>5. PICK pc \in {"error", "key", "refused"} :
              calls' = [calls EXCEPT ![used + 1] = [NoCall EXCEPT !.ip = ip, !.pc = pc]]
        BY <2>1 DEF CallRegister
    <2>6. [NoCall EXCEPT !.ip = ip, !.pc = pc].pc = pc
        BY DEF NoCall
    <2>7. calls'[used + 1] = [NoCall EXCEPT !.ip = ip, !.pc = pc]
        BY <1>0, <2>2, <2>5
    <2> QED
        BY <2>4, <2>6, <2>7
<1>7. CASE RegisterTimesOut
    BY <1>4, <1>7 DEF RegisterTimesOut
<1>8. CASE RegisterReturns
    <2>1. CASE RegisterError \/ Exit(1)
        BY <1>2, <1>4, <2>1
    <2>3. CASE calls[agent.call].pc = "unrouted" /\ Exit(0)
        <3>1. misrouted' /\ RowSame
            BY <1>8, <2>3, Zenon DEF RegisterReturns, RowSame
        <3> QED
            BY <1>3, <2>3, <3>1
    <2>2. CASE /\ calls[agent.call].pc = "done"
               /\ agent' = [agent EXCEPT !.pc = IF calls[agent.call].status = "active"
                                                THEN "run" ELSE "poll",
                                         !.token = calls[agent.call].token, !.call = 0]
        <3>1. agent.pc = "register" /\ agent.call \in Calls
            BY <1>0, <1>8 DEF RegisterReturns, Process, Calls
        <3>2. /\ agent'.pc = IF calls[agent.call].status = "active" THEN "run" ELSE "poll"
              /\ agent'.token = calls[agent.call].token
            BY <1>0, <2>2 DEF Process
        <3>3. RowSame
            BY <1>8, Zenon DEF RegisterReturns, RowSame
        <3> QED
            BY <2>2, <3>1, <3>2, <3>3
    <2> QED
        BY <1>8, <2>1, <2>2, <2>3 DEF RegisterReturns
<1>9. CASE PollStatus
    <2>1. agent.pc = "poll" /\ RowSame
        BY <1>9, Zenon DEF PollStatus, RowSame
    <2>2. CASE GetStatus(agent.token) = "active" /\ agent' = [agent EXCEPT !.pc = "run"]
        <3>1. Exists /\ row.token = agent.token /\ row.status = "active"
            BY <2>2 DEF GetStatus, GetServerByClientToken
        <3>2. agent'.pc = "run"
            BY <1>0, <2>2 DEF Process
        <3> QED
            BY <2>1, <3>1, <3>2
    <2>3. CASE Exit(0) /\ GetStatus(agent.token) \in {"rejected", "NotFound"}
        <3>1. row.status # "NotFound"
            BY DEF Formed, Server, Statuses, Decisions
        <3>2. row.status = "rejected" \/ ~(Exists /\ row.token = agent.token)
            BY <2>3, <3>1 DEF GetStatus, GetServerByClientToken
        <3> QED
            BY <1>3, <2>1, <2>3, <3>2
    <2>4. CASE Exit(0) /\ QueryFails
        BY <1>0, <1>3, <2>1, <2>4 DEF QueryFails
    <2> QED
        BY <1>9, <2>2, <2>3, <2>4 DEF PollStatus
<1>10. CASE TimerReturns
    <2>1. RowSame
        BY <1>10, Zenon DEF TimerReturns, RowSame
    <2> QED
        BY <1>1, <1>2, <1>3, <1>10, <2>1 DEF TimerReturns, Leave
<1>11. CASE Crash
    BY <1>2, <1>11 DEF Crash, Leave
<1> QED
    BY <1>1, <1>5, <1>6, <1>7, <1>8, <1>9, <1>10, <1>11, Zenon
    DEF Next, vars, ProxyAnswers, LookupKey, LookupAddress, Reenroll, CreateServer, CancelCall, SendHeartbeat,
        FlushToAPI, TimerCalls, CheckConnection, AttemptReconnect, TestReturns, ValidateBeat,
        UpdateBeat, BeatTimesOut, CancelBeat, HandleUpdateServerStatus, HandleDeleteServer, Age,
        MarkStaleServersOffline, LoseConnection, RegainConnection

----------------------------------------------------------------------------
\* Nothing is re-enrolled while no statement came between the two of a handler.
LEMMA NoEnroll ==
    ASSUME Formed, ~Registering({"enroll"}), [Next]_vars, ~raced'
    PROVE  /\ ~Registering({"enroll"})'
           /\ \A c \in Calls : ~Reenroll(c)
<1>1. \A c \in Calls : ~Reenroll(c)
    BY DEF Registering, Reenroll
<1>2. ASSUME NEW c \in Calls PROVE calls'[c].pc # "enroll"
    BY <1>1, CallMoves DEF Registering
<1> QED
    BY <1>1, <1>2 DEF Registering

\* Who is let in was let in before, or sees an active row now.
LEMMA AdmittedMoves ==
    ASSUME Formed, ~Registering({"enroll"}), [Next]_vars, Admitted', ~raced'
    PROVE  Admitted \/ (RowSame /\ Exists /\ row.status = "active")
<1>1. CASE agent'.pc = "run"
    BY <1>1, AgentMoves DEF Admitted
<1>2. CASE agent'.pc = "register" /\ calls'[agent'.call].pc = "done" /\ calls'[agent'.call].status = "active"
    <2>1. UNCHANGED agent
        BY <1>2, AgentMoves
    <2>2. agent.call \in Calls
        BY <1>2, <2>1 DEF Formed, Process, Calls
    <2>3. calls'[agent.call] = calls[agent.call] \/ (RowSame /\ Exists /\ row.status = "active")
        BY <1>2, <2>1, <2>2, CallMoves, NoEnroll
    <2> QED
        BY <1>2, <2>1, <2>3 DEF Admitted
<1> QED
    BY <1>1, <1>2 DEF Admitted

\* Approval survives every step: the user's word is forgotten only with the row, and no
\* registration is under way then.
LEMMA ApprovedStep ==
    ASSUME Formed, ~Registering({"enroll"}), Approved, [Next]_vars, ~raced'
    PROVE  Approved'
<1>0. row.status # "none" => Exists
    BY DEF Exists, NoRow
<1>1. row'.status \in {"active", "offline"} => word' # "none"
    BY <1>0, RowMoves, NoEnroll DEF Approved, RowSame, RowKept, RowAged, RowBeaten, RowOffline, RowDecided,
        RowDeleted, RowCreated, Beating, Decisions
<1>2. Exists' /\ word' = "none" =>
          \/ Exists /\ word = "none"
          \/ ~Exists /\ ~Beating({"validate", "update"}) /\ UNCHANGED <<agent, beats>>
              /\ \E c \in Calls : RowCreated(c)
    BY RowMoves, NoEnroll DEF RowSame, RowKept, RowAged, RowBeaten, RowOffline, RowDecided, RowDeleted,
        RowCreated, Decisions, Exists
<1>3. ASSUME Exists', NEW k \in Kinds, beats'[k].pc \in {"validate", "update"} PROVE word' # "none"
    <2>1. CASE beats[k].pc \in {"validate", "update"}
        BY <1>2, <1>3, <2>1 DEF Approved, Beating
    <2>2. CASE agent.pc = "run" /\ RowSame
        BY <1>3, <2>2 DEF Approved, Admitted, RowSame, Exists
    <2> QED
        BY <1>3, <2>1, <2>2, BeatMoves
<1>4. ASSUME Admitted' PROVE IF Exists' THEN word' # "none" ELSE ~Registering(Writing)'
    <2>1. CASE RowSame /\ Exists /\ row.status = "active"
        BY <2>1 DEF Approved, RowSame, Exists
    <2>2. CASE Admitted /\ Exists
        <3>1. word # "none"
            BY <2>2 DEF Approved
        <3>2. CASE Exists'
            BY <1>2, <2>2, <3>1, <3>2
        <3>3. CASE ~Exists'
            <4>1. RowDeleted
                BY <2>2, <3>3, RowMoves, NoEnroll DEF RowSame, RowKept, RowAged, RowBeaten, RowOffline, RowDecided,
                    RowCreated, Exists
            <4> QED
                BY <3>3, <4>1 DEF RowDeleted, Registering
        <3> QED
            BY <3>2, <3>3
    <2>3. CASE Admitted /\ ~Exists
        <3>1. ~Registering(Writing) /\ agent.pc \notin {"down", "retry"}
            BY <2>3 DEF Approved, Admitted
        <3>2. \A c \in Calls : ~RowCreated(c)
            BY <3>1 DEF RowCreated, Registering, Writing
        <3>3. ~Exists'
            BY <2>3, <3>2, RowMoves, NoEnroll DEF RowSame, RowKept, RowAged, RowBeaten, RowOffline, RowDecided,
                RowDeleted, Exists
        <3>4. ASSUME NEW c \in Calls PROVE calls'[c].pc \notin Writing
            BY <3>1, <3>2, CallMoves, NoEnroll DEF Registering, Writing
        <3> QED
            BY <3>3, <3>4 DEF Registering
    <2> QED
        BY <1>4, <2>1, <2>2, <2>3, AdmittedMoves
<1> QED
    BY <1>1, <1>3, <1>4 DEF Approved, Beating

\* A rejection survives every step: a heartbeat that could undo it was validated after it.
LEMMA RejectedStep ==
    ASSUME Formed, ~Registering({"enroll"}), StaysRejected, [Next]_vars, ~raced'
    PROVE  StaysRejected'
<1>1. word' = "rejected" => row'.status = "rejected"
    BY RowMoves, NoEnroll DEF StaysRejected, RowSame, RowKept, RowAged, RowBeaten, RowOffline, RowDecided,
        RowDeleted, RowCreated
<1>2. ASSUME NEW k \in Kinds, beats'[k].pc = "update" PROVE word' # "rejected"
    <2>1. CASE beats[k].pc = "update"
        <3>1. Beating({"update"}) /\ word # "rejected"
            BY <2>1 DEF Beating, StaysRejected
        <3> QED
            BY <3>1, RowMoves, NoEnroll DEF RowSame, RowKept, RowAged, RowBeaten, RowOffline, RowDecided,
                RowDeleted, RowCreated
    <2>2. CASE ValidateAPIKey /\ RowSame
        BY <2>2 DEF ValidateAPIKey, StaysRejected, RowSame
    <2> QED
        BY <1>2, <2>1, <2>2, BeatMoves
<1> QED
    BY <1>1, <1>2 DEF StaysRejected, Beating

\* Who has a token, or a heartbeat on its way, keeps its row until the user takes it away.
LEMMA HasRowStep ==
    ASSUME Formed, ~Registering({"enroll"}), HasRow, RejectedIsRevoked, [Next]_vars, ~raced', fails' = 0
    PROVE  HasRow'
<1>1. revoked => revoked'
    BY RowMoves, NoEnroll DEF RowSame, RowKept, RowAged, RowBeaten, RowOffline, RowDecided, RowDeleted, RowCreated
<1>2. Exists => revoked' \/ (Exists' /\ row'.token = row.token)
    BY RowMoves, NoEnroll DEF RowSame, RowKept, RowAged, RowBeaten, RowOffline, RowDecided, RowDeleted, RowCreated, Exists
<1>3. ASSUME NEW c \in Calls, calls'[c].pc = "done"
      PROVE  revoked' \/ (Exists' /\ row'.token = calls'[c].token)
    <2>1. CASE calls'[c] = calls[c]
        BY <1>1, <1>2, <1>3, <2>1 DEF HasRow
    <2>2. CASE Exists /\ calls'[c].token = row.token
        BY <1>2, <2>2
    <2>3. CASE RowCreated(c) /\ calls'[c].token = c
        BY <2>3 DEF RowCreated
    <2> QED
        BY <1>3, <2>1, <2>2, <2>3, CallMoves, NoEnroll
<1>4. agent'.pc = "poll" => revoked' \/ (Exists' /\ row'.token = agent'.token)
    BY <1>1, <1>2, AgentMoves DEF HasRow
<1>5. agent'.pc = "run" => revoked' \/ Exists'
    BY <1>1, <1>2, AgentMoves DEF HasRow
<1>6. ASSUME NEW k \in Kinds, beats'[k].pc \in {"validate", "update"} PROVE revoked' \/ Exists'
    BY <1>1, <1>2, <1>6, BeatMoves DEF HasRow, Beating
<1>7. ASSUME NEW k \in Kinds, beats'[k].pc = "refused" PROVE revoked'
    <2>1. CASE beats[k].pc = "refused"
        BY <1>1, <2>1 DEF HasRow, Beating
    <2>2. CASE beats[k].pc = "validate" /\ ~ValidateAPIKey
        BY <1>1, <2>2 DEF HasRow, Beating, ValidateAPIKey, GetServerByAPIKey, RejectedIsRevoked
    <2> QED
        BY <1>7, <2>1, <2>2, BeatMoves
<1>8. agent'.pc = "gone" => revoked' \/ misrouted'
    <2>1. beats["timer"].pc = "refused" => revoked
        BY DEF HasRow, Beating, Kinds
    <2> QED
        BY <1>1, <2>1, AgentMoves, MisroutedStays DEF HasRow, RejectedIsRevoked
<1> QED
    BY <1>3, <1>4, <1>5, <1>6, <1>7, <1>8 DEF HasRow, Beating

\* A rejection counts as taking the server away.
LEMMA RevokedStep ==
    ASSUME Formed, RejectedIsRevoked, [Next]_vars
    PROVE  RejectedIsRevoked'
<1>1. CASE \E c \in Calls : Reenroll(c)
    <2>1. PICK c \in Calls : Reenroll(c)
        BY <1>1
    <2>2. \/ UNCHANGED <<row, revoked>>
          \/ row' = [row EXCEPT !.status = "active", !.token = c, !.stale = FALSE]
        BY <2>1 DEF Reenroll, UpdateServerForReenrollment, ghosts
    <2> QED
        BY <2>2 DEF RejectedIsRevoked, Formed, Server
<1> QED
    BY <1>1, RowMoves DEF RejectedIsRevoked, RowSame, RowKept, RowAged, RowBeaten, RowOffline, RowDecided,
        RowDeleted, RowCreated

----------------------------------------------------------------------------
\* The inductive invariant holds in every reachable state.
LEMMA Invariance == Spec => []IInv
<1>1. IInv /\ [Next]_vars => IInv'
    <2> SUFFICES ASSUME IInv, [Next]_vars PROVE IInv'
        OBVIOUS
    <2>1. Formed' /\ RejectedIsRevoked'
        BY FormedStep, RevokedStep DEF IInv
    <2>2. ASSUME Undisturbed'
          PROVE  ~Registering({"enroll"})' /\ Approved' /\ StaysRejected' /\ HasRow'
        <3>1. Undisturbed /\ ~raced' /\ fails' = 0
            BY <2>2, CountsStep DEF IInv, Undisturbed
        <3> QED
            BY <3>1, NoEnroll, ApprovedStep, RejectedStep, HasRowStep DEF IInv, Settled
    <2> QED
        BY <2>1, <2>2 DEF IInv, Settled
<1> QED
    BY <1>1, InitHolds, PTL DEF Spec

\* The table of servers, the agent, the handlers of Register and Heartbeat and the state of
\* reconnecting stay well formed through time-outs, crashes and cancelled handlers.
THEOREM TypeCorrect == Spec => [](Formed /\ Bounded /\ Linked)
<1>1. Init => Bounded /\ Linked
    <2> SUFFICES ASSUME Init PROVE Bounded /\ Linked
        OBVIOUS
    <2>1. 0 \in 0 .. MaxCount /\ 0 \in 0 .. MaxFails /\ 0 \in 0 .. MaxDecisions /\ 0 \in 0 .. MaxCuts
        BY BoundsAssumption
    <2>2. Bounded
        BY <2>1, Zenon DEF Init, Bounded
    <2>3. Linked
        BY <2>1, Zenon DEF Init, Linked, Connected
    <2> QED
        BY <2>2, <2>3
<1>2. IInv => Formed
    BY DEF IInv
<1> QED
    BY <1>1, <1>2, BoundsStep, LinkStep, Invariance, PTL DEF Spec

\* HandleUpdateServerStatus alone approves: however calls, heartbeats, crashes and deletions
\* are interleaved, a server is active only after a word of its user, unless a statement
\* came between two of a handler, or a query failed.
THEOREM ApprovedByUser == Spec => []NoUnapproved
<1>1. IInv => NoUnapproved
    BY DEF IInv, Settled, Approved, NoUnapproved
<1> QED
    BY <1>1, Invariance, PTL

\* UpdateServerHeartbeat sets the status without a look at it, and yet brings back no
\* rejected server that ValidateAPIKey saw.
THEOREM RejectionHolds == Spec => []RejectedStays
<1>1. IInv => RejectedStays
    BY DEF IInv, Settled, StaysRejected, RejectedStays
<1> QED
    BY <1>1, Invariance, PTL

\* The agent exits with status 0 only on an answer that the user is the cause of, or on
\* that of a proxy: never after a time-out, a lost connection, a pause, or a key mistyped.
THEOREM GoneByUser == Spec => []GoneOnlyIfRevoked
<1>1. IInv => GoneOnlyIfRevoked
    BY DEF IInv, Settled, HasRow, GoneOnlyIfRevoked
<1> QED
    BY <1>1, Invariance, PTL
=============================================================================
