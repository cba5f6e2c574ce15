--------------------------- MODULE Registration ---------------------------
(***************************************************************************)
(* How a host becomes a monitored server, and how it stops being one:      *)
(*   agent/grpc.go, main.go         registerAndWaitForApproval             *)
(*   agent/aggregator_connect.go    heartbeats and reconnects              *)
(*   internal/api/grpc_handlers.go  Register, GetStatus, Heartbeat         *)
(*   internal/api/apikey.go         keys                                   *)
(*   internal/api/handlers.go       the user approves, pauses, rejects,    *)
(*                                  deletes                                *)
(*   cmd/api/main.go                the checker of stale servers           *)
(*                                                                         *)
(* One key, hence one server: a key is bound to the server id it carries.  *)
(* Each statement of a handler is a step, since no handler opens a         *)
(* transaction; a handler whose caller gave up goes on, or is cancelled.   *)
(* The agent is run by systemd, which restarts it when it ends with an     *)
(* error and leaves it stopped when it exits with status 0.                *)
(***************************************************************************)
EXTENDS Integers

CONSTANTS MaxCalls,      \* bound: calls of Register; each carries its own token
          MaxAttempts,   \* attempts of one registration (5)
          MaxFails,      \* bound: queries that fail
          MaxDecisions,  \* bound: what the user decides
          MaxCuts,       \* bound: losses of the connection, time-outs, crashes, answers of a proxy
          MaxCount,      \* bound: reconnectCount, which stays there
          DurationBits,  \* width of a time.Duration (64)
          Second,        \* one second as a Duration (10^9)
          MaxDelay       \* maxReconnectDelay (5 minutes)

ASSUME BoundsAssumption ==
    /\ MaxCalls \in Nat \ {0} /\ MaxAttempts \in Nat \ {0}
    /\ MaxFails \in Nat /\ MaxDecisions \in Nat /\ MaxCuts \in Nat /\ MaxCount \in Nat \ {0}
ASSUME DurationAssumption ==
    /\ DurationBits \in Nat \ {0} /\ Second \in Nat \ {0}
    /\ MaxDelay \in Second .. 2 ^ (DurationBits - 1) - 1

VARIABLES
    row,     \* the row of the server, or NoRow
    agent,   \* the agent process
    calls,   \* handlers of Register, by number of the call
    beats,   \* handlers of Heartbeat and SubmitTraffic: for the timer and for attemptReconnect
    link,    \* whether the backend can be reached, and the state of reconnecting
    used, fails, decisions, cuts,
    word,    \* ghost: the last word of the user on this row
    revoked, \* ghost: the user rejected or deleted the server at some time
    raced,    \* ghost: statements of two handlers came between each other
    misrouted \* ghost: the agent took the answer of a proxy for that of the backend

counters == <<used, fails, decisions, cuts>>
ghosts == <<word, revoked, raced, misrouted>>
vars == <<row, agent, calls, beats, link, counters, ghosts>>

Calls == 1 .. MaxCalls
Kinds == {"timer", "test"}
Decisions == {"active", "rejected", "inactive"}
NoRow == [status |-> "none", token |-> 0, ip |-> FALSE, stale |-> FALSE]
NoCall == [pc |-> "free", ip |-> FALSE, token |-> 0, status |-> "none"]
NoBeat == [pc |-> "idle", flush |-> FALSE, ip |-> FALSE, waited |-> FALSE]
NoAgent == [pc |-> "none", key |-> "none", ip |-> FALSE, attempt |-> 0, call |-> 0, token |-> 0]
Connected == [reach |-> TRUE, reconnecting |-> "no", count |-> 0, delay |-> Second]

Statuses == Decisions \cup {"none", "pending", "offline"}

\* What is kept of a server: whether an address is known, and whether it was heard
\* of in the last two minutes.
Server == [status : Statuses, token : 0 .. MaxCalls, ip : BOOLEAN, stale : BOOLEAN]

Process == [pc : {"none", "down", "register", "retry", "poll", "run", "gone"},
            key : {"none", "issued", "mistyped"}, ip : BOOLEAN,
            attempt : 0 .. MaxAttempts, call : 0 .. MaxCalls, token : 0 .. MaxCalls]
Handler == [pc : {"free", "key", "ip", "enroll", "create", "done", "error", "refused", "unrouted"},
            ip : BOOLEAN, token : 0 .. MaxCalls, status : Statuses]
Beat == [pc : {"idle", "validate", "update", "ok", "refused", "denied", "failed"},
         flush : BOOLEAN, ip : BOOLEAN, waited : BOOLEAN]

TypeOK ==
    /\ row \in Server /\ agent \in Process
    /\ calls \in [Calls -> Handler] /\ beats \in [Kinds -> Beat]
    /\ link \in [reach : BOOLEAN, reconnecting : {"no", "waiting", "testing"},
                 count : 0 .. MaxCount, delay : -(2 ^ DurationBits) .. MaxDelay]
    /\ used \in 0 .. MaxCalls /\ fails \in 0 .. MaxFails
    /\ decisions \in 0 .. MaxDecisions /\ cuts \in 0 .. MaxCuts
    /\ word \in Decisions \cup {"none"} /\ revoked \in BOOLEAN /\ raced \in BOOLEAN /\ misrouted \in BOOLEAN

Init ==
    /\ row = NoRow /\ agent = NoAgent
    /\ calls = [c \in Calls |-> NoCall] /\ beats = [k \in Kinds |-> NoBeat]
    /\ link = Connected
    /\ used = 0 /\ fails = 0 /\ decisions = 0 /\ cuts = 0
    /\ word = "none" /\ revoked = FALSE /\ raced = FALSE /\ misrouted = FALSE

QueryFails == fails < MaxFails /\ fails' = fails + 1

Exists == row # NoRow

\* Handlers that stand at one of these statements.
Registering(pcs) == \E c \in Calls : calls[c].pc \in pcs
Beating(pcs) == \E k \in Kinds : beats[k].pc \in pcs

-----------------------------------------------------------------------------
(* The statements on the table of servers. *)

GetServerByAPIKey == Exists
GetServerByUserAndIP == Exists /\ row.ip
GetServerByClientToken(token) == Exists /\ row.token = token

\* Mutant: A new server needs no approval.
CreateServerActive(token, ip) ==
    row' = [status |-> "active", token |-> token, ip |-> ip, stale |-> FALSE]

CreateServerWithIDAndAPIKey(token, ip) ==
    row' = [status |-> "pending", token |-> token, ip |-> ip, stale |-> FALSE]

UpdateServerForReenrollment(token) ==
    row' = [row EXCEPT !.status = "active", !.token = token, !.stale = FALSE]

\* Active, whatever the status is now; the address only if there was none.
UpdateServerHeartbeat(ip) ==
    row' = IF Exists THEN [row EXCEPT !.status = "active", !.stale = FALSE, !.ip = @ \/ ip]
           ELSE row

UpdateServerStatus(status) == row' = [row EXCEPT !.status = status]

DeleteServer == row' = NoRow

-----------------------------------------------------------------------------
(* The agent, as far as its approval. *)

\* Mutant: Every end of the process is taken for a permanent failure.
ExitGone(status) == agent' = [NoAgent EXCEPT !.pc = "gone", !.key = agent.key]

\* The process ends: with status 0 it stays down, else systemd starts it again.
Exit(status) ==
    agent' = [NoAgent EXCEPT !.pc = IF status = 0 THEN "gone" ELSE "down", !.key = agent.key]

\* The user generates a key and installs the agent with it, or with a slip in it
\* that is put right later.
Install ==
    /\ agent.pc \in {"none", "down"}
    /\ \E key \in {"issued", "mistyped"} :
           /\ agent.key = "none" \/ (agent.key = "mistyped" /\ key = "issued")
           /\ agent' = [NoAgent EXCEPT !.pc = "down", !.key = key]
    /\ UNCHANGED <<row, calls, beats, link, counters, ghosts>>

\* A key whose signature does not verify is refused before any query.
DecodeAPIKey(key) == key = "issued"

\* An attempt calls Register, if the backend can be reached; what its handler
\* does next depends on its queries alone.
CallRegister(attempt, ip) ==
    /\ used < MaxCalls /\ used' = used + 1
    /\ agent' = [agent EXCEPT !.pc = "register", !.attempt = attempt, !.ip = ip, !.call = used + 1]
    /\ calls' = [calls EXCEPT ![used + 1] =
                    [NoCall EXCEPT !.ip = ip,
                                   !.pc = IF ~link.reach THEN "error"
                                          ELSE IF DecodeAPIKey(agent.key) THEN "key" ELSE "refused"]]
    /\ UNCHANGED <<row, beats, link, fails, decisions, cuts, ghosts>>

\* The public address is found, or the host has no route and it is empty.
getPublicIP == BOOLEAN

Launch ==
    /\ agent.pc = "down"
    /\ \E ip \in getPublicIP : CallRegister(1, ip)

RetryRegister ==
    /\ agent.pc = "retry"
    /\ CallRegister(agent.attempt + 1, agent.ip)

\* An error that is worth another attempt, until the attempts are used up.
RegisterError ==
    IF agent.attempt < MaxAttempts
    THEN agent' = [agent EXCEPT !.pc = "retry", !.call = 0]
    ELSE Exit(1)

isRetriableRegisterError(pc) == pc = "error"

\* The deadline of ten seconds passes, or the connection breaks: the handler is on its own.
RegisterTimesOut ==
    /\ agent.pc = "register" /\ calls[agent.call].pc \in {"key", "ip", "enroll", "create"}
    /\ cuts < MaxCuts /\ cuts' = cuts + 1
    /\ RegisterError
    /\ UNCHANGED <<row, calls, beats, link, used, fails, decisions, ghosts>>

\* A proxy before the backend has no route for the call and answers it with status 404,
\* which reaches the agent as an error of gRPC that is not worth another attempt.
ProxyAnswers ==
    /\ agent.pc = "register" /\ calls[agent.call].pc = "key"
    /\ cuts < MaxCuts /\ cuts' = cuts + 1
    /\ calls' = [calls EXCEPT ![agent.call].pc = "unrouted"]
    /\ UNCHANGED <<row, agent, beats, link, used, fails, decisions, ghosts>>

\* The reply of Register.  What main makes of an error hangs on its text: the one of the
\* proxy says "404 (Not Found)", which passes for a server that is gone.
RegisterReturns ==
    /\ agent.pc = "register"
    /\ LET call == calls[agent.call]
       IN /\ \/ /\ call.pc = "done"
                /\ agent' = [agent EXCEPT !.pc = IF call.status = "active" THEN "run" ELSE "poll",
                                          !.token = call.token, !.call = 0]
             \/ isRetriableRegisterError(call.pc) /\ RegisterError
             \/ call.pc = "refused" /\ Exit(1)
             \/ call.pc = "unrouted" /\ Exit(0)
          /\ misrouted' = (misrouted \/ call.pc = "unrouted")
    /\ calls' = [calls EXCEPT ![agent.call] = NoCall]
    /\ UNCHANGED <<row, beats, link, counters, word, revoked, raced>>

\* GetStatus finds the row by the token; a query that fails reads as no such row.
GetStatus(token) == IF GetServerByClientToken(token) THEN row.status ELSE "NotFound"

\* Poll for approval: any other status, or an error of the transport, means to go on.
PollStatus ==
    /\ agent.pc = "poll" /\ link.reach
    /\ \/ /\ GetStatus(agent.token) = "active"
          /\ agent' = [agent EXCEPT !.pc = "run"] /\ UNCHANGED fails
       \/ /\ GetStatus(agent.token) \in {"rejected", "NotFound"}
          /\ Exit(0) /\ UNCHANGED fails
       \/ QueryFails /\ Exit(0)
    /\ UNCHANGED <<row, calls, beats, link, used, decisions, cuts, ghosts>>

-----------------------------------------------------------------------------
(* Register in the backend, a statement at a time. *)

To(c, pc) == calls' = [calls EXCEPT ![c].pc = pc]

\* A reply nobody waits for is dropped.
Reply(c, pc, status, token) ==
    calls' = [calls EXCEPT ![c] = IF agent.call = c
                                  THEN [@ EXCEPT !.pc = pc, !.status = status, !.token = token]
                                  ELSE NoCall]

ReplyError(c) == Reply(c, "error", "none", 0)

\* GetServerByAPIKey: any error reads as no such row.
LookupKey(c) ==
    /\ calls[c].pc = "key"
    /\ \/ GetServerByAPIKey /\ Reply(c, "done", row.status, row.token) /\ UNCHANGED fails
       \/ /\ ~GetServerByAPIKey
          /\ To(c, IF calls[c].ip THEN "ip" ELSE "create")
          /\ UNCHANGED fails
       \/ /\ QueryFails
          /\ To(c, IF calls[c].ip THEN "ip" ELSE "create")
    /\ UNCHANGED <<row, agent, beats, link, used, decisions, cuts, ghosts>>

\* GetServerByUserAndIP: any error reads as no such row.
LookupAddress(c) ==
    /\ calls[c].pc = "ip"
    /\ \/ /\ To(c, IF GetServerByUserAndIP THEN "enroll" ELSE "create")
          /\ UNCHANGED fails
       \/ QueryFails /\ To(c, "create")
    /\ raced' = (raced \/ Exists)
    /\ UNCHANGED <<row, agent, beats, link, used, decisions, cuts, word, revoked, misrouted>>

\* The server is active, whatever its status was; if it is gone there is an error.
Reenroll(c) ==
    /\ calls[c].pc = "enroll"
    /\ IF Exists
       THEN /\ UpdateServerForReenrollment(c)
            /\ Reply(c, "done", "active", c)
       ELSE ReplyError(c) /\ UNCHANGED row
    /\ UNCHANGED <<agent, beats, link, counters, ghosts>>

\* The key and the id are unique.  A late heartbeat
\* for a row that was deleted finds this one.
CreateServer(c) ==
    /\ calls[c].pc = "create"
    /\ IF Exists
       THEN ReplyError(c) /\ UNCHANGED <<row, word>>
       ELSE /\ CreateServerWithIDAndAPIKey(c, calls[c].ip)
            /\ Reply(c, "done", "pending", c)
            /\ word' = "none"
    /\ raced' = (raced \/ Beating({"validate", "update"}))
    /\ UNCHANGED <<agent, beats, link, counters, revoked, misrouted>>

\* A handler nobody waits for is cancelled between two statements.
CancelCall(c) ==
    /\ calls[c].pc # "free" /\ agent.call # c
    /\ calls' = [calls EXCEPT ![c] = NoCall]
    /\ UNCHANGED <<row, agent, beats, link, counters, ghosts>>

-----------------------------------------------------------------------------
(* Heartbeats and reconnects. *)

\* A Duration is a signed integer of DurationBits bits.
Wrap(x) == LET r == x % (2 ^ DurationBits)
           IN IF r >= 2 ^ (DurationBits - 1) THEN r - 2 ^ DurationBits ELSE r

\* time.Duration(1 << count) * time.Second, and at most maxReconnectDelay.
Delay(count) == LET d == Wrap(2 ^ count * Second) IN IF d < MaxDelay THEN d ELSE MaxDelay

\* scheduleReconnect, of a state of reconnecting in which none is under way.
Scheduled(l) ==
    [l EXCEPT !.reconnecting = "waiting", !.delay = Delay(l.count),
              !.count = IF @ < MaxCount THEN @ + 1 ELSE @]

scheduleReconnect(l) == IF l.reconnecting = "no" THEN Scheduled(l) ELSE l

Begin(k, flush, ip) ==
    beats' = [beats EXCEPT ![k] = [pc |-> "validate", flush |-> flush, ip |-> ip, waited |-> TRUE]]

\* The timer's goroutine flushes every 10 seconds and sends a heartbeat every 30, one
\* at a time.  A call that does not reach the backend fails at once.
TimerCalls(flush, ip) ==
    /\ agent.pc = "run" /\ beats["timer"] = NoBeat
    /\ IF link.reach
       THEN Begin("timer", flush, ip) /\ UNCHANGED link
       ELSE link' = scheduleReconnect(link) /\ UNCHANGED beats
    /\ UNCHANGED <<row, agent, calls, counters, ghosts>>

SendHeartbeat == TimerCalls(FALSE, agent.ip)
FlushToAPI == TimerCalls(TRUE, FALSE)

\* checkConnection: the connection is in transient failure.
CheckConnection ==
    /\ agent.pc = "run" /\ ~link.reach
    /\ link.reconnecting = "no"
    /\ link' = scheduleReconnect(link)
    /\ UNCHANGED <<row, agent, calls, beats, counters, ghosts>>

\* A failed test clears reconnecting and schedules the next.
TestFailed == link' = Scheduled(link)

\* attemptReconnect, after the delay: a heartbeat without address tests the new connection.
AttemptReconnect ==
    /\ agent.pc = "run" /\ link.reconnecting = "waiting" /\ beats["test"] = NoBeat
    /\ IF link.reach
       THEN /\ Begin("test", FALSE, FALSE)
            /\ link' = [link EXCEPT !.reconnecting = "testing"]
       ELSE TestFailed /\ UNCHANGED beats
    /\ UNCHANGED <<row, agent, calls, counters, ghosts>>

\* Mutant: A rejected server passes for a known one.
ValidateAPIKeyExists == Exists

\* Mutant: A signature that verifies is enough.
ValidateSignature == TRUE

\* ValidateAPIKey: the row exists and is not revoked.
ValidateAPIKey == GetServerByAPIKey /\ row.status # "rejected"

\* A reply nobody waits for is dropped.
Answer(k, pc) ==
    beats' = [beats EXCEPT ![k] = IF beats[k].waited THEN [@ EXCEPT !.pc = pc] ELSE NoBeat]

\* A query that fails reads as an unknown key.  Heartbeat looks at the status once more, of
\* the row that this query returned, so that its second test finds nothing.  Traffic is
\* taken from an active server only; an unknown key and another status are different errors
\* to it.
ValidateBeat(k) ==
    /\ beats[k].pc = "validate"
    /\ \/ /\ ValidateAPIKey /\ (beats[k].flush => row.status = "active")
          /\ beats' = [beats EXCEPT ![k].pc = "update"]
          /\ UNCHANGED fails
       \/ /\ ValidateAPIKey /\ beats[k].flush /\ row.status # "active"
          /\ Answer(k, "denied")
          /\ UNCHANGED fails
       \/ /\ ~ValidateAPIKey /\ UNCHANGED fails
          /\ Answer(k, IF beats[k].flush THEN "failed" ELSE "refused")
       \/ /\ QueryFails
          /\ Answer(k, IF beats[k].flush THEN "failed" ELSE "refused")
    /\ UNCHANGED <<row, agent, calls, link, used, decisions, cuts, ghosts>>

\* Then it updates the row, without another look at its status.  SubmitTraffic
\* goes on if that fails.
UpdateBeat(k) ==
    /\ beats[k].pc = "update"
    /\ \/ /\ Answer(k, "ok")
          /\ UpdateServerHeartbeat(beats[k].ip)
          /\ UNCHANGED fails
       \/ /\ QueryFails
          /\ Answer(k, IF beats[k].flush THEN "ok" ELSE "failed")
          /\ UNCHANGED row
    /\ UNCHANGED <<agent, calls, link, used, decisions, cuts, ghosts>>

\* The process is gone: nobody waits for its handlers, and its reconnecting is forgotten.
Leave(status) ==
    /\ Exit(status)
    /\ link' = [Connected EXCEPT !.reach = link.reach]
    /\ beats' = [k \in Kinds |-> IF beats[k].pc \in {"validate", "update"}
                                 THEN [beats[k] EXCEPT !.waited = FALSE] ELSE NoBeat]

\* A heartbeat refused stops the agent, which then exits with status 0.  Traffic of a
\* server that is not active terminates it, with status 1.
TimerReturns ==
    /\ beats["timer"].waited
    /\ \/ beats["timer"].pc = "refused" /\ Leave(0)
       \/ beats["timer"].pc = "denied" /\ Leave(1)
       \/ /\ beats["timer"].pc \in {"ok", "failed"}
          /\ link' = IF beats["timer"].pc = "failed" THEN scheduleReconnect(link) ELSE link
          /\ beats' = [beats EXCEPT !["timer"] = NoBeat]
          /\ UNCHANGED agent
    /\ UNCHANGED <<row, calls, counters, ghosts>>

\* attemptReconnect only asks whether there was an error: a refusal counts as success.
TestReturns ==
    /\ beats["test"].waited /\ beats["test"].pc \in {"ok", "refused", "failed"}
    /\ IF beats["test"].pc = "failed"
       THEN TestFailed
       ELSE link' = [link EXCEPT !.reconnecting = "no", !.count = 0]
    /\ beats' = [beats EXCEPT !["test"] = NoBeat]
    /\ UNCHANGED <<row, agent, calls, counters, ghosts>>

\* The deadline of a heartbeat passes, or its connection breaks.
BeatTimesOut(k) ==
    /\ beats[k].waited /\ beats[k].pc \in {"validate", "update"}
    /\ cuts < MaxCuts /\ cuts' = cuts + 1
    /\ beats' = [beats EXCEPT ![k].waited = FALSE]
    /\ IF k = "test" THEN TestFailed ELSE link' = scheduleReconnect(link)
    /\ UNCHANGED <<row, agent, calls, used, fails, decisions, ghosts>>

\* A handler nobody waits for is cancelled between two statements.
CancelBeat(k) ==
    /\ beats[k] # NoBeat /\ ~beats[k].waited
    /\ beats' = [beats EXCEPT ![k] = NoBeat]
    /\ UNCHANGED <<row, agent, calls, link, counters, ghosts>>

-----------------------------------------------------------------------------
(* The user, the checker of stale servers, time, the network. *)

\* The user approves, rejects or pauses the server.
HandleUpdateServerStatus ==
    /\ Exists /\ decisions < MaxDecisions /\ decisions' = decisions + 1
    /\ \E status \in Decisions :
           /\ UpdateServerStatus(status)
           /\ word' = status
           /\ revoked' = (revoked \/ status = "rejected")
    /\ raced' = (raced \/ Beating({"update"}) \/ Registering({"ip", "enroll", "create"}))
    /\ UNCHANGED <<agent, calls, beats, link, used, fails, cuts, misrouted>>

\* The user deletes the server: the row goes, and what refers to it.  A registration that
\* is under way makes the server anew.
HandleDeleteServer ==
    /\ Exists /\ decisions < MaxDecisions /\ decisions' = decisions + 1
    /\ DeleteServer /\ word' = "none" /\ revoked' = TRUE
    /\ raced' = (raced \/ Registering({"key", "ip", "enroll", "create"}))
    /\ UNCHANGED <<agent, calls, beats, link, used, fails, cuts, misrouted>>

\* Two minutes without a heartbeat: no agent is running, or it is cut off.
Age ==
    /\ Exists /\ ~row.stale
    /\ agent.pc # "run" \/ ~link.reach
    /\ row' = [row EXCEPT !.stale = TRUE]
    /\ UNCHANGED <<agent, calls, beats, link, counters, ghosts>>

\* The checker of stale servers, every minute.
MarkStaleServersOffline ==
    /\ row.status = "active" /\ row.stale
    /\ row' = [row EXCEPT !.status = "offline"]
    /\ UNCHANGED <<agent, calls, beats, link, counters, ghosts>>

\* The process is killed, or its host restarts.
Crash ==
    /\ agent.pc \in {"register", "retry", "poll", "run"}
    /\ cuts < MaxCuts /\ cuts' = cuts + 1
    /\ Leave(1)
    /\ UNCHANGED <<row, calls, used, fails, decisions, ghosts>>

LoseConnection ==
    /\ link.reach /\ cuts < MaxCuts /\ cuts' = cuts + 1
    /\ link' = [link EXCEPT !.reach = FALSE]
    /\ UNCHANGED <<row, agent, calls, beats, used, fails, decisions, ghosts>>

RegainConnection ==
    /\ ~link.reach
    /\ link' = [link EXCEPT !.reach = TRUE]
    /\ UNCHANGED <<row, agent, calls, beats, counters, ghosts>>

Next ==
    \/ Install \/ Launch \/ RetryRegister \/ RegisterTimesOut \/ ProxyAnswers \/ RegisterReturns
    \/ PollStatus
    \/ \E c \in Calls : LookupKey(c) \/ LookupAddress(c) \/ Reenroll(c) \/ CreateServer(c)
                        \/ CancelCall(c)
    \/ SendHeartbeat \/ FlushToAPI \/ CheckConnection \/ AttemptReconnect
    \/ TimerReturns \/ TestReturns
    \/ \E k \in Kinds : ValidateBeat(k) \/ UpdateBeat(k) \/ BeatTimesOut(k) \/ CancelBeat(k)
    \/ HandleUpdateServerStatus \/ HandleDeleteServer \/ Age \/ MarkStaleServersOffline
    \/ Crash \/ LoseConnection \/ RegainConnection

Spec == Init /\ [][Next]_vars

\* Timers tick, handlers with a caller run on, connections come back.  Nothing
\* is asked of the user, of crashes, nor of handlers without a caller.
Fairness ==
    /\ WF_vars(PollStatus) /\ SF_vars(SendHeartbeat) /\ SF_vars(AttemptReconnect)
    /\ WF_vars(TimerReturns) /\ WF_vars(TestReturns) /\ WF_vars(RegainConnection)
    /\ \A k \in Kinds : WF_vars(ValidateBeat(k)) /\ WF_vars(UpdateBeat(k)) /\ WF_vars(CancelBeat(k))

FairSpec == Spec /\ Fairness

-----------------------------------------------------------------------------
(* Properties. *)

\* No statement found a state that another handler, or a failed query, had made stale.
Undisturbed == fails = 0 /\ ~raced

\* A server is monitored only after its user approved it.  The branch that
\* enrols a known address as active can be reached only by two registrations
\* that overlap, or after a lookup that failed.
NoUnapproved ==
    row.status \in {"active", "offline"} => (word # "none" \/ ~Undisturbed)

\* A rejected server stays rejected: no heartbeat brings it back, unless it
\* was validated before the user spoke.
RejectedStays == word = "rejected" => (row.status = "rejected" \/ ~Undisturbed)

\* An agent that is gone for good was rejected or deleted at some time: a
\* crash, a lost connection, a time-out, a pause or a wrong key do not end it.
\* A query that fails does, since it reads as an unknown key or token, and so does
\* a proxy that answers a registration with "Not Found".
GoneOnlyIfRevoked == agent.pc = "gone" => (revoked \/ misrouted \/ ~Undisturbed)

\* An agent that is rejected or deleted stops, whatever it was doing, unless
\* the user changes his mind in time.
RevokedStops ==
    (agent.pc \in {"poll", "run"} /\ row.status \in {"rejected", "none"})
        ~> (agent.pc \notin {"poll", "run"} \/ row.status \notin {"rejected", "none"})

\* One who is approved while it waits is let in, unless the status changes
\* again; the checker of stale servers may be the one who changes it.
ApprovedRuns ==
    (agent.pc = "poll" /\ row.status = "active") ~> (agent.pc # "poll" \/ row.status # "active")

\* A reconnect under way comes to an end once the backend can be reached.
Reconnects ==
    (link.reconnecting # "no") ~> (link.reconnecting = "no" \/ ~link.reach)

-----------------------------------------------------------------------------
(* What documents and comments say of it. *)

\* docs/TRUST_MODEL.md: an agent whose key is invalid retries registration.
RefusedRegistersAgain == (beats["timer"].pc = "refused" /\ beats["timer"].waited) ~> agent.pc = "register"

\* The comment on HandleUpdateServerStatus: the user can pause a server.
PauseHolds == word = "inactive" /\ Undisturbed => row.status = "inactive"

\* docs/TRUST_MODEL.md: the agent retries with exponential backoff.
BacksOff == [][link'.count > link.count => link'.delay >= link.delay]_vars
=============================================================================
