------------------------------ MODULE Analyzer ------------------------------
(***************************************************************************)
(* From a kernel event to a decision of the agent, and what becomes of it: *)
(*   agent/aggregator_event.go      ProcessEvent, trackedPortForEvent      *)
(*   agent/remediation/analyzer.go  Evaluate, the LRU of states, prune     *)
(*   agent/aggregator_report.go     ReportBlockedIP                        *)
(* with the backend's side of a report and of reconciliation reduced to    *)
(* the rows it adds and applies (module BlockLifecycle has the details).   *)
(*                                                                         *)
(* One goroutine reads the events, decides, changes the kernel's lists and *)
(* reports, in that order and without returning to the events.  The prune  *)
(* ticker, command handlers and reconciliation run beside it.              *)
(*                                                                         *)
(* Times are ages in ticks, saturated at Old.  An event is handled in the  *)
(* tick of its timestamp.  The windows keep the order of the code's:       *)
(* PortScanWindow 30 s, SynFloodWindow 60 s, prune 5 min, eviction and     *)
(* rate limit 10 min, block 1 h.                                           *)
(***************************************************************************)
EXTENDS Integers, Sequences, FiniteSets, SequencesExt

CONSTANTS Addresses,
          HostPorts,          \* ports on which this host has services
          RemotePorts,        \* ports of services this host is a client of
          Ephemeral,          \* the kernel's range of client ports
          SynFloodThreshold, SynFloodWindow,
          PortScanThreshold, PortScanWindow,
          MaxStates,          \* capacity of the LRU
          PruneEvery, EvictAge, LimitTime, BlockTime,
          MaxEvents,          \* bound: events
          MaxFails            \* bound: failed blocks, lost reports and commands, and restarts

ASSUME ThresholdAssumption ==
    SynFloodThreshold \in Nat \ {0} /\ PortScanThreshold \in Nat /\ MaxStates \in Nat \ {0}
ASSUME TimeAssumption ==
    /\ {PortScanWindow, SynFloodWindow, PruneEvery, EvictAge, LimitTime, BlockTime} \subseteq Nat
    /\ 0 < PortScanWindow /\ PortScanWindow <= SynFloodWindow /\ SynFloodWindow <= EvictAge
    /\ 0 < PruneEvery /\ EvictAge + PruneEvery < BlockTime /\ LimitTime = EvictAge
ASSUME BoundsAssumption == MaxEvents \in Nat /\ MaxFails \in Nat

VARIABLES
    states,    \* Analyzer.states
    lru,       \* addresses, the most recently used first
    idle,      \* ticks since the last prune
    job,       \* the decision ProcessEvent is carrying out
    repair,    \* the block that Reconcile is making
    blocked,   \* time left in the block lists of the kernel
    limited,   \* time left in the rate-limit set of the kernel
    tracked,   \* blockedIPs, which IsBlocked reads beside the time left
    whitelist, \* whitelistedIPs
    rows,      \* addresses the backend has an active, permanent block for
    events, fails,
    accepts,   \* ghost: ages of the connections accepted from an address since it has a state
    services,  \* ghost: services that an address and this host have met on
    decided,   \* ghost: actions decided for an address
    excused    \* ghost: addresses whose block failed or was lifted

analysis == <<states, lru>>
kernel == <<blocked, limited, tracked>>
ghosts == <<accepts, services, decided, excused>>
vars == <<analysis, idle, job, repair, kernel, whitelist, rows, events, fails, ghosts>>

Ports == HostPorts \cup RemotePorts \cup Ephemeral
Old == EvictAge + PruneEvery + 1
Ages == 0 .. Old
Forever == BlockTime + 1
None == -1

RingSlots == 1 .. SynFloodThreshold + 1

NoState == [tracked |-> FALSE]
NewState == [tracked |-> TRUE, syns |-> [i \in RingSlots |-> None], synIdx |-> 1,
             ports |-> [p \in {} |-> 0], blocked |-> FALSE, lastLimited |-> None]
NoJob == [pc |-> "idle"]

\* synLen is the number of slots that are not None; rateLimited is set with lastLimited.
IPState ==
    [tracked : {TRUE}, syns : [RingSlots -> Ages \cup {None}], synIdx : RingSlots,
     ports : UNION {[P -> Ages] : P \in SUBSET Ports},
     blocked : BOOLEAN, lastLimited : Ages \cup {None}]

TypeOK ==
    /\ \A ip \in Addresses : states[ip] \in IPState \cup {NoState}
    /\ ToSet(lru) = {ip \in Addresses : states[ip] # NoState}
    /\ IsInjective(lru) /\ Len(lru) <= MaxStates
    /\ idle \in 0 .. PruneEvery
    /\ job = NoJob \/ job \in [pc : {"act", "report", "context"}, ip : Addresses,
                               action : {"block", "limit"}, late : BOOLEAN]
    /\ repair = NoJob \/ repair \in [pc : {"act", "report"}, ip : Addresses, late : BOOLEAN]
    /\ blocked \in [Addresses -> 0 .. Forever]
    /\ limited \in [Addresses -> 0 .. LimitTime]
    /\ tracked \subseteq Addresses /\ whitelist \subseteq Addresses /\ rows \subseteq Addresses
    /\ events \in 0 .. MaxEvents /\ fails \in 0 .. MaxFails

Init ==
    /\ states = [ip \in Addresses |-> NoState] /\ lru = <<>> /\ idle = 0
    /\ job = NoJob /\ repair = NoJob
    /\ blocked = [ip \in Addresses |-> 0] /\ limited = [ip \in Addresses |-> 0]
    /\ tracked = {} /\ whitelist = {} /\ rows = {} /\ events = 0 /\ fails = 0
    /\ accepts = [ip \in Addresses |-> <<>>]
    /\ services = [ip \in Addresses |-> {}]
    /\ decided = [ip \in Addresses |-> {}]
    /\ excused = {}

Fail == fails < MaxFails /\ fails' = fails + 1

-----------------------------------------------------------------------------
(* The events of the probe, and the port they are counted under.           *)

\* A client reaches a service of the host: the connection is accepted, or only
\* the handshake has begun.
Accepted == [dir : {"in"}, lport : HostPorts, rport : Ephemeral, flags : {{"syn", "ack"}}]
HalfOpen == [dir : {"in"}, lport : HostPorts, rport : Ephemeral, flags : {{"syn"}}]

\* The host is the client: it connects, and a datagram or a reset comes back.
Connecting == [dir : {"out"}, lport : Ephemeral, rport : RemotePorts, flags : {{"syn"}}]
Answer == [dir : {"in"}, lport : Ephemeral, rport : RemotePorts, flags : {{}, {"failed"}}]

Events == Accepted \cup HalfOpen \cup Connecting \cup Answer

\* Mutant: the local port of every inbound event.
LocalPortInbound(e) == IF e.dir = "out" THEN e.rport ELSE e.lport

\* An inbound event at an ephemeral local port counts under the remote port.
trackedPortForEvent(e) ==
    IF e.dir = "out" \/ e.lport \in Ephemeral THEN e.rport ELSE e.lport

\* The service the event is about, whoever the client is.
ServiceOf(e) == IF e \in Connecting \cup Answer THEN e.rport ELSE e.lport

-----------------------------------------------------------------------------
(* The state of an address.                                                *)

Others(ip) == SelectSeq(lru, LAMBDA x : x # ip)

\* getOrCreateStateLocked: the address moves to the front; a new one takes the
\* place of the least recently used when the table is full.
Touched(ip) == <<ip>> \o (IF Len(Others(ip)) >= MaxStates THEN Front(lru) ELSE Others(ip))

StateOf(ip) == IF states[ip] = NoState THEN NewState ELSE states[ip]

SynsInWindow(syns) == Cardinality({i \in DOMAIN syns : syns[i] \in 0 .. SynFloodWindow - 1})

\* Mutant: the next slot of the ring is never advanced.
StuckRing(s) == [s EXCEPT !.syns[s.synIdx] = 0]

\* The ring takes the event, whose flag 0x02 the probe sets on accepted connections.
AddSyn(s) ==
    [s EXCEPT !.syns[s.synIdx] = 0,
              !.synIdx = IF @ = Cardinality(RingSlots) THEN 1 ELSE @ + 1]

\* The port is entered, and expired ports are removed.
AddPort(s, p) ==
    LET all == [q \in DOMAIN s.ports \cup {p} |-> IF q = p THEN 0 ELSE s.ports[q]]
        live == {q \in DOMAIN all : all[q] < PortScanWindow}
    IN [s EXCEPT !.ports = [q \in live |-> all[q]]]

Decision(ip, action) == [pc |-> "act", ip |-> ip, action |-> action, late |-> FALSE]

\* Evaluate on an address that is not flagged as blocked: a flood, which leaves
\* the ports alone, or a scan, once per limit, or nothing.
Evaluate(ip, e) ==
    LET s0 == StateOf(ip)
        s1 == IF "ack" \in e.flags THEN AddSyn(s0) ELSE s0
        s2 == AddPort(s1, trackedPortForEvent(e))
        flood == "ack" \in e.flags /\ SynsInWindow(s1.syns) > SynFloodThreshold
        scan == Cardinality(DOMAIN s2.ports) > PortScanThreshold /\ s2.lastLimited = None
    IN CASE s0.blocked -> [state |-> s0, job |-> NoJob]
         [] ~s0.blocked /\ flood ->
                [state |-> [s1 EXCEPT !.blocked = TRUE], job |-> Decision(ip, "block")]
         [] ~s0.blocked /\ ~flood /\ scan ->
                [state |-> [s2 EXCEPT !.lastLimited = 0], job |-> Decision(ip, "limit")]
         [] OTHER -> [state |-> s2, job |-> NoJob]

isWhitelistedIP(ip) == ip \in whitelist

\* ProcessEvent up to the decision.  What the kernel drops makes no event.
ProcessEvent(ip, e) ==
    /\ job = NoJob /\ events < MaxEvents
    /\ e.dir = "in" => blocked[ip] = 0
    /\ IF isWhitelistedIP(ip) THEN UNCHANGED <<analysis, job>>
       ELSE LET verdict == Evaluate(ip, e)
            IN /\ lru' = Touched(ip)
               /\ states' = [a \in Addresses |->
                                 IF a = ip THEN verdict.state
                                 ELSE IF a \in ToSet(lru') THEN states[a] ELSE NoState]
               /\ job' = verdict.job
    /\ events' = events + 1
    /\ accepts' = [a \in Addresses |->
                      IF states'[a] = NoState THEN <<>>
                      ELSE IF a = ip /\ ip \notin whitelist /\ "ack" \in e.flags
                           THEN <<0>> \o accepts[a] ELSE accepts[a]]
    /\ services' = [services EXCEPT ![ip] = @ \cup {ServiceOf(e)}]
    /\ decided' = IF job' = NoJob THEN decided ELSE [decided EXCEPT ![ip] = @ \cup {job'.action}]
    /\ excused' = IF job' # NoJob /\ job'.action = "block" THEN excused \ {ip} ELSE excused
    /\ UNCHANGED <<idle, repair, kernel, whitelist, rows, fails>>

\* remediator.Block or RateLimit: an error ends the matter, and the state of the
\* analyzer keeps its flag.
Remediate ==
    /\ job.pc = "act"
    /\ \/ /\ IF job.action = "block"
             THEN /\ blocked' = [blocked EXCEPT ![job.ip] = BlockTime]
                  /\ tracked' = tracked \cup {job.ip}
                  /\ UNCHANGED limited
             ELSE limited' = [limited EXCEPT ![job.ip] = LimitTime] /\ UNCHANGED <<blocked, tracked>>
          /\ job' = [job EXCEPT !.pc = "report"]
          /\ UNCHANGED <<fails, excused>>
       \/ /\ Fail
          /\ job' = NoJob
          /\ excused' = excused \cup {job.ip}
          /\ UNCHANGED kernel
    /\ UNCHANGED <<analysis, idle, repair, whitelist, rows, events, accepts, services, decided>>

\* A report reaches the backend, which makes a permanent block of it whatever the
\* action is, or is given up after three attempts.
Deliver(ip) ==
    \/ rows' = rows \cup {ip} /\ UNCHANGED fails
    \/ Fail /\ UNCHANGED rows

\* The callback of the remediator reports,
ReportBlockedIP ==
    /\ job.pc = "report"
    /\ Deliver(job.ip)
    /\ job' = [job EXCEPT !.pc = "context"]
    /\ UNCHANGED <<analysis, idle, repair, kernel, whitelist, events, ghosts>>

\* and ProcessEvent once more, with the context of the event.
ReportBlockedIPWithContext ==
    /\ job.pc = "context"
    /\ Deliver(job.ip)
    /\ job' = NoJob
    /\ UNCHANGED <<analysis, idle, repair, kernel, whitelist, events, ghosts>>

-----------------------------------------------------------------------------
(* prune, and time.                                                        *)

Latest(s) ==
    LET times == {s.syns[i] : i \in {j \in DOMAIN s.syns : s.syns[j] # None}}
                 \cup {s.ports[p] : p \in DOMAIN s.ports}
    IN IF times = {} THEN None ELSE CHOOSE t \in times : \A u \in times : t <= u

\* Mutant: a blocked entry is kept for the hour of its block.
ShouldEvictKeepsBlocked(s) ==
    \/ ~s.blocked /\ Latest(s) > EvictAge
    \/ s.lastLimited > EvictAge
    \/ s.blocked /\ Latest(s) > BlockTime

\* Ten minutes without activity, or ten minutes after the limit was decided.
ShouldEvict(s) == Latest(s) > EvictAge \/ s.lastLimited > EvictAge

Prune ==
    /\ LET gone == {ip \in Addresses : states[ip] # NoState /\ ShouldEvict(states[ip])}
       IN /\ states' = [ip \in Addresses |-> IF ip \in gone THEN NoState ELSE states[ip]]
          /\ lru' = SelectSeq(lru, LAMBDA ip : ip \notin gone)
          /\ accepts' = [ip \in Addresses |-> IF ip \in gone THEN <<>> ELSE accepts[ip]]
    /\ idle' = 0
    /\ UNCHANGED <<job, repair, kernel, whitelist, rows, events, fails, services, decided, excused>>

Older(age) == IF age = None \/ age = Old THEN age ELSE age + 1
Aged(s) == IF s = NoState THEN s
           ELSE [s EXCEPT !.syns = [i \in DOMAIN s.syns |-> Older(s.syns[i])],
                          !.ports = [p \in DOMAIN s.ports |-> Older(s.ports[p])],
                          !.lastLimited = Older(@)]
Remaining(d) == IF d \in {0, Forever} THEN d ELSE d - 1

\* The ticker of CleanupRoutine is never later than its interval.
Tick ==
    /\ idle < PruneEvery
    /\ idle' = idle + 1
    /\ states' = [ip \in Addresses |-> Aged(states[ip])]
    /\ blocked' = [ip \in Addresses |-> Remaining(blocked[ip])]
    /\ limited' = [ip \in Addresses |-> Remaining(limited[ip])]
    /\ accepts' = [ip \in Addresses |-> [i \in DOMAIN accepts[ip] |-> Older(accepts[ip][i])]]
    /\ UNCHANGED <<lru, job, repair, tracked, whitelist, rows, events, fails, services, decided, excused>>

-----------------------------------------------------------------------------
(* The backend: unblocks, the whitelist and reconciliation.                *)

Lift(ip) ==
    /\ blocked' = [blocked EXCEPT ![ip] = 0]
    /\ limited' = [limited EXCEPT ![ip] = 0]
    /\ tracked' = tracked \ {ip}
    /\ excused' = excused \cup {ip}
    /\ UNCHANGED <<analysis, idle, events, fails, accepts, services, decided>>

\* A user unblocks the address.  The analyzer is not told.
Unblock(ip) ==
    /\ ip \in rows
    /\ rows' = rows \ {ip}
    /\ Lift(ip)
    /\ UNCHANGED <<job, repair, whitelist>>

SetWhitelistIP(ip, listed) ==
    whitelist' = IF listed THEN whitelist \cup {ip} ELSE whitelist \ {ip}

\* It comes too late for a decision already made for the address.
Overtaken(ip, j) == IF j # NoJob /\ j.ip = ip THEN [j EXCEPT !.late = TRUE] ELSE j

\* A user whitelists the address; what is being done to it goes on.
Whitelist(ip) ==
    /\ ip \notin whitelist
    /\ SetWhitelistIP(ip, TRUE)
    /\ job' = Overtaken(ip, job) /\ repair' = Overtaken(ip, repair)
    /\ Lift(ip)
    /\ UNCHANGED rows

\* The address is taken off the whitelist, with the same two unblock commands.
Unlist(ip) ==
    /\ ip \in whitelist
    /\ SetWhitelistIP(ip, FALSE)
    /\ Lift(ip)
    /\ UNCHANGED <<job, repair, rows>>

\* The agent's memory of a block ends with the block.
IsBlocked(ip) == ip \in tracked /\ blocked[ip] > 0

\* Once a minute one row of the backend after the other is applied as a block of its
\* duration, which is none: onBlock asks the whitelist and blockedIPs,
Reconcile(ip) ==
    /\ repair = NoJob
    /\ ip \in rows /\ ~isWhitelistedIP(ip) /\ ~IsBlocked(ip)
    /\ repair' = [pc |-> "act", ip |-> ip, late |-> FALSE]
    /\ UNCHANGED <<analysis, idle, job, kernel, whitelist, rows, events, fails, ghosts>>

\* and, whatever has become of the address meanwhile, makes the block, unless it fails,
Repair ==
    /\ repair.pc = "act"
    /\ \/ /\ tracked' = tracked \cup {repair.ip}
          /\ blocked' = [blocked EXCEPT ![repair.ip] = Forever]
          /\ repair' = [repair EXCEPT !.pc = "report"]
       \/ repair' = NoJob /\ UNCHANGED <<tracked, blocked>>
    /\ UNCHANGED <<analysis, idle, job, limited, whitelist, rows, events, fails, ghosts>>

\* which the callback of the remediator reports like any other.
ReportRepair ==
    /\ repair.pc = "report"
    /\ Deliver(repair.ip)
    /\ repair' = NoJob
    /\ UNCHANGED <<analysis, idle, job, kernel, whitelist, events, ghosts>>

\* A user unblocks the address while the agent cannot be reached.
UnblockMissed(ip) ==
    /\ ip \in rows /\ Fail
    /\ rows' = rows \ {ip}
    /\ UNCHANGED <<analysis, idle, job, repair, kernel, whitelist, events, ghosts>>

\* What is in the kernel's lists, rate limits included, is reported once; a report
\* may be lost.
SyncBlocklistsToBackend ==
    \E reported \in SUBSET {ip \in Addresses : blocked[ip] + limited[ip] > 0} :
        rows' = rows \cup reported

\* The agent is restarted: the kernel's lists remain.
Restart ==
    /\ Fail
    /\ states' = [ip \in Addresses |-> NoState] /\ lru' = <<>> /\ idle' = 0
    /\ job' = NoJob /\ repair' = NoJob
    /\ tracked' = {} /\ whitelist' = {}
    /\ SyncBlocklistsToBackend
    /\ accepts' = [ip \in Addresses |-> <<>>]
    /\ UNCHANGED <<blocked, limited, events, services, decided, excused>>

Next ==
    \/ \E ip \in Addresses, e \in Events : ProcessEvent(ip, e)
    \/ Remediate \/ ReportBlockedIP \/ ReportBlockedIPWithContext \/ Repair \/ ReportRepair
    \/ Prune \/ Tick \/ Restart
    \/ \E ip \in Addresses : Unblock(ip) \/ Whitelist(ip) \/ Unlist(ip) \/ Reconcile(ip) \/ UnblockMissed(ip)

Spec == Init /\ [][Next]_vars

-----------------------------------------------------------------------------
\* The ring of SynFloodThreshold + 1 times forgets nothing that matters: an address
\* becomes flagged in the step that makes more than SynFloodThreshold connections
\* in one window, counting those accepted since its state was created, and in no other.
InOneWindow(ip) ==
    Cardinality({i \in DOMAIN accepts[ip] : accepts[ip][i] < SynFloodWindow})
Flagged(ip) == states[ip] # NoState /\ states[ip].blocked
FloodIsFlagged ==
    [][\A ip \in Addresses :
          Flagged(ip)' <=> \/ states'[ip] # NoState /\ Flagged(ip)
                           \/ InOneWindow(ip)' > SynFloodThreshold]_vars

\* A flag is the memory of a block: it is never older than the block in the
\* kernel, unless the block failed or was lifted.
FlaggedIsBlocked ==
    \A ip \in Addresses \ excused :
        Flagged(ip) /\ (job.pc = "act" => job.ip # ip)
            => blocked[ip] > 0

\* After a failed or lifted block the address is out of the analyzer's sight for
\* at most EvictAge + PruneEvery, and a scan that goes on is limited again at
\* most PruneEvery after its limit has expired.
BlindSpotEnds ==
    \A ip \in Addresses : states[ip] # NoState =>
        /\ states[ip].blocked => Latest(states[ip]) <= EvictAge + PruneEvery
        /\ states[ip].lastLimited <= EvictAge + PruneEvery

\* An address that meets this host on few services is never taken for a scan,
\* whatever client ports either side uses, when no service of the host has a
\* port of the ephemeral range.
FewServicesNoScan ==
    \A ip \in Addresses :
        Cardinality(services[ip]) <= PortScanThreshold => "limit" \notin decided[ip]

\* ProcessEvent and onBlock ask the whitelist before they act, with no lock: nothing is
\* enforced on a whitelisted address but what one of them had decided before it was listed.
WhitelistHolds ==
    [][\A ip \in whitelist :
          blocked'[ip] > blocked[ip] \/ limited'[ip] > limited[ip] =>
             \E j \in {job, repair} : j # NoJob /\ j.ip = ip /\ j.late]_vars

\* "RateLimit but don't hard block": an address that was only ever limited is
\* not in the block lists.
ScanOnlyLimited ==
    \A ip \in Addresses : blocked[ip] > 0 => "block" \in decided[ip]
=============================================================================
