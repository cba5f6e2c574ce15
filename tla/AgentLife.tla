---------------------------- MODULE AgentLife ----------------------------
(***************************************************************************)
(* Start, stop and restart of the agent, and what it leaves in the kernel: *)
(*   agent/main.go              main, handleShutdown, runEventLoop         *)
(*   agent/ebpf.go              traffic probes                             *)
(*   agent/aggregator.go        NewAggregator, Stop, Close                 *)
(*   agent/remediation/         Setup and Teardown of ipset and XDP, the   *)
(*                              reader of blocked packets, SetRateLimit,   *)
(*                              map snapshots                              *)
(*   agent/cli.go               -flush-blocklists, -list-blocked           *)
(*                                                                         *)
(* A process has a main goroutine (start-up, then the event loop), the     *)
(* goroutine of handleShutdown, the one of the flush timer, which sends    *)
(* heartbeats, and the reader of blocked packets.  The process ends when   *)
(* main returns, whatever the others are doing.  Kernel objects outlive    *)
(* it: iptables rules, ipsets, and the XDP maps, which are pinned.  The    *)
(* XDP program itself is attached by a link that dies with the process.    *)
(*                                                                         *)
(* Six of the seven XDP maps are one record, since they are pinned and     *)
(* unpinned together: the blocked addresses and the configured rate limit. *)
(* The seventh, the ring buffer of blocked packets, is pinned by its name  *)
(* in the program, and nothing unpins it.                                  *)
(***************************************************************************)
EXTENDS Naturals, FiniteSets

CONSTANTS Addresses,  \* what may be blocked
          MaxStarts,  \* bound: starts of the process
          MaxFails    \* bound: commands and kernel calls that fail

ASSUME AddressesAssumption == IsFiniteSet(Addresses)
ASSUME BoundsAssumption == MaxStarts \in Nat \ {0} /\ MaxFails \in Nat

VARIABLES
    main,     \* where main stands
    shut,     \* where handleShutdown stands
    timer,    \* the goroutine of StartFlushTimer: it may be inside Stop
    reader,   \* readBlockedPackets: past its look at ringbufCancel, or not
    mu,       \* XDPRemediator.mu: free, or held by Teardown
    proc,     \* the memory of the process
    host,     \* iptables rules, ipsets, the attached XDP program
    pins,     \* the six pinned XDP maps, or NoMaps
    events,   \* the pinned xdp_block_events: the start that created it, or 0
    ended,    \* why the last process ended
    starts, fails,
    flushed,  \* ghost: Close has made its final flush
    asked     \* ghost: who asked this process to stop: signal, backend

goroutines == <<main, shut, timer, reader, mu>>
kernel == <<host, pins, events>>
bounds == <<starts, fails>>
vars == <<main, shut, timer, reader, mu, proc, host, pins, events, ended, starts, fails, flushed, asked>>

Startup == {"probes", "sets", "rules", "load", "attach", "limit", "freeze", "wire"}
NoMaps == [id |-> 0, blocked |-> {}, limit |-> 0, frozen |-> FALSE]
CleanHost == [rules |-> FALSE, sets |-> FALSE, listed |-> {}, linked |-> FALSE]
FreshProcess == [without |-> {}, xdp |-> FALSE, attached |-> FALSE, ringbuf |-> FALSE,
                 stopChan |-> FALSE, rd |-> FALSE, snapshot |-> NoMaps, events |-> 0]

\* The limits that Setup configures are those of the program version, here one per start.
Limit == starts

\* The pinned maps, the memory of a process, and what the kernel keeps.
Maps == [id : 0 .. MaxStarts, blocked : SUBSET Addresses, limit : 0 .. MaxStarts, frozen : BOOLEAN]
Processes == [without : SUBSET {"tracepoint", "capacity"}, xdp : BOOLEAN, attached : BOOLEAN,
              ringbuf : BOOLEAN, stopChan : BOOLEAN, rd : BOOLEAN, snapshot : Maps,
              events : 0 .. MaxStarts]
Hosts == [rules : BOOLEAN, sets : BOOLEAN, listed : SUBSET Addresses, linked : BOOLEAN]

PlacesOK ==
    /\ main \in {"down", "run"} \cup Startup
    /\ shut \in {"off", "wait", "check", "close", "join", "flush", "rdclose", "teardown",
                 "stopReader", "unpin", "ipset", "exit"}
    /\ timer \in {"off", "idle", "closing", "done"}
    /\ reader \in {"off", "check", "read", "blocked", "done"}
    /\ mu \in {"free", "teardown"}
    /\ ended \in {"never", "failed", "killed", "returned", "exit", "panic", "nil"}

TypeOK ==
    /\ PlacesOK
    /\ pins \in Maps /\ events \in 0 .. MaxStarts
    /\ proc \in Processes /\ host \in Hosts
    /\ starts \in 0 .. MaxStarts /\ fails \in 0 .. MaxFails
    /\ flushed \in BOOLEAN /\ asked \subseteq {"signal", "backend"}

Init ==
    /\ main = "down" /\ shut = "off" /\ timer = "off" /\ reader = "off" /\ mu = "free"
    /\ proc = FreshProcess /\ host = CleanHost /\ pins = NoMaps /\ events = 0
    /\ ended = "never" /\ starts = 0 /\ fails = 0
    /\ flushed = FALSE /\ asked = {}

\* The process is gone, with its goroutines, its memory and its links.
End(why) ==
    /\ main' = "down" /\ shut' = "off" /\ timer' = "off" /\ reader' = "off" /\ mu' = "free"
    /\ proc' = FreshProcess
    /\ ended' = why

Unlinked == [host EXCEPT !.linked = FALSE]

MayFail == fails < MaxFails /\ fails' = fails + 1

-----------------------------------------------------------------------------
(* Start-up, in the order of main. *)

\* Flags are read and the backend has approved the agent.
Launch ==
    /\ main = "down" /\ starts < MaxStarts
    /\ main' = "probes" /\ starts' = starts + 1
    /\ flushed' = FALSE /\ asked' = {}
    /\ UNCHANGED <<shut, timer, reader, mu, proc, kernel, ended, fails>>

\* A step of the start-up that fails in a way that main does not survive.
StartupFails ==
    /\ main \in {"probes", "sets", "rules", "wire"}
    /\ MayFail
    /\ End("failed")
    /\ host' = Unlinked
    /\ UNCHANGED <<pins, events, starts, flushed, asked>>

\* The verifier rejects the optional tracepoint, or memory is short: the next
\* attempt goes without the one, or with smaller maps.
RetryLoad ==
    /\ main = "probes"
    /\ \E without \in {"tracepoint", "capacity"} \ proc.without :
           proc' = [proc EXCEPT !.without = @ \cup {without}]
    /\ MayFail
    /\ UNCHANGED <<main, shut, timer, reader, mu, kernel, ended, starts, flushed, asked>>

\* The probes are attached, their stale pins replaced, and the ring buffer is opened.
LoadProbes ==
    /\ main = "probes" /\ main' = "sets"
    /\ proc' = [proc EXCEPT !.rd = TRUE]
    /\ UNCHANGED <<shut, timer, reader, mu, kernel, ended, bounds, flushed, asked>>

\* ipset create -exist keeps what is there; then the chain is flushed.
CreateIPSets ==
    /\ main = "sets" /\ main' = "rules"
    /\ host' = [host EXCEPT !.sets = TRUE, !.rules = FALSE]
    /\ UNCHANGED <<shut, timer, reader, mu, proc, pins, events, ended, bounds, flushed, asked>>

\* Restore finds no file: nothing calls Save.
SetupIPTables ==
    /\ main = "rules" /\ main' = "load"
    /\ host' = [host EXCEPT !.rules = TRUE]
    /\ UNCHANGED <<shut, timer, reader, mu, proc, pins, events, ended, bounds, flushed, asked>>

\* Mutant: The maps are created anew at every start.
LoadedAnew == [NoMaps EXCEPT !.id = starts]

\* LoadAndAssign takes the pinned maps when they are there, each by its name.
Loaded == IF pins = NoMaps THEN [NoMaps EXCEPT !.id = starts] ELSE pins

\* captureMapSnapshots: identity, and content of what is to be frozen.
Captured == [Loaded EXCEPT !.blocked = {}]

LoadXDP ==
    /\ main = "load" /\ main' = "attach"
    /\ pins' = Loaded
    /\ events' = IF events = 0 THEN starts ELSE events
    /\ proc' = [proc EXCEPT !.xdp = TRUE, !.snapshot = Captured, !.events = events']
    /\ UNCHANGED <<shut, timer, reader, mu, host, ended, bounds, flushed, asked>>

\* The interface or the object file is missing: only ipset is used.
LoadXDPFails ==
    /\ main = "load" /\ main' = "wire"
    /\ MayFail
    /\ UNCHANGED <<shut, timer, reader, mu, proc, kernel, ended, starts, flushed, asked>>

AttachXDP ==
    /\ main = "attach" /\ main' = "limit"
    /\ host' = [host EXCEPT !.linked = TRUE]
    /\ proc' = [proc EXCEPT !.attached = TRUE]
    /\ UNCHANGED <<shut, timer, reader, mu, pins, events, ended, bounds, flushed, asked>>

\* Neither mode attaches: cleanup unpins the maps, those of an earlier run too, and
\* closes xdp_block_events, which stays pinned.
AttachXDPFails ==
    /\ main = "attach" /\ main' = "wire"
    /\ MayFail
    /\ pins' = NoMaps
    /\ proc' = [proc EXCEPT !.xdp = FALSE]
    /\ UNCHANGED <<shut, timer, reader, mu, host, events, ended, starts, flushed, asked>>

\* SetRateLimit leaves a frozen map alone.
SetRateLimit ==
    /\ main = "limit"
    /\ IF pins.frozen
       THEN main' = "wire" /\ UNCHANGED pins
       ELSE main' = "freeze" /\ pins' = [pins EXCEPT !.limit = Limit]
    /\ UNCHANGED <<shut, timer, reader, mu, proc, host, events, ended, bounds, flushed, asked>>

\* Mutant: The snapshot is not taken again once the map is configured.
FreezeForgetsSnapshot ==
    /\ main = "freeze" /\ main' = "wire"
    /\ pins' = [pins EXCEPT !.frozen = TRUE]
    /\ proc' = [proc EXCEPT !.snapshot.frozen = TRUE]
    /\ UNCHANGED <<shut, timer, reader, mu, host, events, ended, bounds, flushed, asked>>

Freeze ==
    /\ main = "freeze" /\ main' = "wire"
    /\ pins' = [pins EXCEPT !.frozen = TRUE]
    /\ proc' = [proc EXCEPT !.snapshot.frozen = TRUE, !.snapshot.limit = pins.limit]
    /\ UNCHANGED <<shut, timer, reader, mu, host, events, ended, bounds, flushed, asked>>

\* NewAggregator, StartBlockedPacketReader, the command client, StartFlushTimer,
\* and the goroutine that waits for a signal.
Run(reading) ==
    /\ main = "wire" /\ main' = "run"
    /\ shut' = "wait" /\ timer' = "idle"
    /\ IF reading
       THEN reader' = "check" /\ proc' = [proc EXCEPT !.ringbuf = TRUE]
       ELSE UNCHANGED <<reader, proc>>
    /\ UNCHANGED <<mu, kernel, ended, starts, flushed, asked>>

Wire == Run(proc.attached) /\ UNCHANGED fails
WireWithoutReader == proc.attached /\ Run(FALSE) /\ MayFail

\* The kernel has no BPF_MAP_FREEZE: the map stays writable.
FreezeFails ==
    /\ main = "freeze" /\ main' = "wire"
    /\ MayFail
    /\ UNCHANGED <<shut, timer, reader, mu, proc, kernel, ended, starts, flushed, asked>>

-----------------------------------------------------------------------------
(* The running agent. *)

\* Block in both places; Enforcement has the steps.  XDP waits for the mutex.
Block(a) ==
    /\ main = "run" /\ mu = "free"
    /\ proc.attached \/ host.sets
    /\ pins' = IF proc.attached THEN [pins EXCEPT !.blocked = @ \cup {a}] ELSE pins
    /\ host' = IF host.sets THEN [host EXCEPT !.listed = @ \cup {a}] ELSE host
    /\ UNCHANGED <<goroutines, proc, events, ended, bounds, flushed, asked>>

\* One turn of readBlockedPackets up to Read: ringbufCancel is still open.
ReaderLooks ==
    /\ reader = "check"
    /\ reader' = IF shut = "unpin" THEN "done" ELSE "read"
    /\ UNCHANGED <<main, shut, timer, mu, proc, kernel, ended, bounds, flushed, asked>>

\* The field is read without the lock: calling Read on nil panics.
ReaderDerefs ==
    /\ reader = "read"
    /\ IF proc.ringbuf
       THEN reader' = "blocked" /\ UNCHANGED <<main, shut, timer, mu, proc, host, ended>>
       ELSE End("nil") /\ host' = Unlinked
    /\ UNCHANGED <<pins, events, bounds, flushed, asked>>

\* Read returns a packet, which is reported, or an error.
ReaderReturns ==
    /\ reader = "blocked"
    /\ reader' = "check"
    /\ UNCHANGED <<main, shut, timer, mu, proc, kernel, ended, bounds, flushed, asked>>

\* The backend does not accept the heartbeat: Stop finds stopChan open.
HeartbeatRefused ==
    /\ timer = "idle" /\ ~proc.stopChan
    /\ timer' = "closing"
    /\ asked' = asked \cup {"backend"}
    /\ UNCHANGED <<main, shut, reader, mu, proc, kernel, ended, bounds, flushed>>

\* Stop closes the channel that it saw open; closing it a second time panics.
CloseStopChan ==
    IF proc.stopChan
    THEN End("panic") /\ host' = Unlinked
    ELSE /\ proc' = [proc EXCEPT !.stopChan = TRUE]
         /\ UNCHANGED <<main, reader, mu, ended, host>>

TimerStops ==
    /\ timer = "closing"
    /\ CloseStopChan
    /\ IF proc.stopChan THEN TRUE ELSE timer' = "idle" /\ UNCHANGED shut
    /\ UNCHANGED <<pins, events, bounds, flushed, asked>>

\* Mutant: A goroutine in a heartbeat or a flush does not look at stopChan again.
TimerEndsNever ==
    /\ timer = "idle" /\ proc.stopChan /\ ~proc.rd
    /\ timer' = "done"
    /\ UNCHANGED <<main, shut, reader, mu, proc, kernel, ended, bounds, flushed, asked>>

TimerEnds ==
    /\ timer = "idle" /\ proc.stopChan
    /\ timer' = "done"
    /\ UNCHANGED <<main, shut, reader, mu, proc, kernel, ended, bounds, flushed, asked>>

-----------------------------------------------------------------------------
(* handleShutdown. *)

Go(from, to) == shut = from /\ shut' = to

Signal ==
    /\ Go("wait", "check")
    /\ asked' = asked \cup {"signal"}
    /\ UNCHANGED <<main, timer, reader, mu, proc, kernel, ended, bounds, flushed>>

StopChanClosed ==
    /\ proc.stopChan /\ Go("wait", "check")
    /\ UNCHANGED <<main, timer, reader, mu, proc, kernel, ended, bounds, flushed, asked>>

\* Close: Stop looks at the channel, and closes it if it was open.
CloseLooks ==
    /\ Go("check", IF proc.stopChan THEN "join" ELSE "close")
    /\ UNCHANGED <<main, timer, reader, mu, proc, kernel, ended, bounds, flushed, asked>>

CloseStops ==
    /\ shut = "close"
    /\ CloseStopChan
    /\ IF proc.stopChan THEN TRUE ELSE shut' = "join" /\ UNCHANGED timer
    /\ UNCHANGED <<pins, events, bounds, flushed, asked>>

\* Mutant: The ring buffer is closed first.
JoinClosesRingbuf ==
    /\ timer = "done" /\ Go("join", "flush")
    /\ proc' = [proc EXCEPT !.rd = FALSE]
    /\ UNCHANGED <<main, timer, reader, mu, kernel, ended, bounds, flushed, asked>>

\* wg.Wait: monitorConnection and runBufferMaintenance end with the channel.
Join ==
    /\ timer = "done" /\ Go("join", "flush")
    /\ UNCHANGED <<main, timer, reader, mu, proc, kernel, ended, bounds, flushed, asked>>

\* The last flush; the connection and the databases are closed.
FinalFlush ==
    /\ Go("flush", "rdclose")
    /\ flushed' = TRUE
    /\ UNCHANGED <<main, timer, reader, mu, proc, kernel, ended, bounds, asked>>

\* rd.Close: the event loop will see ErrClosed.
CloseRingbuf ==
    /\ Go("rdclose", "teardown")
    /\ proc' = [proc EXCEPT !.rd = FALSE]
    /\ UNCHANGED <<main, timer, reader, mu, kernel, ended, bounds, flushed, asked>>

\* Mutant: StopBlockedPacketReader relies on the lock of its caller.
LockXDPOnce ==
    /\ proc.xdp /\ shut \in {"teardown", "stopReader"}
    /\ mu = "free" \/ shut = "stopReader"
    /\ mu' = "teardown"
    /\ proc' = [proc EXCEPT !.ringbuf = @ /\ shut = "teardown"]
    /\ shut' = IF proc'.ringbuf THEN "stopReader" ELSE "unpin"
    /\ UNCHANGED <<main, timer, reader, kernel, ended, bounds, flushed, asked>>

\* XDPRemediator.Teardown locks the mutex and ends the sweeps, which take no lock.
\* With a reader to stop, StopBlockedPacketReader locks it once more.
LockXDP ==
    /\ proc.xdp /\ shut \in {"teardown", "stopReader"}
    /\ mu = "free"
    /\ mu' = "teardown"
    /\ proc' = [proc EXCEPT !.ringbuf = @ /\ shut = "teardown"]
    /\ shut' = IF proc'.ringbuf THEN "stopReader" ELSE "unpin"
    /\ UNCHANGED <<main, timer, reader, kernel, ended, bounds, flushed, asked>>

NoXDP ==
    /\ ~proc.xdp /\ Go("teardown", "ipset")
    /\ UNCHANGED <<main, timer, reader, mu, proc, kernel, ended, bounds, flushed, asked>>

\* The reader has ended; the link is closed, six maps are unpinned, and all are closed.
UnpinAndClose ==
    /\ reader \in {"off", "done"} /\ Go("unpin", "ipset")
    /\ pins' = NoMaps
    /\ proc' = [proc EXCEPT !.attached = FALSE]
    /\ host' = Unlinked /\ mu' = "free"
    /\ UNCHANGED <<main, timer, reader, events, ended, bounds, flushed, asked>>

Torn == [host EXCEPT !.rules = FALSE, !.sets = FALSE, !.listed = {}]

TeardownIPSet ==
    /\ Go("ipset", "exit")
    /\ host' = Torn
    /\ UNCHANGED <<main, timer, reader, mu, proc, pins, events, ended, bounds, flushed, asked>>

\* A rule cannot be deleted: the loop is left, and the sets that it uses stay
\* too, but empty.
TeardownIPSetFails ==
    /\ Go("ipset", "exit")
    /\ MayFail
    /\ host' = [host EXCEPT !.rules = FALSE, !.listed = {}]
    /\ UNCHANGED <<main, timer, reader, mu, proc, pins, events, ended, starts, flushed, asked>>

ExitProcess ==
    /\ shut = "exit"
    /\ End("exit")
    /\ UNCHANGED <<kernel, bounds, flushed, asked>>

\* runEventLoop returns on ErrClosed and main with it.
MainReturns ==
    /\ main = "run" /\ ~proc.rd
    /\ End("returned")
    /\ host' = Unlinked
    /\ UNCHANGED <<pins, events, bounds, flushed, asked>>

-----------------------------------------------------------------------------
(* What happens to the process and to the host from outside. *)

Kill ==
    /\ main # "down"
    /\ End("killed")
    /\ host' = Unlinked
    /\ UNCHANGED <<pins, events, bounds, flushed, asked>>

\* Neither bpffs nor ipsets survive a reboot.
Reboot ==
    /\ main = "down"
    /\ host' = CleanHost /\ pins' = NoMaps /\ events' = 0
    /\ UNCHANGED <<goroutines, proc, ended, bounds, flushed, asked>>

\* -flush-blocklists while the agent is stopped.  The pinned maps are opened
\* read-only, so the kernel refuses the deletions, whose errors are ignored.
FlushBlocklists ==
    /\ main = "down"
    /\ host' = Torn
    /\ UNCHANGED <<goroutines, proc, pins, events, ended, bounds, flushed, asked>>

ReaderNext == ReaderLooks \/ ReaderDerefs \/ ReaderReturns
TimerNext == TimerStops \/ TimerEnds
ShutdownNext ==
    \/ CloseLooks \/ CloseStops \/ Join \/ FinalFlush \/ CloseRingbuf
    \/ LockXDP \/ NoXDP \/ UnpinAndClose
    \/ TeardownIPSet \/ ExitProcess

Next ==
    \/ Launch \/ StartupFails
    \/ RetryLoad \/ LoadProbes \/ CreateIPSets \/ SetupIPTables
    \/ LoadXDP \/ LoadXDPFails \/ AttachXDP \/ AttachXDPFails
    \/ SetRateLimit \/ Freeze \/ FreezeFails \/ Wire \/ WireWithoutReader
    \/ \E a \in Addresses : Block(a)
    \/ ReaderNext
    \/ HeartbeatRefused \/ TimerNext
    \/ Signal \/ StopChanClosed \/ ShutdownNext \/ TeardownIPSetFails \/ MainReturns
    \/ Kill \/ Reboot \/ FlushBlocklists

Spec == Init /\ [][Next]_vars

FairSpec ==
    /\ Spec
    /\ WF_vars(TimerNext)
    /\ WF_vars(StopChanClosed)
    /\ WF_vars(ShutdownNext)
    /\ WF_vars(MainReturns)

-----------------------------------------------------------------------------
(* What may be expected of the agent. *)

\* main.go:219-222, 395 and 412-415: rd.Close lets main return while handleShutdown
\* still runs, so everything that must not be lost is done before it: a process that
\* stopped on request made its final flush.
StoppedIsFlushed == ended \in {"returned", "exit"} /\ main = "down" => flushed

\* aggregator.go:163-170: Stop looks and then closes.  Only a signal that meets a
\* refused heartbeat can close the channel twice.
PanicNeedsBoth == ended = "panic" /\ main = "down" => asked = {"signal", "backend"}

\* xdp_maps.go:83 reads the field that :57 sets to nil without the lock, but never
\* finds nil: Teardown blocks on its own mutex before that line.
NoNilReader == ended # "nil"

\* main.go:418-426: when handleShutdown does reach os.Exit, the host is as it was before
\* the agent, but for ipsets that a rule still used, for maps that an earlier process
\* left and this one could not open, and for xdp_block_events, which stays pinned.
ExitLeavesEventMap ==
    [][ExitProcess => /\ proc.xdp => pins' = NoMaps /\ events' # 0
                      /\ host' = CleanHost \/ (fails > 0 /\ host'.sets /\ ~host'.rules)]_vars

\* xdp_integrity.go:122-172: what VerifyMapSnapshot holds against the pinned maps.
Findings ==
    {w \in {"missing", "replaced", "not frozen", "changed"} :
        CASE w = "missing"    -> pins = NoMaps \/ events = 0
          [] w = "replaced"   -> pins.id # proc.snapshot.id \/ events # proc.events
          [] w = "not frozen" -> ~pins.frozen
          [] w = "changed"    -> proc.snapshot.frozen /\ pins.limit # proc.snapshot.limit}

\* buildIntegrityReport adds a warning, but not to the verdict, for a configuration
\* that was not frozen when the snapshot was last taken.
Report == [healthy |-> Findings = {},
           warnings |-> Findings \cup (IF proc.snapshot.frozen THEN {} ELSE {"not frozen"})]

\* map_integrity.go:20-42 and 143-198: after whatever crashes, a running agent reports
\* no more than that its kernel cannot freeze, as long as nobody else touches the maps.
NoFalseAlarm ==
    main = "run" /\ proc.attached /\ mu = "free" =>
        /\ Report.warnings \subseteq {"not frozen"}
        /\ Report.healthy <=> Report.warnings = {}

\* What -list-blocked prints.
Listing == host.listed \cup pins.blocked

\* cli.go:25: "tears down all ipset and XDP blocklists".
FlushEmptiesBlocklists == [][FlushBlocklists => Listing' = {}]_vars

\* A block survives every end of the process but an orderly one, and every start
\* at which the XDP program can be attached.
BlocksOutliveProcess ==
    [][Listing \subseteq Listing'
       \/ Reboot \/ FlushBlocklists \/ AttachXDPFails
       \/ UnpinAndClose \/ TeardownIPSet \/ TeardownIPSetFails]_vars

\* Asked to stop, the process ends, although handleShutdown may not.
StopEnds == shut \notin {"off", "wait"} ~> main = "down"
=============================================================================
