-------------------------- MODULE AgentLifeProofs --------------------------
(***************************************************************************)
(* What holds of AgentLife for any set of addresses, any number of starts  *)
(* and any number of failures.                                             *)
(*                                                                         *)
(* None of the properties is inductive.  The final flush, the pins and the *)
(* snapshot, and the reader of blocked packets, are right because of where *)
(* the other goroutines stand: the invariant has one part for each pair of *)
(* goroutines that share something.                                        *)
(***************************************************************************)
EXTENDS AgentLife, TLAPS

\* The goroutines of a process exist only while main is in its event loop.
Goroutines ==
    /\ main = "down" => proc = FreshProcess
    /\ main # "run" => /\ shut = "off" /\ timer = "off" /\ reader = "off" /\ mu = "free"
                       /\ ~proc.ringbuf /\ ~proc.stopChan

\* handleShutdown and runEventLoop share the ring buffer: it is open from the
\* loading of the probes to CloseRingbuf, which comes after the final flush.
RingbufOpen ==
    /\ main \in Startup \ {"probes"} => proc.rd
    /\ main = "run" /\ ~proc.rd =>
           shut \in {"teardown", "stopReader", "unpin", "ipset", "exit"}
    /\ shut \in {"rdclose", "teardown", "stopReader", "unpin", "ipset", "exit"} => flushed

\* handleShutdown and readBlockedPackets share the field ringbuf: whoever could clear
\* it waits for the mutex that handleShutdown itself holds.
ReaderHasRingbuf ==
    /\ reader # "off" => proc.ringbuf
    /\ mu = "teardown" <=> shut \in {"stopReader", "unpin"}
    /\ shut = "unpin" => ~proc.ringbuf

\* handleShutdown and the flush timer share stopChan: who is about to close it, and
\* who has closed it before.
WhoCloses ==
    /\ timer = "closing" => "backend" \in asked
    /\ timer = "closing" /\ proc.stopChan => "signal" \in asked
    /\ shut = "check" => proc.stopChan \/ "signal" \in asked
    /\ shut = "close" => "signal" \in asked
    /\ shut = "close" /\ proc.stopChan => "backend" \in asked

\* A process runs only once it has been started, which numbers its maps.
Started == main # "down" => starts # 0

\* main and the kernel: what the program is attached to, and what was noted of it.
SnapshotAgrees ==
    /\ pins.id = 0 => pins = NoMaps
    /\ main \in {"probes", "sets", "rules", "load"} => ~proc.xdp
    /\ main \in {"probes", "sets", "rules", "load", "attach"} => ~proc.attached
    /\ main \in {"attach", "limit", "freeze"} => proc.xdp
    /\ main \in {"limit", "freeze"} => proc.attached
    /\ main = "freeze" => ~pins.frozen
    /\ proc.attached => proc.xdp
    /\ proc.attached \/ main = "attach" =>
           /\ pins.id # 0 /\ pins.id = proc.snapshot.id
           /\ pins.frozen = proc.snapshot.frozen
           /\ pins.frozen => pins.limit = proc.snapshot.limit

\* The event map that a process has opened is the one that is pinned, since nothing
\* unpins it while there is a process.
EventsAgree == proc.xdp => events # 0 /\ events = proc.events

\* handleShutdown and the kernel: what is left to tear down.
LeftBehind ==
    /\ host.linked => proc.attached
    /\ main \in Startup \ {"probes", "sets"} => host.sets
    /\ main = "run" /\ shut # "exit" => host.sets
    /\ shut \in {"ipset", "exit"} => ~proc.attached /\ (proc.xdp => pins = NoMaps)
    /\ shut = "exit" => host = CleanHost \/ (fails > 0 /\ host.sets /\ ~host.rules)

IInv ==
    /\ TypeOK /\ Goroutines /\ RingbufOpen /\ ReaderHasRingbuf /\ WhoCloses
    /\ Started /\ SnapshotAgrees /\ EventsAgree /\ LeftBehind
    /\ StoppedIsFlushed /\ PanicNeedsBoth /\ NoNilReader

----------------------------------------------------------------------------
\* A host and a process that have just been started are well formed.
LEMMA FreshTypes == NoMaps \in Maps /\ FreshProcess \in Processes /\ CleanHost \in Hosts
BY BoundsAssumption DEF NoMaps, FreshProcess, CleanHost, Maps, Processes, Hosts

\* What the program writes into the memory of the process.
LEMMA ProcessTypes ==
    ASSUME NEW p \in Processes, NEW b \in BOOLEAN
    PROVE  /\ \A w \in {"tracepoint", "capacity"} : [p EXCEPT !.without = @ \cup {w}] \in Processes
           /\ [p EXCEPT !.attached = b] \in Processes
           /\ [p EXCEPT !.ringbuf = b] \in Processes
           /\ [p EXCEPT !.stopChan = b] \in Processes
           /\ [p EXCEPT !.rd = b] \in Processes
           /\ [p EXCEPT !.xdp = b] \in Processes
           /\ \A m \in Maps, e \in 0 .. MaxStarts :
                  [p EXCEPT !.xdp = TRUE, !.snapshot = m, !.events = e] \in Processes
           /\ \A n \in 0 .. MaxStarts :
                  [p EXCEPT !.snapshot.frozen = TRUE, !.snapshot.limit = n] \in Processes
BY DEF Processes, Maps

\* No goroutine leaves the places of its code.
LEMMA PlacesStep == PlacesOK /\ [Next]_vars => PlacesOK'
<1> SUFFICES ASSUME PlacesOK, [Next]_vars PROVE PlacesOK'
    OBVIOUS
<1> USE DEF goroutines, PlacesOK, Startup
<1>1. ASSUME NEW why \in {"failed", "killed", "returned", "exit", "panic", "nil"}, End(why)
      PROVE  PlacesOK'
    BY <1>1, Zenon DEF End
<1>2. CASE Launch \/ RetryLoad \/ LoadProbes \/ CreateIPSets \/ SetupIPTables
    BY <1>2, Zenon DEF Launch, RetryLoad, LoadProbes, CreateIPSets, SetupIPTables
<1>3. CASE LoadXDP \/ LoadXDPFails \/ AttachXDP \/ AttachXDPFails
    BY <1>3, Zenon DEF LoadXDP, LoadXDPFails, AttachXDP, AttachXDPFails
<1>4. CASE SetRateLimit \/ Freeze \/ FreezeFails
    BY <1>4, Zenon DEF SetRateLimit, Freeze, FreezeFails
<1>5. CASE Wire \/ WireWithoutReader
    BY <1>5, Zenon DEF Wire, WireWithoutReader, Run
<1>6. CASE \E a \in Addresses : Block(a)
    BY <1>6, Zenon DEF Block
<1>7. CASE ReaderLooks \/ ReaderReturns
    BY <1>7, Zenon DEF ReaderLooks, ReaderReturns
<1>8. CASE ReaderDerefs
    BY <1>1, <1>8, Zenon DEF ReaderDerefs
<1>9. CASE HeartbeatRefused \/ TimerEnds \/ Signal \/ StopChanClosed
    BY <1>9, Zenon DEF HeartbeatRefused, TimerEnds, Signal, StopChanClosed, Go
<1>10. CASE TimerStops
    BY <1>1, <1>10, Zenon DEF TimerStops, CloseStopChan
<1>11. CASE CloseStops
    BY <1>1, <1>11, Zenon DEF CloseStops, CloseStopChan
<1>12. CASE CloseLooks
    <2>1. shut' \in {"join", "close"}
        BY <1>12 DEF CloseLooks, Go
    <2>2. UNCHANGED <<main, timer, reader, mu, ended>>
        BY <1>12 DEF CloseLooks, Go
    <2> QED
        BY <2>1, <2>2
<1>13. CASE Join \/ FinalFlush \/ CloseRingbuf \/ NoXDP
    BY <1>13, Zenon DEF Join, FinalFlush, CloseRingbuf, NoXDP, Go
<1>14. CASE LockXDP
    BY <1>14, Zenon DEF LockXDP
<1>15. CASE UnpinAndClose \/ TeardownIPSet \/ TeardownIPSetFails
    BY <1>15, Zenon DEF UnpinAndClose, TeardownIPSet, TeardownIPSetFails, Go
<1>16. CASE StartupFails \/ ExitProcess \/ MainReturns \/ Kill
    BY <1>1, <1>16, Zenon DEF StartupFails, ExitProcess, MainReturns, Kill
<1>17. CASE Reboot \/ FlushBlocklists \/ UNCHANGED vars
    BY <1>17, Zenon DEF Reboot, FlushBlocklists, vars
<1> QED
    BY <1>2, <1>3, <1>4, <1>5, <1>6, <1>7, <1>8, <1>9, <1>10, <1>11, <1>12, <1>13,
       <1>14, <1>15, <1>16, <1>17, Zenon
    DEF Next, ReaderNext, TimerNext, ShutdownNext

\* The host, the pins and the memory.
MemoryOK == pins \in Maps /\ events \in 0 .. MaxStarts /\ proc \in Processes /\ host \in Hosts

\* A process that ends takes its link away, and its memory.
LEMMA EndMemory ==
    ASSUME MemoryOK, NEW why, End(why), host' \in {host, Unlinked}, UNCHANGED <<pins, events>>
    PROVE  MemoryOK'
BY FreshTypes DEF MemoryOK, End, Unlinked, Hosts

\* Host, pins and memory stay well formed.
LEMMA MemoryStep == TypeOK /\ [Next]_vars => MemoryOK'
<1> SUFFICES ASSUME TypeOK, [Next]_vars PROVE MemoryOK'
    OBVIOUS
<1> USE DEF goroutines, kernel, bounds, MemoryOK
<1>0. MemoryOK /\ starts \in 0 .. MaxStarts
    BY DEF TypeOK
<1>1. CASE UNCHANGED <<pins, events, proc, host>>
    BY <1>0, <1>1
<1>20. CASE \/ Launch \/ LoadXDPFails \/ FreezeFails \/ ReaderLooks \/ ReaderReturns
            \/ HeartbeatRefused \/ TimerEnds \/ Signal \/ StopChanClosed
    BY <1>1, <1>20, Zenon DEF Launch, LoadXDPFails, FreezeFails, ReaderLooks, ReaderReturns,
        HeartbeatRefused, TimerEnds, Signal, StopChanClosed
<1>21. CASE CloseLooks \/ Join \/ FinalFlush \/ NoXDP \/ UNCHANGED vars
    BY <1>1, <1>21, Zenon DEF CloseLooks, Join, FinalFlush, NoXDP, vars
<1>2. CASE StartupFails \/ ExitProcess \/ MainReturns \/ Kill
    BY <1>0, <1>2, EndMemory, Zenon DEF StartupFails, ExitProcess, MainReturns, Kill
<1>3. CASE RetryLoad
    BY <1>0, <1>3, ProcessTypes DEF RetryLoad
<1>4. CASE LoadProbes
    BY <1>0, <1>4, ProcessTypes DEF LoadProbes
<1>5. CASE CreateIPSets \/ SetupIPTables
    BY <1>0, <1>5 DEF CreateIPSets, SetupIPTables, Hosts
<1>6. CASE LoadXDP
    <2>1. Loaded \in Maps
        BY <1>0, FreshTypes DEF Loaded, Maps
    <2>2. Captured \in Maps
        BY <2>1 DEF Captured, Maps
    <2>3. events' \in 0 .. MaxStarts
        BY <1>0, <1>6 DEF LoadXDP
    <2> QED
        BY <1>0, <1>6, <2>1, <2>2, <2>3, ProcessTypes DEF LoadXDP
<1>7. CASE AttachXDP
    <2>1. [host EXCEPT !.linked = TRUE] \in Hosts
        BY <1>0 DEF Hosts
    <2> QED
        BY <1>0, <1>7, <2>1, ProcessTypes DEF AttachXDP
<1>8. CASE AttachXDPFails
    BY <1>0, <1>8, FreshTypes, ProcessTypes DEF AttachXDPFails
<1>9. CASE SetRateLimit
    BY <1>0, <1>9 DEF SetRateLimit, Limit, Maps
<1>10. CASE Freeze
    <2>1. [pins EXCEPT !.frozen = TRUE] \in Maps /\ pins.limit \in 0 .. MaxStarts
        BY <1>0 DEF Maps
    <2> QED
        BY <1>0, <1>10, <2>1, ProcessTypes DEF Freeze
<1>11. CASE Wire \/ WireWithoutReader
    BY <1>0, <1>11, ProcessTypes DEF Wire, WireWithoutReader, Run
<1>12. CASE \E a \in Addresses : Block(a)
    <2>1. PICK a \in Addresses : Block(a)
        BY <1>12
    <2>2. /\ [pins EXCEPT !.blocked = @ \cup {a}] \in Maps
          /\ [host EXCEPT !.listed = @ \cup {a}] \in Hosts
        BY <1>0 DEF Maps, Hosts
    <2> QED
        BY <1>0, <2>1, <2>2 DEF Block
<1>13. CASE ReaderDerefs
    BY <1>0, <1>13, EndMemory, Zenon DEF ReaderDerefs
<1>14. CASE TimerStops \/ CloseStops
    BY <1>0, <1>14, EndMemory, ProcessTypes, Zenon DEF TimerStops, CloseStops, CloseStopChan
<1>15. CASE CloseRingbuf
    BY <1>0, <1>15, ProcessTypes DEF CloseRingbuf
<1>16. CASE LockXDP
    <2>1. (proc.ringbuf /\ shut = "teardown") \in BOOLEAN
        OBVIOUS
    <2> QED
        BY <1>0, <1>16, <2>1, ProcessTypes DEF LockXDP
<1>17. CASE UnpinAndClose
    BY <1>0, <1>17, FreshTypes, ProcessTypes DEF UnpinAndClose, Unlinked, Hosts
<1>18. CASE TeardownIPSet \/ TeardownIPSetFails
    BY <1>0, <1>18 DEF TeardownIPSet, TeardownIPSetFails, Torn, Hosts
<1>19. CASE Reboot
    BY <1>0, <1>19, FreshTypes, BoundsAssumption DEF Reboot
<1>22. CASE FlushBlocklists
    BY <1>0, <1>22 DEF FlushBlocklists, Torn, Hosts
<1> QED
    BY <1>1, <1>2, <1>3, <1>4, <1>5, <1>6, <1>7, <1>8, <1>9, <1>10, <1>11, <1>12, <1>13,
       <1>14, <1>15, <1>16, <1>17, <1>18, <1>19, <1>20, <1>21, <1>22, Zenon
    DEF Next, ReaderNext, TimerNext, ShutdownNext

\* Starts, failures and the ghosts stay within their types.
LEMMA CountsStep ==
    TypeOK /\ [Next]_vars => /\ starts' \in 0 .. MaxStarts /\ fails' \in 0 .. MaxFails
                             /\ flushed' \in BOOLEAN /\ asked' \subseteq {"signal", "backend"}
<1> SUFFICES ASSUME TypeOK, [Next]_vars
             PROVE  /\ starts' \in 0 .. MaxStarts /\ fails' \in 0 .. MaxFails
                    /\ flushed' \in BOOLEAN /\ asked' \subseteq {"signal", "backend"}
    OBVIOUS
<1> USE DEF goroutines, kernel, bounds, Next, ReaderNext, TimerNext, ShutdownNext, vars,
    Launch, StartupFails, RetryLoad, LoadProbes, CreateIPSets, SetupIPTables, LoadXDP,
    LoadXDPFails, AttachXDP, AttachXDPFails, SetRateLimit, Freeze, FreezeFails, Wire,
    WireWithoutReader, Run, Block, ReaderLooks, ReaderDerefs, ReaderReturns, HeartbeatRefused,
    TimerStops, TimerEnds, Signal, StopChanClosed, CloseLooks, CloseStops, Join, FinalFlush,
    CloseRingbuf, LockXDP, NoXDP, UnpinAndClose, TeardownIPSet, TeardownIPSetFails,
    ExitProcess, MainReturns, Kill, Reboot, FlushBlocklists
<1>1. starts' = starts \/ (starts < MaxStarts /\ starts' = starts + 1)
    BY Zenon
<1>2. fails' = fails \/ MayFail
    BY Zenon
<1>3. flushed' \in BOOLEAN
    BY Zenon DEF TypeOK
<1>4. asked' \in {{}, asked, asked \cup {"signal"}, asked \cup {"backend"}}
    BY Zenon
<1>5. starts' \in 0 .. MaxStarts /\ fails' \in 0 .. MaxFails
    <2> HIDE DEF Next
    <2> QED
        BY <1>1, <1>2, BoundsAssumption DEF TypeOK, MayFail
<1>6. asked' \subseteq {"signal", "backend"}
    <2> HIDE DEF Next
    <2> QED
        BY <1>4 DEF TypeOK
<1> QED
    BY <1>3, <1>5, <1>6

\* No step of any goroutine leaves a variable outside its type.
LEMMA TypeStep == TypeOK /\ [Next]_vars => TypeOK'
BY PlacesStep, MemoryStep, CountsStep DEF TypeOK, MemoryOK

----------------------------------------------------------------------------
\* What the goroutines share holds before the first start.
LEMMA InitHolds == Init => IInv
<1> SUFFICES ASSUME Init PROVE IInv
    OBVIOUS
<1>1. TypeOK
    <2>1. PlacesOK
        BY Zenon DEF Init, PlacesOK
    <2>2. starts \in 0 .. MaxStarts /\ fails \in 0 .. MaxFails
        BY BoundsAssumption DEF Init
    <2>3. events \in 0 .. MaxStarts
        BY BoundsAssumption DEF Init
    <2> QED
        BY <2>1, <2>2, <2>3, FreshTypes, Zenon DEF Init, TypeOK
<1>2. Goroutines /\ RingbufOpen /\ ReaderHasRingbuf /\ WhoCloses /\ Started /\ SnapshotAgrees
      /\ EventsAgree /\ LeftBehind
    BY DEF Init, Started, Goroutines, RingbufOpen, ReaderHasRingbuf, WhoCloses, SnapshotAgrees, EventsAgree,
        LeftBehind, FreshProcess, CleanHost, NoMaps, Startup
<1>3. StoppedIsFlushed /\ PanicNeedsBoth /\ NoNilReader
    BY DEF Init, StoppedIsFlushed, PanicNeedsBoth, NoNilReader
<1> QED
    BY <1>1, <1>2, <1>3 DEF IInv

\* When main ends every other goroutine ends, and main starts none of them before
\* the event loop.
LEMMA GoroutinesStep == TypeOK /\ Goroutines /\ [Next]_vars => Goroutines'
<1> SUFFICES ASSUME TypeOK, Goroutines, [Next]_vars PROVE Goroutines'
    OBVIOUS
<1> USE DEF goroutines, kernel, bounds
<1>0. proc \in Processes /\ PlacesOK
    BY DEF TypeOK
<1>1. ASSUME NEW why, End(why) PROVE Goroutines'
    BY <1>1 DEF End, Goroutines, FreshProcess
<1>2. CASE UNCHANGED <<main, shut, timer, reader, mu, proc>>
    BY <1>2 DEF Goroutines
<1>3. CASE Launch
    BY <1>3 DEF Launch, Goroutines, FreshProcess
<1>4. CASE RetryLoad \/ LoadProbes \/ LoadXDP \/ AttachXDP \/ AttachXDPFails \/ Freeze
    <2>1. /\ main \notin {"down", "run"} /\ main' \notin {"down", "run"} /\ UNCHANGED <<shut, timer, reader, mu>>
          /\ proc'.ringbuf = proc.ringbuf /\ proc'.stopChan = proc.stopChan
        BY <1>0, <1>4 DEF RetryLoad, LoadProbes, LoadXDP, AttachXDP, AttachXDPFails, Freeze, Processes
    <2> QED
        BY <2>1 DEF Goroutines
<1>5. CASE CreateIPSets \/ SetupIPTables \/ LoadXDPFails \/ SetRateLimit \/ FreezeFails
    BY <1>5, Zenon DEF CreateIPSets, SetupIPTables, LoadXDPFails, SetRateLimit, FreezeFails, Goroutines
<1>6. CASE main = "run" /\ main' = "run"
    BY <1>6 DEF Goroutines
<1>7. CASE Wire \/ WireWithoutReader
    BY <1>7 DEF Wire, WireWithoutReader, Run, Goroutines
<1>8. CASE StartupFails \/ ExitProcess \/ MainReturns \/ Kill
    BY <1>1, <1>8, Zenon DEF StartupFails, ExitProcess, MainReturns, Kill
<1>9. CASE ReaderNext \/ HeartbeatRefused \/ TimerNext \/ Signal \/ StopChanClosed
           \/ ShutdownNext \/ TeardownIPSetFails
    <2>1. main = "run"
        BY <1>0, <1>9, Zenon DEF Goroutines, ReaderNext, ReaderLooks, ReaderDerefs, ReaderReturns, HeartbeatRefused,
            TimerNext, TimerStops, TimerEnds, Signal, StopChanClosed, ShutdownNext, CloseLooks,
            CloseStops, Join, FinalFlush, CloseRingbuf, LockXDP, NoXDP, UnpinAndClose, TeardownIPSet,
            TeardownIPSetFails, ExitProcess, Go, PlacesOK
    <2>2. main' = main \/ \E why \in {"nil", "panic", "exit"} : End(why)
        BY <1>9, Zenon DEF ReaderNext, ReaderLooks, ReaderDerefs, ReaderReturns, HeartbeatRefused,
            TimerNext, TimerStops, TimerEnds, Signal, StopChanClosed, ShutdownNext, CloseLooks,
            CloseStops, Join, FinalFlush, CloseRingbuf, LockXDP, NoXDP, UnpinAndClose, TeardownIPSet,
            TeardownIPSetFails, ExitProcess, CloseStopChan
    <2> QED
        BY <1>1, <1>6, <2>1, <2>2
<1> QED
    BY <1>2, <1>3, <1>4, <1>5, <1>7, <1>8, <1>9, Zenon
    DEF Next, Block, Reboot, FlushBlocklists, vars

\* What a step does to the fields of the memory: each field has one writer, or two.
LEMMA Writers ==
    ASSUME TypeOK, [Next]_vars, main # "down", main' # "down"
    PROVE  /\ proc'.rd = proc.rd \/ (LoadProbes /\ proc'.rd) \/ CloseRingbuf
           /\ proc'.ringbuf = proc.ringbuf \/ Wire \/ LockXDP
           /\ proc'.stopChan = proc.stopChan \/ TimerStops \/ CloseStops
           /\ proc'.xdp = proc.xdp \/ LoadXDP \/ AttachXDPFails
           /\ proc'.attached = proc.attached \/ AttachXDP \/ UnpinAndClose
           /\ proc'.snapshot = proc.snapshot \/ LoadXDP \/ Freeze
           /\ proc'.events = proc.events \/ LoadXDP
<1> USE DEF goroutines, kernel, bounds
<1>0. proc \in Processes
    BY DEF TypeOK
<1>1. CASE UNCHANGED proc
    BY <1>1
<1>2. CASE RetryLoad \/ LoadProbes
    BY <1>0, <1>2 DEF RetryLoad, LoadProbes, Processes
<1>3. CASE LoadXDP \/ AttachXDP \/ AttachXDPFails
    BY <1>0, <1>3 DEF LoadXDP, AttachXDP, AttachXDPFails, Processes
<1>4. CASE Freeze
    BY <1>0, <1>4 DEF Freeze, Processes
<1>5. CASE Wire \/ WireWithoutReader
    BY <1>0, <1>5 DEF Wire, WireWithoutReader, Run, Processes
<1>6. CASE TimerStops \/ CloseStops
    BY <1>0, <1>6 DEF TimerStops, CloseStops, CloseStopChan, End, Processes
<1>7. CASE CloseRingbuf \/ LockXDP \/ UnpinAndClose
    BY <1>0, <1>7 DEF CloseRingbuf, LockXDP, UnpinAndClose, Processes
<1>8. CASE StartupFails \/ ReaderDerefs \/ ExitProcess \/ MainReturns \/ Kill
    BY <1>1, <1>8 DEF StartupFails, ReaderDerefs, ExitProcess, MainReturns, Kill, End
<1> QED
    BY <1>1, <1>2, <1>3, <1>4, <1>5, <1>6, <1>7, <1>8, Zenon
    DEF Next, ReaderNext, TimerNext, ShutdownNext, vars, Launch, CreateIPSets, SetupIPTables,
        LoadXDPFails, SetRateLimit, FreezeFails, Block, ReaderLooks, ReaderReturns,
        HeartbeatRefused, TimerEnds, Signal, StopChanClosed, CloseLooks, Join, FinalFlush,
        NoXDP, TeardownIPSet, TeardownIPSetFails, Reboot, FlushBlocklists

\* How main gets on: in order, one place at a time, and to the event loop from "wire".
LEMMA MainMoves ==
    ASSUME PlacesOK, [Next]_vars
    PROVE  \/ main' = main
           \/ main' = "down"
           \/ Launch /\ main = "down" /\ main' = "probes"
           \/ LoadProbes /\ main = "probes" /\ main' = "sets"
           \/ CreateIPSets /\ main = "sets" /\ main' = "rules"
           \/ SetupIPTables /\ main = "rules" /\ main' = "load"
           \/ LoadXDP /\ main = "load" /\ main' = "attach"
           \/ LoadXDPFails /\ main = "load" /\ main' = "wire"
           \/ AttachXDP /\ main = "attach" /\ main' = "limit"
           \/ AttachXDPFails /\ main = "attach" /\ main' = "wire"
           \/ SetRateLimit /\ main = "limit" /\ main' = "wire" /\ UNCHANGED pins
           \/ SetRateLimit /\ main = "limit" /\ main' = "freeze" /\ ~pins.frozen
           \/ Freeze /\ main = "freeze" /\ main' = "wire"
           \/ FreezeFails /\ main = "freeze" /\ main' = "wire"
           \/ (Wire \/ WireWithoutReader) /\ main = "wire" /\ main' = "run" /\ shut' = "wait"
<1> USE DEF goroutines, kernel, bounds
<1>0. CASE Launch \/ LoadProbes
    BY <1>0, Zenon DEF Launch, LoadProbes
<1>1. CASE CreateIPSets \/ SetupIPTables
    BY <1>1, Zenon DEF CreateIPSets, SetupIPTables
<1>7. CASE LoadXDP \/ LoadXDPFails
    BY <1>7, Zenon DEF LoadXDP, LoadXDPFails
<1>2. CASE AttachXDP \/ AttachXDPFails \/ Freeze \/ FreezeFails
    BY <1>2, Zenon DEF AttachXDP, AttachXDPFails, Freeze, FreezeFails
<1>3. CASE SetRateLimit
    BY <1>3, Zenon DEF SetRateLimit
<1>4. CASE Wire \/ WireWithoutReader
    BY <1>4, Zenon DEF Wire, WireWithoutReader, Run
<1>5. CASE main' \in {main, "down"}
    BY <1>5, Zenon
<1>6. CASE StartupFails \/ ReaderDerefs \/ TimerStops \/ CloseStops \/ ExitProcess \/ MainReturns \/ Kill
    BY <1>6, Zenon DEF StartupFails, ReaderDerefs, TimerStops, CloseStops, ExitProcess,
        MainReturns, Kill, CloseStopChan, End
<1> QED
    BY <1>0, <1>1, <1>2, <1>3, <1>4, <1>5, <1>6, <1>7, Zenon
    DEF Next, ReaderNext, TimerNext, ShutdownNext, vars, RetryLoad, Block, ReaderLooks,
        ReaderReturns, HeartbeatRefused, TimerEnds, Signal, StopChanClosed, CloseLooks, Join,
        FinalFlush, CloseRingbuf, LockXDP, NoXDP, UnpinAndClose, TeardownIPSet,
        TeardownIPSetFails, Reboot, FlushBlocklists

\* How handleShutdown gets on.
LEMMA ShutMoves ==
    ASSUME PlacesOK, [Next]_vars
    PROVE  \/ shut' = shut
           \/ shut' = "off" /\ main' = "down"
           \/ (Wire \/ WireWithoutReader) /\ shut' = "wait"
           \/ (Signal \/ StopChanClosed) /\ shut = "wait" /\ shut' = "check"
           \/ CloseLooks /\ shut = "check" /\ shut' = "join" /\ proc.stopChan
           \/ CloseLooks /\ shut = "check" /\ shut' = "close" /\ ~proc.stopChan
           \/ CloseStops /\ shut = "close" /\ shut' = "join"
           \/ Join /\ shut = "join" /\ shut' = "flush"
           \/ FinalFlush /\ shut = "flush" /\ shut' = "rdclose" /\ flushed'
           \/ CloseRingbuf /\ shut = "rdclose" /\ shut' = "teardown"
           \/ LockXDP /\ shut \in {"teardown", "stopReader"} /\ shut' \in {"stopReader", "unpin"}
           \/ NoXDP /\ shut = "teardown" /\ shut' = "ipset"
           \/ UnpinAndClose /\ shut = "unpin" /\ shut' = "ipset"
           \/ (TeardownIPSet \/ TeardownIPSetFails) /\ shut = "ipset" /\ shut' = "exit"
<1> USE DEF goroutines, kernel, bounds
<1>1. CASE CloseLooks
    BY <1>1, Zenon DEF CloseLooks, Go
<1>2. CASE LockXDP
    BY <1>2, Zenon DEF LockXDP
<1>3. CASE Wire \/ WireWithoutReader \/ CloseStops
    BY <1>3, Zenon DEF Wire, WireWithoutReader, Run, CloseStops, CloseStopChan, End
<1>4. CASE FinalFlush
    BY <1>4 DEF FinalFlush, Go
<1>7. CASE Signal \/ StopChanClosed \/ Join \/ CloseRingbuf \/ NoXDP
    BY <1>7, Zenon DEF Signal, StopChanClosed, Join, CloseRingbuf, NoXDP, Go
<1>8. CASE UnpinAndClose \/ TeardownIPSet \/ TeardownIPSetFails
    BY <1>8, Zenon DEF UnpinAndClose, TeardownIPSet, TeardownIPSetFails, Go
<1>5. CASE StartupFails \/ ReaderDerefs \/ TimerStops \/ ExitProcess \/ MainReturns \/ Kill
    BY <1>5, Zenon DEF StartupFails, ReaderDerefs, TimerStops, ExitProcess, MainReturns, Kill,
        CloseStopChan, End
<1>6. CASE UNCHANGED shut
    BY <1>6, Zenon
<1> QED
    BY <1>1, <1>2, <1>3, <1>4, <1>5, <1>6, <1>7, <1>8, Zenon
    DEF Next, ReaderNext, TimerNext, ShutdownNext, vars, Launch, RetryLoad, LoadProbes,
        CreateIPSets, SetupIPTables, LoadXDP, LoadXDPFails, AttachXDP, AttachXDPFails,
        SetRateLimit, Freeze, FreezeFails, Block, ReaderLooks, ReaderReturns, HeartbeatRefused,
        TimerEnds, Reboot, FlushBlocklists

\* The rest: which steps touch what is shared.
LEMMA OtherMoves ==
    ASSUME PlacesOK, [Next]_vars, main' # "down"
    PROVE  /\ reader' = reader \/ Wire \/ (reader # "off" /\ reader' # "off")
           /\ mu' = mu \/ LockXDP \/ UnpinAndClose
           /\ timer' # "closing" \/ timer' = timer \/ HeartbeatRefused
           /\ flushed' = flushed \/ flushed' = TRUE \/ Launch
           /\ asked \subseteq asked' \/ Launch
           /\ starts' = starts \/ Launch
<1> USE DEF goroutines, kernel, bounds
<1> USE DEF Next, ReaderNext, TimerNext, ShutdownNext, vars,
    Launch, StartupFails, RetryLoad, LoadProbes, CreateIPSets, SetupIPTables, LoadXDP,
    LoadXDPFails, AttachXDP, AttachXDPFails, SetRateLimit, Freeze, FreezeFails, Wire,
    WireWithoutReader, Run, Block, ReaderLooks, ReaderDerefs, ReaderReturns, HeartbeatRefused,
    TimerStops, TimerEnds, Signal, StopChanClosed, CloseLooks, CloseStops, Join, FinalFlush,
    CloseRingbuf, LockXDP, NoXDP, UnpinAndClose, TeardownIPSet, TeardownIPSetFails,
    ExitProcess, MainReturns, Kill, Reboot, FlushBlocklists, End, CloseStopChan, Go
<1>1. reader' = reader \/ Wire \/ (reader # "off" /\ reader' # "off")
    BY Zenon
<1>2. mu' = mu \/ LockXDP \/ UnpinAndClose
    BY Zenon
<1>3. timer' # "closing" \/ timer' = timer \/ HeartbeatRefused
    BY Zenon
<1>4. flushed' = flushed \/ flushed' = TRUE \/ Launch
    BY Zenon
<1>5. asked \subseteq asked' \/ Launch
    BY Zenon
<1>6. starts' = starts \/ Launch
    BY Zenon
<1> QED
    BY <1>1, <1>2, <1>3, <1>4, <1>5, <1>6, Zenon

----------------------------------------------------------------------------
\* The event loop finds the ring buffer closed only once the final flush is made.
LEMMA RingbufStep ==
    TypeOK /\ Goroutines /\ RingbufOpen /\ [Next]_vars => RingbufOpen'
<1> SUFFICES ASSUME TypeOK, Goroutines, RingbufOpen, [Next]_vars PROVE RingbufOpen'
    OBVIOUS
<1>0. PlacesOK /\ Goroutines' /\ proc \in Processes
    BY GoroutinesStep DEF TypeOK
<1>1. CASE main' = "down"
    BY <1>0, <1>1 DEF Goroutines, RingbufOpen, Startup
<1>2. CASE main = "down" /\ main' # "down"
    BY <1>0, <1>2, MainMoves DEF Goroutines, RingbufOpen, Startup
<1>3. CASE main # "down" /\ main' # "down"
    <2>1. CASE CloseRingbuf
        BY <1>0, <2>1 DEF CloseRingbuf, Go, Goroutines, RingbufOpen, Startup
    <2>2. CASE LoadProbes
        BY <1>0, <1>3, <2>2 DEF LoadProbes, Processes, Goroutines, RingbufOpen, Startup
    <2>3. CASE ~CloseRingbuf /\ ~LoadProbes
        <3>1. proc'.rd = proc.rd
            BY <1>3, <2>3, Writers
        <3>2. main' \in Startup \ {"probes"} => main \in Startup \ {"probes"}
            BY <1>0, <1>3, <2>3, MainMoves DEF Startup
        <3>3. main' = "run" => main \in Startup \ {"probes"} \/ main = "run"
            BY <1>0, <1>3, <2>3, MainMoves DEF Startup
        <3>4. shut \in {"teardown", "stopReader", "unpin", "ipset", "exit"} /\ main' = "run" =>
                  shut' \in {"teardown", "stopReader", "unpin", "ipset", "exit"}
            BY <1>0, <1>3, ShutMoves DEF Wire, WireWithoutReader, Run, Goroutines
        <3>5. shut' \in {"rdclose", "teardown", "stopReader", "unpin", "ipset", "exit"} => flushed'
            BY <1>0, <1>3, ShutMoves, OtherMoves DEF Launch, RingbufOpen
        <3> QED
            BY <3>1, <3>2, <3>3, <3>4, <3>5 DEF RingbufOpen, Startup
    <2> QED
        BY <2>1, <2>2, <2>3
<1> QED
    BY <1>1, <1>2, <1>3

\* Teardown clears the field only after it has waited for a mutex that it holds.
LEMMA ReaderStep ==
    TypeOK /\ Goroutines /\ ReaderHasRingbuf /\ [Next]_vars => ReaderHasRingbuf'
<1> SUFFICES ASSUME TypeOK, Goroutines, ReaderHasRingbuf, [Next]_vars PROVE ReaderHasRingbuf'
    OBVIOUS
<1>0. PlacesOK /\ Goroutines' /\ proc \in Processes
    BY GoroutinesStep DEF TypeOK
<1>1. CASE main' = "down"
    BY <1>0, <1>1 DEF Goroutines, ReaderHasRingbuf
<1>2. CASE main = "down" /\ main' # "down"
    BY <1>0, <1>2, MainMoves DEF Launch, Goroutines, ReaderHasRingbuf
<1>3. CASE main # "down" /\ main' # "down"
    <2>1. CASE LockXDP
        BY <1>0, <2>1 DEF LockXDP, ReaderHasRingbuf, Processes
    <2>2. CASE UnpinAndClose
        BY <1>0, <2>2 DEF UnpinAndClose, Go, ReaderHasRingbuf, Processes
    <2>3. CASE Wire
        BY <1>0, <2>3 DEF Wire, Run, Goroutines, ReaderHasRingbuf, Processes, kernel
    <2>4. CASE ~LockXDP /\ ~UnpinAndClose /\ ~Wire
        <3>1. mu' = mu /\ proc'.ringbuf = proc.ringbuf
            BY <1>0, <1>3, <2>4, OtherMoves, Writers
        <3>2. reader' # "off" => reader # "off"
            BY <1>0, <1>3, <2>4, OtherMoves
        <3>3. shut' \in {"stopReader", "unpin"} <=> shut \in {"stopReader", "unpin"}
            BY <1>0, <1>3, <2>4, ShutMoves DEF WireWithoutReader, Run, Goroutines
        <3>4. shut' = "unpin" => shut = "unpin"
            BY <1>0, <1>3, <2>4, ShutMoves
        <3> QED
            BY <3>1, <3>2, <3>3, <3>4 DEF ReaderHasRingbuf
    <2> QED
        BY <2>1, <2>2, <2>3, <2>4
<1> QED
    BY <1>1, <1>2, <1>3

\* Each goroutine closes stopChan after a look of its own, and each look has an asker.
LEMMA ClosersStep == TypeOK /\ Goroutines /\ WhoCloses /\ [Next]_vars => WhoCloses'
<1> SUFFICES ASSUME TypeOK, Goroutines, WhoCloses, [Next]_vars PROVE WhoCloses'
    OBVIOUS
<1>0. PlacesOK /\ Goroutines' /\ proc \in Processes
    BY GoroutinesStep DEF TypeOK
<1>1. CASE main' # "run"
    BY <1>0, <1>1 DEF Goroutines, WhoCloses
<1>2. CASE main # "run" /\ main' = "run"
    BY <1>0, <1>2, MainMoves DEF Goroutines, WhoCloses, Wire, WireWithoutReader, Run
<1>3. CASE main = "run" /\ main' = "run"
    <2>0. ~Launch /\ ~Wire /\ ~WireWithoutReader
        BY <1>3 DEF Launch, Wire, WireWithoutReader, Run
    <2>1. CASE HeartbeatRefused
        BY <1>0, <2>1 DEF HeartbeatRefused, WhoCloses
    <2>2. CASE TimerStops
        BY <1>0, <1>3, <2>2 DEF TimerStops, CloseStopChan, End, WhoCloses, Processes
    <2>3. CASE CloseStops
        BY <1>0, <1>3, <2>3 DEF CloseStops, CloseStopChan, End, WhoCloses, Processes
    <2>4. CASE Signal
        BY <1>0, <2>4 DEF Signal, Go, WhoCloses
    <2>5. CASE StopChanClosed
        BY <1>0, <2>5 DEF StopChanClosed, Go, WhoCloses
    <2>6. CASE ~(HeartbeatRefused \/ TimerStops \/ CloseStops \/ Signal \/ StopChanClosed)
        <3>1. proc'.stopChan = proc.stopChan
            BY <1>3, <2>6, Writers
        <3>2. timer' = "closing" => timer = "closing"
            BY <1>0, <1>3, <2>6, OtherMoves
        <3>3. shut' = "check" => shut = "check"
            BY <1>0, <1>3, <2>0, <2>6, ShutMoves
        <3>4. shut' = "close" => shut = "close" \/ (shut = "check" /\ ~proc.stopChan)
            BY <1>0, <1>3, <2>0, <2>6, ShutMoves
        <3>5. asked \subseteq asked'
            BY <1>0, <1>3, <2>0, OtherMoves
        <3> QED
            BY <3>1, <3>2, <3>3, <3>4, <3>5 DEF WhoCloses
    <2> QED
        BY <2>1, <2>2, <2>3, <2>4, <2>5, <2>6
<1> QED
    BY <1>1, <1>2, <1>3

\* Which steps write the pinned maps, which the host, and which pin the event map.
LEMMA KernelMoves ==
    ASSUME TypeOK, [Next]_vars
    PROVE  /\ \/ pins' = pins
              \/ LoadXDP \/ AttachXDPFails \/ SetRateLimit \/ Freeze \/ UnpinAndClose \/ Reboot
              \/ proc.attached /\ UNCHANGED <<main, proc>>
                 /\ \E a \in Addresses : pins' = [pins EXCEPT !.blocked = @ \cup {a}]
           /\ \/ host' = host \/ host' = Unlinked
              \/ CreateIPSets \/ SetupIPTables \/ AttachXDP \/ UnpinAndClose
              \/ TeardownIPSet \/ TeardownIPSetFails \/ Reboot \/ FlushBlocklists
              \/ host.sets /\ UNCHANGED <<main, shut, proc, fails>>
                 /\ \E a \in Addresses : host' = [host EXCEPT !.listed = @ \cup {a}]
           /\ events' = events \/ LoadXDP \/ Reboot
<1> USE DEF goroutines, kernel, bounds
<1>1. CASE \E a \in Addresses : Block(a)
    BY <1>1, Zenon DEF Block
<1>2. CASE ReaderDerefs \/ TimerStops \/ CloseStops
    BY <1>2, Zenon DEF ReaderDerefs, TimerStops, CloseStops, CloseStopChan
<1>3. CASE AttachXDPFails \/ SetRateLimit \/ Freeze \/ UnpinAndClose
    BY <1>3, Zenon DEF AttachXDPFails, SetRateLimit, Freeze, UnpinAndClose
<1> QED
    BY <1>1, <1>2, <1>3, Zenon
    DEF Next, ReaderNext, TimerNext, ShutdownNext, vars, Launch, StartupFails, RetryLoad,
        LoadProbes, CreateIPSets, SetupIPTables, LoadXDP, LoadXDPFails, AttachXDP,
        AttachXDPFails, SetRateLimit, Freeze, FreezeFails, Wire, WireWithoutReader, Run,
        ReaderLooks, ReaderReturns, HeartbeatRefused, TimerEnds, Signal, StopChanClosed,
        CloseLooks, Join, FinalFlush, CloseRingbuf, LockXDP, NoXDP, TeardownIPSet,
        TeardownIPSetFails, ExitProcess, MainReturns, Kill, FlushBlocklists

\* A start counts.
LEMMA StartedStep == TypeOK /\ Started /\ [Next]_vars => Started'
<1> SUFFICES ASSUME TypeOK, Started, [Next]_vars, main' # "down" PROVE starts' # 0
    BY DEF Started
<1>1. CASE Launch
    BY <1>1, BoundsAssumption DEF Launch, TypeOK
<1>2. CASE ~Launch
    BY <1>2, MainMoves, OtherMoves DEF Started, TypeOK
<1> QED
    BY <1>1, <1>2

\* What was noted of the pinned maps stays true of them while the program is attached.
LEMMA SnapshotStep ==
    TypeOK /\ Goroutines /\ Started /\ SnapshotAgrees /\ [Next]_vars => SnapshotAgrees'
<1> SUFFICES ASSUME TypeOK, Goroutines, Started, SnapshotAgrees, [Next]_vars PROVE SnapshotAgrees'
    OBVIOUS
<1> USE DEF goroutines, kernel, bounds
<1>0. PlacesOK /\ Goroutines' /\ proc \in Processes /\ pins \in Maps /\ starts \in Nat
    BY GoroutinesStep DEF TypeOK
<1>1. CASE main' = "down"
    <2>1. proc' = FreshProcess
        BY <1>0, <1>1 DEF Goroutines
    <2>2. pins' = pins \/ pins' = NoMaps \/ (proc.attached /\ UNCHANGED <<main, proc>>)
        BY <1>1, KernelMoves, Zenon DEF LoadXDP, AttachXDPFails, SetRateLimit, Freeze, UnpinAndClose, Reboot
    <2>3. main = "down" => ~proc.attached
        BY <1>0 DEF Goroutines, FreshProcess
    <2>4. pins' = pins \/ pins' = NoMaps
        BY <1>1, <2>2, <2>3
    <2> QED
        BY <1>1, <2>1, <2>4 DEF SnapshotAgrees, FreshProcess, NoMaps
<1>2. CASE Launch
    BY <1>0, <1>2 DEF Launch, Goroutines, FreshProcess, SnapshotAgrees
<1>3. CASE LoadXDP
    <2>1. Loaded \in Maps /\ Loaded.id # 0
        <3>1. CASE pins = NoMaps
            BY <1>0, <1>3, <3>1, BoundsAssumption DEF LoadXDP, Loaded, Started, TypeOK, NoMaps, Maps
        <3>2. CASE pins # NoMaps
            BY <1>0, <3>2 DEF Loaded, SnapshotAgrees
        <3> QED
            BY <3>1, <3>2
    <2>2. /\ Captured.id = Loaded.id /\ Captured.frozen = Loaded.frozen
          /\ Captured.limit = Loaded.limit
        BY <2>1 DEF Captured, Maps
    <2>3. /\ main = "load" /\ main' = "attach" /\ pins' = Loaded
          /\ proc'.xdp /\ proc'.snapshot = Captured
          /\ proc'.attached = proc.attached
        BY <1>0, <1>3 DEF LoadXDP, Processes
    <2> QED
        BY <2>1, <2>2, <2>3 DEF SnapshotAgrees
<1>4. CASE AttachXDP
    BY <1>0, <1>4 DEF AttachXDP, SnapshotAgrees, Processes
<1>5. CASE AttachXDPFails
    BY <1>0, <1>5 DEF AttachXDPFails, SnapshotAgrees, Processes, NoMaps
<1>6. CASE SetRateLimit
    BY <1>0, <1>6 DEF SetRateLimit, SnapshotAgrees, Maps, NoMaps
<1>7. CASE Freeze
    BY <1>0, <1>7 DEF Freeze, SnapshotAgrees, Maps, Processes, NoMaps
<1>8. CASE UnpinAndClose
    BY <1>0, <1>8 DEF UnpinAndClose, SnapshotAgrees, Processes, NoMaps, Goroutines, Go
<1>9. CASE /\ main # "down" /\ main' # "down"
           /\ ~(LoadXDP \/ AttachXDP \/ AttachXDPFails \/ SetRateLimit \/ Freeze \/ UnpinAndClose)
    <2>1. proc'.xdp = proc.xdp /\ proc'.attached = proc.attached /\ proc'.snapshot = proc.snapshot
        BY <1>9, Writers
    <2>2. ~Reboot
        BY <1>9 DEF Reboot
    <2>3. /\ pins'.id = pins.id /\ pins'.frozen = pins.frozen /\ pins'.limit = pins.limit
          /\ pins' = pins \/ proc.attached
        BY <1>0, <1>9, <2>2, KernelMoves DEF Maps
    <2>4. \/ main' = main
          \/ main \in {"probes", "sets", "rules"} /\ main' \in {"sets", "rules", "load"}
          \/ main' \in {"wire", "run"}
        BY <1>0, <1>9, MainMoves DEF Launch
    <2>5. pins'.id = 0 => pins' = NoMaps
        BY <2>3 DEF SnapshotAgrees
    <2> QED
        BY <2>1, <2>3, <2>4, <2>5 DEF SnapshotAgrees
<1> QED
    BY <1>0, <1>1, <1>2, <1>3, <1>4, <1>5, <1>6, <1>7, <1>8, <1>9, MainMoves

\* Failures are counted, never forgotten.
LEMMA FailsGrow == TypeOK /\ [Next]_vars => fails' \in Nat /\ fails' >= fails
<1> SUFFICES ASSUME TypeOK, [Next]_vars PROVE fails' \in Nat /\ fails' >= fails
    OBVIOUS
<1>1. fails' = fails \/ MayFail
    BY Zenon DEF goroutines, kernel, bounds, Next, ReaderNext, TimerNext, ShutdownNext, vars,
        Launch, StartupFails, RetryLoad, LoadProbes, CreateIPSets, SetupIPTables, LoadXDP,
        LoadXDPFails, AttachXDP, AttachXDPFails, SetRateLimit, Freeze, FreezeFails, Wire,
        WireWithoutReader, Run, Block, ReaderLooks, ReaderDerefs, ReaderReturns,
        HeartbeatRefused, TimerStops, TimerEnds, Signal, StopChanClosed, CloseLooks,
        CloseStops, Join, FinalFlush, CloseRingbuf, LockXDP, NoXDP, UnpinAndClose,
        TeardownIPSet, TeardownIPSetFails, ExitProcess, MainReturns, Kill, Reboot,
        FlushBlocklists
<1> QED
    BY <1>1, BoundsAssumption DEF TypeOK, MayFail

\* The link dies with the process; os.Exit comes after it is closed.
LEMMA EndUnlinks ==
    ASSUME [Next]_vars, main # "down", main' = "down"
    PROVE  host' = Unlinked \/ ExitProcess
BY Zenon DEF goroutines, kernel, bounds, Next, ReaderNext, TimerNext, ShutdownNext, vars,
    Launch, StartupFails, RetryLoad, LoadProbes, CreateIPSets, SetupIPTables, LoadXDP,
    LoadXDPFails, AttachXDP, AttachXDPFails, SetRateLimit, Freeze, FreezeFails, Wire,
    WireWithoutReader, Run, Block, ReaderLooks, ReaderDerefs, ReaderReturns, HeartbeatRefused,
    TimerStops, TimerEnds, Signal, StopChanClosed, CloseLooks, CloseStops, Join, FinalFlush,
    CloseRingbuf, LockXDP, NoXDP, UnpinAndClose, TeardownIPSet, TeardownIPSetFails,
    MainReturns, Kill, Reboot, FlushBlocklists, CloseStopChan, Go

\* A process takes note of the event map when it opens it.
LEMMA EventsStep == TypeOK /\ Goroutines /\ Started /\ EventsAgree /\ [Next]_vars => EventsAgree'
<1> SUFFICES ASSUME TypeOK, Goroutines, Started, EventsAgree, [Next]_vars PROVE EventsAgree'
    OBVIOUS
<1>0. PlacesOK /\ Goroutines' /\ proc \in Processes
    BY GoroutinesStep DEF TypeOK
<1>1. CASE main' = "down"
    BY <1>0, <1>1 DEF Goroutines, FreshProcess, EventsAgree
<1>2. CASE LoadXDP
    <2>1. starts # 0 /\ events' = IF events = 0 THEN starts ELSE events
        BY <1>2 DEF LoadXDP, Started
    <2>2. proc'.events = events'
        BY <1>0, <1>2 DEF LoadXDP, Processes
    <2> QED
        BY <2>1, <2>2 DEF EventsAgree
<1>3. CASE main = "down" /\ main' # "down"
    BY <1>0, <1>3, MainMoves DEF Launch, Goroutines, FreshProcess, EventsAgree, kernel
<1>4. CASE main # "down" /\ main' # "down" /\ ~LoadXDP
    <2>1. events' = events
        BY <1>4, KernelMoves DEF Reboot
    <2>2. proc'.events = proc.events
        BY <1>4, Writers
    <2>3. CASE AttachXDPFails
        BY <1>0, <2>3 DEF AttachXDPFails, Processes, EventsAgree
    <2>4. CASE ~AttachXDPFails
        BY <1>4, <2>1, <2>2, <2>4, Writers DEF EventsAgree
    <2> QED
        BY <2>3, <2>4
<1> QED
    BY <1>1, <1>2, <1>3, <1>4

\* Whatever handleShutdown has not torn down yet, it still will.
LEMMA LeftStep ==
    TypeOK /\ Goroutines /\ ReaderHasRingbuf /\ SnapshotAgrees /\ LeftBehind /\ [Next]_vars => LeftBehind'
<1> SUFFICES ASSUME TypeOK, Goroutines, ReaderHasRingbuf, SnapshotAgrees, LeftBehind, [Next]_vars
             PROVE  LeftBehind'
    OBVIOUS
<1> USE DEF goroutines, kernel, bounds
<1>0. PlacesOK /\ Goroutines' /\ proc \in Processes /\ host \in Hosts /\ fails \in Nat
    BY GoroutinesStep, BoundsAssumption DEF TypeOK
<1>1. CASE main' = "down"
    <2>1. shut' = "off"
        BY <1>0, <1>1 DEF Goroutines
    <2>2. ASSUME host' = host \/ host' = Unlinked, ~host.linked PROVE ~host'.linked
        BY <1>0, <2>2 DEF Unlinked, Hosts
    <2>3. ~host'.linked
        <3>1. CASE main = "down"
            <4>1. ~host.linked
                BY <1>0, <3>1 DEF Goroutines, FreshProcess, LeftBehind
            <4>2. \/ host' = host \/ host' = Unlinked \/ Reboot \/ FlushBlocklists
                  \/ \E a \in Addresses : host' = [host EXCEPT !.listed = @ \cup {a}]
                <5>1. ~(\/ CreateIPSets \/ SetupIPTables \/ AttachXDP
                        \/ UnpinAndClose \/ TeardownIPSet \/ TeardownIPSetFails)
                    BY <1>0, <3>1 DEF CreateIPSets, SetupIPTables, AttachXDP, UnpinAndClose,
                        TeardownIPSet, TeardownIPSetFails, Go, Goroutines
                <5> QED
                    BY <5>1, KernelMoves
            <4>3. [host EXCEPT !.rules = FALSE, !.sets = FALSE, !.listed = {}].linked = host.linked
                BY <1>0 DEF Hosts
            <4>4. \A a \in Addresses : [host EXCEPT !.listed = @ \cup {a}].linked = host.linked
                BY <1>0 DEF Hosts
            <4> QED
                <5>1. CASE Reboot
                    BY <5>1 DEF Reboot, CleanHost
                <5>2. CASE FlushBlocklists
                    BY <4>1, <4>3, <5>2 DEF FlushBlocklists, Torn
                <5> QED
                    BY <2>2, <4>1, <4>2, <4>4, <5>1, <5>2
        <3>2. CASE main # "down" /\ host' = Unlinked
            BY <1>0, <3>2 DEF Unlinked, Hosts
        <3>3. CASE main # "down" /\ ExitProcess
            BY <3>3 DEF ExitProcess, LeftBehind
        <3> QED
            BY <1>1, <3>1, <3>2, <3>3, EndUnlinks
    <2> QED
        BY <1>1, <2>1, <2>3 DEF LeftBehind, Startup
<1>2. CASE main' # "down" /\ main = "down"
    BY <1>0, <1>2, MainMoves DEF Launch, LeftBehind, Startup, Goroutines
<1>3. CASE main' # "down" /\ main \in Startup
    <2>1. CASE AttachXDP
        BY <1>0, <2>1 DEF AttachXDP, LeftBehind, Startup, Goroutines, Hosts, Processes
    <2>2. CASE CreateIPSets \/ SetupIPTables
        BY <1>0, <2>2 DEF CreateIPSets, SetupIPTables, LeftBehind, Startup, Goroutines, Hosts
    <2>3. CASE ~AttachXDP /\ ~CreateIPSets /\ ~SetupIPTables
        <3>0. main # "down" /\ shut = "off"
            BY <1>0, <1>3 DEF Goroutines, Startup
        <3>1. proc'.attached = proc.attached
            BY <1>3, <2>3, <3>0, Writers DEF UnpinAndClose, Go
        <3>2. /\ host'.linked => host.linked
              /\ host'.sets = host.sets
            <4>1. ~(UnpinAndClose \/ TeardownIPSet \/ TeardownIPSetFails \/ Reboot \/ FlushBlocklists)
                BY <3>0 DEF UnpinAndClose, TeardownIPSet, TeardownIPSetFails, Go, Reboot, FlushBlocklists
            <4> QED
                BY <1>0, <2>3, <4>1, KernelMoves DEF Hosts, Unlinked
        <3> QED
            BY <1>0, <1>3, <2>3, <3>1, <3>2, MainMoves DEF LeftBehind, Startup, Goroutines
    <2> QED
        BY <2>1, <2>2, <2>3
<1>4. CASE main' = "run" /\ main = "run"
    <2>1. CASE UnpinAndClose
        BY <1>0, <2>1 DEF UnpinAndClose, Go, Unlinked, LeftBehind, Hosts, Processes, Startup
    <2>2. CASE NoXDP
        BY <1>0, <2>2 DEF NoXDP, Go, LeftBehind, SnapshotAgrees, Startup
    <2>3. CASE TeardownIPSet
        <3>1. /\ UNCHANGED <<pins, proc>> /\ shut = "ipset" /\ shut' = "exit"
              /\ host' = [host EXCEPT !.rules = FALSE, !.sets = FALSE, !.listed = {}]
            BY <2>3 DEF TeardownIPSet, Go, Torn
        <3>2. ~proc.attached /\ ~host.linked /\ (proc.xdp => pins = NoMaps)
            BY <3>1 DEF LeftBehind
        <3>3. host' = CleanHost
            BY <1>0, <3>1, <3>2 DEF CleanHost, Hosts
        <3> QED
            BY <1>4, <3>1, <3>2, <3>3 DEF LeftBehind, CleanHost, Startup
    <2>4. CASE TeardownIPSetFails
        <3>1. /\ UNCHANGED <<pins, proc>> /\ shut = "ipset" /\ shut' = "exit" /\ fails' > 0
              /\ host' = [host EXCEPT !.rules = FALSE, !.listed = {}]
            BY <1>0, <2>4 DEF TeardownIPSetFails, MayFail, Go
        <3>2. ~proc.attached /\ ~host.linked /\ (proc.xdp => pins = NoMaps) /\ host.sets
            BY <1>4, <3>1 DEF LeftBehind
        <3>3. host'.sets /\ ~host'.rules /\ ~host'.linked
            BY <1>0, <3>1, <3>2 DEF Hosts
        <3> QED
            BY <1>4, <3>1, <3>2, <3>3 DEF LeftBehind, Startup
    <2>5. CASE ~(UnpinAndClose \/ NoXDP \/ TeardownIPSet \/ TeardownIPSetFails)
        <3>1. ~(\/ LoadXDP \/ AttachXDP \/ AttachXDPFails \/ SetRateLimit \/ Freeze \/ CreateIPSets
                \/ SetupIPTables \/ Wire \/ WireWithoutReader \/ Reboot \/ FlushBlocklists)
            BY <1>4 DEF LoadXDP, AttachXDP, AttachXDPFails, SetRateLimit, Freeze, CreateIPSets,
                SetupIPTables, Wire, WireWithoutReader, Run, Reboot, FlushBlocklists
        <3>2. proc'.attached = proc.attached /\ proc'.xdp = proc.xdp
            BY <1>4, <2>5, <3>1, Writers
        <3>3. /\ shut' \in {"ipset", "exit"} => shut \in {"ipset", "exit"}
              /\ shut' = "exit" <=> shut = "exit"
            BY <1>0, <1>4, <2>5, <3>1, ShutMoves
        <3>4. ~proc.attached => pins' = pins
            BY <2>5, <3>1, KernelMoves
        <3>5. \/ host' = host \/ host' = Unlinked
              \/ host.sets /\ \E a \in Addresses : host' = [host EXCEPT !.listed = @ \cup {a}]
            BY <2>5, <3>1, KernelMoves
        <3>6. (host'.linked => host.linked) /\ host'.sets = host.sets /\ host'.rules = host.rules
            BY <1>0, <3>5 DEF Unlinked, Hosts
        <3>7. shut' = "exit" => host' = CleanHost \/ (fails' > 0 /\ host'.sets /\ ~host'.rules)
            <4>1. fails' \in Nat /\ fails' >= fails
                BY <1>0, FailsGrow
            <4>2. CASE host = CleanHost
                <5>1. ~host.linked /\ ~host.sets
                    BY <4>2 DEF CleanHost
                <5>2. Unlinked = host
                    BY <1>0, <5>1 DEF Unlinked, Hosts
                <5> QED
                    BY <3>5, <4>2, <5>1, <5>2
            <4>3. CASE fails > 0 /\ host.sets /\ ~host.rules
                BY <1>0, <3>6, <4>1, <4>3
            <4> QED
                BY <3>3, <4>2, <4>3, Zenon DEF LeftBehind
        <3> QED
            BY <1>0, <1>4, <3>2, <3>3, <3>4, <3>6, <3>7 DEF LeftBehind, Startup
    <2> QED
        BY <2>1, <2>2, <2>3, <2>4, <2>5
<1> QED
    BY <1>0, <1>1, <1>2, <1>3, <1>4, MainMoves DEF PlacesOK

----------------------------------------------------------------------------
\* The process ends with "returned" or "exit" only after the final flush, with "panic"
\* only if both have asked, and never with "nil".
LEMMA EndStep ==
    ASSUME IInv, [Next]_vars
    PROVE  StoppedIsFlushed' /\ PanicNeedsBoth' /\ NoNilReader'
<1> USE DEF goroutines, kernel, bounds
<1>0. /\ PlacesOK /\ Goroutines /\ RingbufOpen /\ ReaderHasRingbuf /\ WhoCloses
      /\ StoppedIsFlushed /\ PanicNeedsBoth /\ NoNilReader
      /\ asked \subseteq {"signal", "backend"}
    BY DEF IInv, TypeOK
<1>1. CASE MainReturns \/ ExitProcess
    BY <1>0, <1>1 DEF MainReturns, ExitProcess, End, RingbufOpen, StoppedIsFlushed,
        PanicNeedsBoth, NoNilReader
<1>2. CASE TimerStops
    BY <1>0, <1>2 DEF TimerStops, CloseStopChan, End, WhoCloses, Goroutines, PlacesOK,
        StoppedIsFlushed, PanicNeedsBoth, NoNilReader
<1>3. CASE CloseStops
    BY <1>0, <1>3 DEF CloseStops, CloseStopChan, End, WhoCloses, StoppedIsFlushed,
        PanicNeedsBoth, NoNilReader
<1>4. CASE ReaderDerefs
    BY <1>0, <1>4 DEF ReaderDerefs, ReaderHasRingbuf, StoppedIsFlushed, PanicNeedsBoth, NoNilReader
<1>5. CASE StartupFails \/ Kill
    BY <1>0, <1>5 DEF StartupFails, Kill, End, StoppedIsFlushed, PanicNeedsBoth, NoNilReader
<1>6. CASE UNCHANGED ended /\ (main' # "down" \/ UNCHANGED <<main, flushed, asked>>)
    BY <1>0, <1>6 DEF StoppedIsFlushed, PanicNeedsBoth, NoNilReader
<1>7. CASE UNCHANGED <<ended, main>> /\ main # "down"
    BY <1>6, <1>7
<1>8. main = "down" => shut = "off" /\ timer = "off" /\ reader = "off"
    BY <1>0 DEF Goroutines
<1> QED
    BY <1>1, <1>2, <1>3, <1>4, <1>5, <1>6, <1>7, <1>8, Zenon
    DEF Next, ReaderNext, TimerNext, ShutdownNext, vars, Launch, RetryLoad, LoadProbes,
        CreateIPSets, SetupIPTables, LoadXDP, LoadXDPFails, AttachXDP, AttachXDPFails,
        SetRateLimit, Freeze, FreezeFails, Wire, WireWithoutReader, Run, Block, ReaderLooks,
        ReaderReturns, HeartbeatRefused, TimerEnds, Signal, StopChanClosed, CloseLooks, Join,
        FinalFlush, CloseRingbuf, LockXDP, NoXDP, UnpinAndClose, TeardownIPSet,
        TeardownIPSetFails, Reboot, FlushBlocklists, Go

\* The inductive invariant holds in every reachable state.
LEMMA Invariance == Spec => []IInv
<1>1. IInv /\ [Next]_vars => IInv'
    BY TypeStep, GoroutinesStep, RingbufStep, ReaderStep, ClosersStep, StartedStep, SnapshotStep,
       EventsStep, LeftStep, EndStep DEF IInv
<1> QED
    BY <1>1, InitHolds, PTL DEF Spec

\* Start-up, event loop, shutdown, timer and reader stay in step: no goroutine outlives
\* main, and none runs before the event loop.
THEOREM TypeCorrect == Spec => [](TypeOK /\ Goroutines)
<1>1. IInv => TypeOK /\ Goroutines
    BY DEF IInv
<1> QED
    BY <1>1, Invariance, PTL

\* handleShutdown makes the final flush before it closes the ring buffer, and main
\* returns only on the closed ring buffer: whoever wins, a process that stopped on
\* request has flushed.
THEOREM Flushed == Spec => []StoppedIsFlushed
<1>1. IInv => StoppedIsFlushed
    BY DEF IInv
<1> QED
    BY <1>1, Invariance, PTL

\* StopBlockedPacketReader never gets the mutex that Teardown holds, so the reader of
\* blocked packets never finds the field cleared.
THEOREM ReaderSafe == Spec => []NoNilReader
<1>1. IInv => NoNilReader
    BY DEF IInv
<1> QED
    BY <1>1, Invariance, PTL

\* Stop looks and then closes: only a signal that meets a refused heartbeat makes both
\* goroutines close the channel.
THEOREM OnlyBothPanic == Spec => []PanicNeedsBoth
<1>1. IInv => PanicNeedsBoth
    BY DEF IInv
<1> QED
    BY <1>1, Invariance, PTL

\* VerifyMapSnapshot: through crashes, restarts, and maps left by an earlier process, a
\* running agent whose program is attached reports no more than an unfrozen map.
THEOREM IntegrityHolds == Spec => []NoFalseAlarm
<1>1. IInv => NoFalseAlarm
    <2> SUFFICES ASSUME IInv, main = "run", proc.attached
                 PROVE  /\ Report.warnings \subseteq {"not frozen"}
                        /\ Report.healthy <=> Report.warnings = {}
        BY DEF NoFalseAlarm
    <2>1. /\ pins # NoMaps /\ pins.id = proc.snapshot.id
          /\ pins.frozen = proc.snapshot.frozen
          /\ pins.frozen => pins.limit = proc.snapshot.limit
          /\ events # 0 /\ events = proc.events
        BY DEF IInv, SnapshotAgrees, EventsAgree, NoMaps
    <2>2. Findings = IF pins.frozen THEN {} ELSE {"not frozen"}
        BY <2>1 DEF Findings
    <2> QED
        BY <2>1, <2>2 DEF Report
<1> QED
    BY <1>1, Invariance, PTL

\* os.Exit in handleShutdown: the host is clean, but for ipsets whose rule could not be
\* deleted, and the maps that this process opened are unpinned, but for xdp_block_events,
\* which unpinAndClose only closes: it is still pinned after every orderly exit.
THEOREM ExitKeepsEventMap == Spec => ExitLeavesEventMap
<1>1. IInv /\ ExitProcess =>
          /\ proc.xdp => pins' = NoMaps /\ events' # 0
          /\ host' = CleanHost \/ (fails > 0 /\ host'.sets /\ ~host'.rules)
    BY DEF IInv, LeftBehind, EventsAgree, ExitProcess, kernel
<1> QED
    BY <1>1, Invariance, PTL DEF Spec, ExitLeavesEventMap

\* Neither a crash nor a start loses a block, in ipset or in the pinned maps: only an
\* orderly teardown, a reboot, a flush by hand or a program that cannot be attached.
THEOREM BlocksSurvive == Spec => BlocksOutliveProcess
<1>1. ASSUME TypeOK, [Next]_vars
      PROVE  \/ Listing \subseteq Listing'
             \/ Reboot \/ FlushBlocklists \/ AttachXDPFails
             \/ UnpinAndClose \/ TeardownIPSet \/ TeardownIPSetFails
    <2>0. host \in Hosts /\ pins \in Maps
        BY <1>1 DEF TypeOK
    <2>1. pins.blocked \subseteq pins'.blocked \/ AttachXDPFails \/ UnpinAndClose \/ Reboot
        BY <1>1, <2>0, KernelMoves DEF LoadXDP, Loaded, SetRateLimit, Freeze, Maps, NoMaps
    <2>2. \/ host.listed \subseteq host'.listed \/ UnpinAndClose
          \/ TeardownIPSet \/ TeardownIPSetFails \/ Reboot \/ FlushBlocklists
        BY <1>1, <2>0, KernelMoves DEF CreateIPSets, SetupIPTables, AttachXDP, Unlinked, Hosts
    <2> QED
        BY <2>1, <2>2 DEF Listing
<1>2. IInv => TypeOK
    BY DEF IInv
<1> QED
    BY <1>1, <1>2, Invariance, PTL DEF Spec, BlocksOutliveProcess
=============================================================================
