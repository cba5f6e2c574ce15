-------------------------- MODULE TelemetryFlush --------------------------
(***************************************************************************)
(* How the agent's traffic statistics reach the backend:                   *)
(*   agent/aggregator_event.go      ProcessEvent (the statistics part)     *)
(*   agent/safemap.go               SafeStats                              *)
(*   agent/flush.go                 FlushToAPI, bufferEvents,              *)
(*                                  retryPendingBatches                    *)
(*   agent/buffer.go                BufferDB                               *)
(*   agent/aggregator_connect.go    StartFlushTimer, runBufferMaintenance  *)
(*   agent/aggregator.go            Stop, Close                            *)
(*   backend/internal/api/grpc_handlers.go   SubmitTraffic                 *)
(*                                                                         *)
(* The event loop adds eBPF events to an entry per source address; one     *)
(* goroutine flushes all entries as a batch, and keeps in an SQLite table  *)
(* the batches that the backend did not take in full.  No lock is held     *)
(* between the snapshot of the entries and their removal, nor between the  *)
(* lookup of an entry and its update.                                      *)
(*                                                                         *)
(* A batch is a function from source addresses to the events counted in    *)
(* its entry.  The backend adds what it receives to what it has, so an     *)
(* event that arrives twice is counted twice.                              *)
(***************************************************************************)
EXTENDS Integers, Sequences, FiniteSets, Functions

CONSTANTS Events,      \* what the eBPF programs report, one value per event
          Address,     \* the source address of each event
          MaxItems,    \* SafeStats.maxItems
          MaxBatches,  \* BufferMaxBatches
          MaxBatchSize,\* the backend's limit on the entries of one batch
          MaxFails     \* bound: calls, writes and processes that fail

ASSUME EventsAssumption == IsFiniteSet(Events) /\ Events # {}
ASSUME AddressAssumption == DOMAIN Address = Events
ASSUME LimitsAssumption ==
    /\ MaxItems \in Nat \ {0}
    /\ MaxBatches \in Nat \ {0}
    /\ MaxBatchSize \in Nat \ {0}
    /\ MaxFails \in Nat

VARIABLES
    seen,      \* events the event loop has taken from the ring buffer
    table,     \* SafeStats: the entries, oldest FirstSeen first
    held,      \* the event, if any, whose entry was looked up and not yet updated
    attached,  \* that entry is still the one in SafeStats
    pc,        \* where FlushToAPI stands
    batch,     \* the snapshot that FlushToAPI submits
    pending,   \* what retryPendingBatches loaded and has yet to send
    buffer,    \* rows of pending_events, oldest first
    phase,     \* running, closing, final (the flush the process exits after) or exited
    received,  \* how often the backend has counted each event, 2 for more
    fails,     \* failures so far
    racers,    \* ghost: events recorded while a snapshot was in flight
    dropped,   \* ghost: events dropped by a limit, by a crash, or by a last flush
               \* that could not save them
    ambiguous, \* ghost: something was counted, stored or lost unknown to the agent
    midway     \* ghost: a retry pass stopped after it had sent a batch

loopVars == <<seen, held>>
flushVars == <<pc, batch, pending, buffer>>
ghosts == <<racers, dropped, ambiguous, midway>>
vars == <<seen, table, held, attached, pc, batch, pending, buffer, phase,
          received, fails, racers, dropped, ambiguous, midway>>

Addresses == Range(Address)
NoBatch == [a \in {} |-> {}]
Batches == UNION {[A -> SUBSET Events] : A \in SUBSET Addresses}

\* buildProtoEventsFromSnapshot: each entry becomes one event of the batch, with all
\* it has counted.
EventsOf(b) == UNION Range(b)
InRows(rows) == UNION {EventsOf(rows[i]) : i \in DOMAIN rows}
Snapshot == [a \in {table[i].address : i \in DOMAIN table} |->
                UNION {table[i].events : i \in {j \in DOMAIN table : table[j].address = a}}]
InTable == EventsOf(Snapshot)
Received == {e \in Events : received[e] > 0}

\* An item of SafeStats.
IPStats == [address : Addresses, events : SUBSET Events]

TypeOK ==
    /\ seen \subseteq Events
    /\ table \in Seq(IPStats)
    /\ Len(table) <= MaxItems
    /\ held \subseteq seen /\ Cardinality(held) <= 1
    /\ attached \in BOOLEAN
    /\ pc \in {"idle", "retry", "delete", "snapshot", "submit", "save", "clear"}
    /\ batch \in Batches
    /\ pending \in Seq(Batches) /\ buffer \in Seq(Batches)
    /\ Len(buffer) <= MaxBatches + fails
    /\ phase \in {"running", "closing", "final", "exited"}
    /\ received \in [Events -> 0 .. 2]
    /\ fails \in 0 .. MaxFails
    /\ racers \subseteq seen /\ dropped \subseteq seen
    /\ ambiguous \in BOOLEAN /\ midway \in BOOLEAN

Init ==
    /\ seen = {} /\ table = <<>> /\ held = {} /\ attached = FALSE
    /\ pc = "idle" /\ batch = NoBatch /\ pending = <<>> /\ buffer = <<>>
    /\ phase = "running"
    /\ received = [e \in Events |-> 0]
    /\ fails = 0
    /\ racers = {} /\ dropped = {} /\ ambiguous = FALSE /\ midway = FALSE

-----------------------------------------------------------------------------
(* The event loop. *)

\* A snapshot is on its way, or the last flush is over: what is recorded now
\* is not in the batch.
InFlight == pc \in {"submit", "save", "clear"} \/ (phase = "final" /\ pc = "idle")
Racing(events) == racers' = racers \cup (IF InFlight THEN events ELSE {})

\* GetOrCreate, under the lock of the map: a full map loses its oldest entry.
Entries(a) == {i \in DOMAIN table : table[i].address = a}
Room == IF Len(table) >= MaxItems THEN Tail(table) ELSE table
GetOrCreate(a) ==
    IF Entries(a) # {} THEN table ELSE Append(Room, [address |-> a, events |-> {}])

Lookup(e) ==
    /\ phase # "exited"
    /\ held = {}
    /\ e \notin seen
    /\ seen' = seen \cup {e}
    /\ held' = {e}
    /\ attached' = TRUE
    /\ table' = GetOrCreate(Address[e])
    /\ dropped' = dropped \cup
         (IF Entries(Address[e]) = {} /\ Room # table THEN Head(table).events ELSE {})
    /\ Racing({e})
    /\ UNCHANGED <<flushVars, phase, received, fails, ambiguous, midway>>

\* The update, under the lock of the entry only: the entry may have left the map.
Update ==
    /\ phase # "exited"
    /\ held # {}
    /\ held' = {}
    /\ attached' = FALSE
    /\ table' = IF attached
                  THEN [i \in DOMAIN table |->
                          IF \E e \in held : table[i].address = Address[e]
                            THEN [table[i] EXCEPT !.events = @ \cup held] ELSE table[i]]
                  ELSE table
    /\ Racing(held)
    /\ UNCHANGED <<seen, flushVars, phase, received, fails, dropped, ambiguous, midway>>

-----------------------------------------------------------------------------
(* SubmitTraffic.  It refuses a batch that is too large before it reads an   *)
(* event; any other call may fail after it has counted some of the entries:  *)
(* an entry the database refused, a timeout, an answer that was lost.        *)

Counted(b, A) ==
    [e \in Events |-> IF received[e] < 2 /\ \E a \in A : e \in b[a]
                        THEN received[e] + 1 ELSE received[e]]
Fits(b) == Cardinality(DOMAIN b) <= MaxBatchSize

Accepts(b) ==
    /\ Fits(b)
    /\ received' = Counted(b, DOMAIN b)
    /\ UNCHANGED <<fails, ambiguous>>

TooLarge(b) ==
    /\ ~Fits(b)
    /\ UNCHANGED <<received, fails, ambiguous>>

Fails(b) ==
    /\ fails < MaxFails
    /\ fails' = fails + 1
    /\ \E A \in SUBSET DOMAIN b :
         /\ A # {} => Fits(b)
         /\ received' = Counted(b, A)
         /\ ambiguous' = (ambiguous \/ A # {})

Refuses(b) == TooLarge(b) \/ Fails(b)

-----------------------------------------------------------------------------
(* FlushToAPI, in the goroutine of StartFlushTimer, and once more in Close    *)
(* when that goroutine has ended.                                             *)

\* Mutant: With nothing in memory, nothing is retried.
LoadOnlyFresh(next) ==
    /\ phase' = next
    /\ pending' = buffer
    /\ pc' = IF buffer = <<>> \/ table = <<>> THEN "snapshot" ELSE "retry"
    /\ UNCHANGED <<loopVars, table, attached, batch, buffer, received, fails, ghosts>>

Load(next) ==
    /\ phase' = next
    /\ pending' = buffer
    /\ pc' = IF buffer = <<>> THEN "snapshot" ELSE "retry"
    /\ UNCHANGED <<loopVars, table, attached, batch, buffer, received, fails, ghosts>>

\* The rows cannot be read: nothing is retried this time.
LoadFails(next) ==
    /\ fails < MaxFails
    /\ fails' = fails + 1
    /\ phase' = next
    /\ pc' = "snapshot"
    /\ UNCHANGED <<loopVars, table, attached, batch, pending, buffer, received, ghosts>>

\* A select that finds the ticker and stopChan ready may still take the tick.
FlushTick ==
    pc = "idle" /\ phase \in {"running", "closing"} /\ (Load(phase) \/ LoadFails(phase))
FinalFlush == pc = "idle" /\ phase = "closing" /\ (Load("final") \/ LoadFails("final"))

\* retryPendingBatches sends the batches one by one; the rows of those it sent
\* are deleted after the last one, and not at all when a later one is refused.
RetryAccepted ==
    /\ pc = "retry"
    /\ Accepts(Head(pending))
    /\ pending' = Tail(pending)
    /\ pc' = IF Tail(pending) = <<>> THEN "delete" ELSE "retry"
    /\ UNCHANGED <<loopVars, table, attached, batch, buffer, phase, racers, dropped, midway>>

\* What this pass has sent stays in the buffer, unless it has expired since.
RetryRefused ==
    /\ pc = "retry"
    /\ Refuses(Head(pending))
    /\ pending' = <<>>
    /\ pc' = "snapshot"
    /\ midway' = (midway \/ Len(pending) < Len(buffer))
    /\ UNCHANGED <<loopVars, table, attached, batch, buffer, phase, racers, dropped>>

\* Mutant: The rows that were sent are not deleted.
DeleteSentForgets ==
    /\ pc = "delete"
    /\ pc' = "snapshot"
    /\ UNCHANGED <<loopVars, table, attached, batch, pending, buffer, phase, received, fails,
                   ghosts>>

\* Every row is one that this pass loaded and sent: only this goroutine saves.
DeleteSent ==
    /\ pc = "delete"
    /\ buffer' = <<>>
    /\ pc' = "snapshot"
    /\ UNCHANGED <<loopVars, table, attached, batch, pending, phase, received, fails, ghosts>>

DeleteFails ==
    /\ pc = "delete"
    /\ fails < MaxFails
    /\ fails' = fails + 1
    /\ ambiguous' = TRUE
    /\ pc' = "snapshot"
    /\ UNCHANGED <<loopVars, table, attached, batch, pending, buffer, phase, received,
                   racers, dropped, midway>>

\* SnapshotDeep, unless there is nothing to flush.
TakeSnapshot ==
    /\ pc = "snapshot"
    /\ IF table = <<>>
         THEN pc' = "idle" /\ UNCHANGED <<batch, racers>>
         ELSE pc' = "submit" /\ batch' = Snapshot /\ racers' = racers \cup held
    /\ UNCHANGED <<loopVars, table, attached, pending, buffer, phase, received, fails,
                   dropped, ambiguous, midway>>

Submitted ==
    /\ pc = "submit"
    /\ Accepts(batch)
    /\ pc' = "clear"
    /\ UNCHANGED <<loopVars, table, attached, batch, pending, buffer, phase,
                   racers, dropped, midway>>

SubmitRefused ==
    /\ pc = "submit"
    /\ Refuses(batch)
    /\ pc' = "save"
    /\ UNCHANGED <<loopVars, table, attached, batch, pending, buffer, phase,
                   racers, dropped, midway>>

\* The server was rejected or deleted: what was refused is saved, and the process exits
\* without Close.
SubmitDenied ==
    /\ pc = "submit"
    /\ pc' = "save"
    /\ phase' = "final"
    /\ UNCHANGED <<loopVars, table, attached, batch, pending, buffer, received, fails, ghosts>>

\* BufferDB.Save makes room first, in a statement of its own.
Excess == IF Len(buffer) >= MaxBatches THEN Len(buffer) - MaxBatches + 1 ELSE 0
Spare(n) == SubSeq(buffer, n + 1, Len(buffer))
Overflow(n) == InRows(SubSeq(buffer, 1, n))

Inserts(n) ==
    /\ pc = "save"
    /\ buffer' = Append(Spare(n), batch)
    /\ dropped' = dropped \cup Overflow(n)
    /\ pc' = "clear"
    /\ UNCHANGED <<loopVars, table, attached, batch, pending, phase, received, racers,
                   ambiguous, midway>>

Save == Inserts(Excess) /\ UNCHANGED fails

\* A count or a delete that fails is only logged: the row is inserted all the same.
SaveCrowded ==
    /\ Excess > 0
    /\ fails < MaxFails
    /\ fails' = fails + 1
    /\ Inserts(0)

\* Mutant: Stats are cleared although the write failed.
SaveFailsClears ==
    /\ pc = "save"
    /\ fails < MaxFails
    /\ fails' = fails + 1
    /\ \E n \in {0, Excess} : buffer' = Spare(n) /\ dropped' = dropped \cup Overflow(n)
    /\ pc' = "clear"
    /\ UNCHANGED <<loopVars, table, attached, batch, pending, phase, received, racers,
                   ambiguous, midway>>

\* The insert fails (the disk is full): the entries stay in memory, which the
\* last flush does not outlive.
SaveFails ==
    /\ pc = "save"
    /\ fails < MaxFails
    /\ fails' = fails + 1
    /\ \E n \in {0, Excess} :
         /\ buffer' = Spare(n)
         /\ dropped' = dropped \cup Overflow(n) \cup
              (IF phase = "final" THEN EventsOf(batch) ELSE {})
    /\ pc' = "idle"
    /\ batch' = NoBatch
    /\ UNCHANGED <<loopVars, table, attached, pending, phase, received, racers,
                   ambiguous, midway>>

\* stats.Clear() empties the map, whatever has come in since the snapshot.
Clear ==
    /\ pc = "clear"
    /\ table' = <<>>
    /\ attached' = FALSE
    /\ batch' = NoBatch
    /\ pc' = "idle"
    /\ UNCHANGED <<loopVars, pending, buffer, phase, received, fails, ghosts>>

-----------------------------------------------------------------------------
(* Maintenance, shutdown and crashes. *)

\* EvictExpired: the oldest row is older than a day.
Expire ==
    /\ phase \in {"running", "closing"}
    /\ buffer # <<>>
    /\ buffer' = Tail(buffer)
    /\ dropped' = dropped \cup EventsOf(Head(buffer))
    /\ UNCHANGED <<loopVars, table, attached, pc, batch, pending, phase, received, fails,
                   racers, ambiguous, midway>>

\* A signal, or a heartbeat that was answered with a failure.
Stop ==
    /\ phase = "running"
    /\ phase' = "closing"
    /\ UNCHANGED <<loopVars, table, attached, flushVars, received, fails, ghosts>>

\* Close returns and the process exits.
Exit ==
    /\ phase = "final" /\ pc = "idle"
    /\ phase' = "exited"
    /\ table' = <<>> /\ held' = {} /\ attached' = FALSE
    /\ UNCHANGED <<seen, flushVars, received, fails, ghosts>>

\* The process dies, or is started again: only the SQLite file survives.
Reset ==
    /\ table' = <<>> /\ held' = {} /\ attached' = FALSE
    /\ pc' = "idle" /\ batch' = NoBatch /\ pending' = <<>>
    /\ phase' = "running"
    /\ UNCHANGED <<seen, buffer, received, racers, midway>>

Crash ==
    /\ phase # "exited"
    /\ fails < MaxFails
    /\ fails' = fails + 1
    /\ dropped' = dropped \cup InTable \cup held
    /\ ambiguous' = TRUE
    /\ Reset

Restart ==
    /\ phase = "exited"
    /\ Reset
    /\ UNCHANGED <<fails, dropped, ambiguous>>

EventLoop == Update \/ \E e \in Events : Lookup(e)
Flush ==
    \/ FlushTick \/ RetryAccepted \/ RetryRefused \/ DeleteSent \/ DeleteFails
    \/ TakeSnapshot \/ Submitted \/ SubmitRefused \/ SubmitDenied
    \/ Save \/ SaveCrowded \/ SaveFails \/ Clear
Shutdown == Stop \/ FinalFlush \/ Exit \/ Crash \/ Restart

Next == EventLoop \/ Flush \/ Expire \/ Shutdown

Spec == Init /\ [][Next]_vars

(* The flush goroutine and the event loop never wait for long: every call   *)
(* they make has a deadline.  Signals, failures and restarts need not come.  *)
FairSpec == Spec /\ WF_vars(Flush) /\ WF_vars(Update) /\ WF_vars(Exit)

-----------------------------------------------------------------------------
(* Properties. *)

Unaccounted == seen \ (Received \cup InTable \cup InRows(buffer) \cup held \cup dropped)

(* An event that the event loop has recorded and that is neither at the      *)
(* backend, nor in memory, nor in the SQLite buffer, nor dropped by one of   *)
(* the limits, a crash or a last flush that could not save it, was recorded  *)
(* while a snapshot was in flight (FlushToAPI, bufferEvents, Close).         *)
OnlyRacersVanish == Unaccounted \subseteq racers

(* The backend counts no event twice, unless a call, a delete or a process   *)
(* failed after it had taken effect, or a retry pass stopped half way.       *)
CountedOnce == (~ambiguous /\ ~midway) => \A e \in Events : received[e] <= 1

(* Again and again every event recorded so far is at the backend, or lost in  *)
(* one of the ways named above, unless the agent is stopped or holds a batch  *)
(* that is larger than the backend takes, which every retry pass stops at.    *)
Oversize == \E i \in DOMAIN buffer : ~Fits(buffer[i])

EventsSettle ==
    []<>(seen \subseteq Received \cup racers \cup dropped \/ Oversize \/ phase = "exited")

(* What bufferEvents and FlushToAPI clear was persisted or accepted: "Clear  *)
(* stats only after successful persistence" (agent/flush.go).                *)
ClearedWasKept == Unaccounted = {}
=============================================================================
