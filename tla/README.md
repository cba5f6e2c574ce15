# A verification of KernelEye

KernelEye watches the traffic of a fleet of Linux servers and blocks hostile
source addresses. An *agent* on every server (Go and eBPF, `src/agent`) counts
traffic, sends it to a *backend* (Go and PostgreSQL, `src/backend`), and carries
out the signed block commands it gets back. A web *dashboard* reads the backend
and lifts blocks or whitelists addresses. Packages in `src/shared` hold what
both programs use: command signatures and threat scores.

This directory holds TLA+ modules for the parts of that program in which several
goroutines or processes, failures and restarts meet, TLC configurations that
check them on small instances, and TLAPS proofs of what matters most.
`PROJECT.json` lists the components, the runs, the source lines behind every
definition, the hazards and the theorems. Paths below are relative to `src/`.

## 1. Inventory

### Agent

| Component | State | Operations | What makes it correct |
|---|---|---|---|
| Signed commands (`agent/block_command_verify.go`, `block_command_sync.go`, `shared/cmdsigning/signing.go`) | `NonceTracker.lastSeen`, the nonce file | verify a streamed command or a block list: nonce check, age, HMAC, record, persist; load at start | nothing is accepted twice, forged messages change nothing, a restart locks nothing out |
| Command stream (`agent/block_command_client.go`) | the stream, the receive loop | connect, sync the block list, receive, reconnect | commands are accepted once and in signing order (a goroutine each carries them out, in any order); what is in the channel arrives |
| Enforcement (`agent/main.go`, `agent/remediation/`) | XDP blocklist map, two ipsets, `blockedIPs`, local whitelist | block, rate limit, unblock, reconcile, sweep of expired XDP entries | the memory of what is blocked agrees with the kernel; a whitelisted address is let through; listed addresses get blocked |
| Statistics and flush (`agent/aggregator_event.go`, `safemap.go`, `flush.go`, `buffer.go`) | entries per address, SQLite rows of unsent batches | record an event, flush, retry, evict, stop | no event is lost or counted twice without a named reason |
| Registration, heartbeat, reconnect (`agent/grpc.go`, `agent/aggregator_connect.go`) | the attempt, client token, connection, failure counter | register, poll, heartbeat, back off, reconnect, exit | only who was revoked stops for good; a reconnect ends |
| Start and shutdown (`agent/main.go`, `agent/cli.go`, `agent/ebpf.go`, `remediation/xdp_remediator.go`, `xdp_maps.go`, `ipset_state.go`) | goroutines, a mutex, kernel objects | load, attach, set limits, signal, close, teardown, flush from the command line | the statistics are sent before the process may end; blocks outlive it; the process ends |
| Analyzer (`remediation/analyzer.go`, `aggregator_event.go`, `aggregator_report.go`) | per-address states in an LRU | observe, decide, enforce, report, prune | a flood is flagged in the step that makes it one; the memory of a block is not older than the block |
| Scores and AutoBlocker (`flush.go`, `flush_proto.go`, `remediation/auto_blocker.go`, `shared/scoring`) | counters of an interval, block history, budget per minute | score at a flush, block, rate-limit, escalate | repeat offenders are blocked longer; the backend's wishes are respected; a hot address is stopped when the budget allows |
| History (`agent/history_store.go`) | SQLite table of buckets | load signals, persist a bucket | an address is scored by its own past |
| XDP filter (`agent/ebpf/xdp_firewall.c`) | block and rate maps shared by CPUs | verdict on a packet | a packet of a blocked address is dropped |
| Probes, loading, integrity (`agent/ebpf/traffic_*.h`, `ebpf.go`, `tc.go`, `map_integrity.go`) | kernel maps | load, attach, hash | the service of an event is the right one of two ports; an integrity report raises no false alarm |

### Backend

| Component | State | Operations | What makes it correct |
|---|---|---|---|
| Block manager (`backend/internal/analysis/block_manager.go`) | `activeBlocks`, rows of the `blocks` table | evaluate, decide, create, clean up, unblock, load at start | repeat offenders are treated no more mildly; one live block per address; a candidate is blocked |
| Scoring worker (`analysis/worker.go`) | `threat_score` of traffic rows | aggregate, score, update, announce | one verdict per address, announced when it is a threat |
| Hub and command service (`api/websocket.go`, `api/block_grpc.go`) | `agentChannels`, one buffered channel per call | register, unregister, send, stream, list | a connected agent is registered; a finished call gets nothing |
| Dashboard handlers (`api/blocks.go`, `api/whitelist.go`) | rows, whitelist | unblock, whitelist add and remove | the block is gone afterwards |
| Agent service (`api/grpc_handlers.go`) | traffic, timeline, block and server rows | ingest, report a block, register, status, heartbeat | a report changes what it describes and nothing else; charts and rows agree; nobody is monitored unapproved |
| Server administration (`api/handlers.go`, `cmd/api/main.go`) | `servers.status` | approve, pause, reject, delete, mark stale | what the user rejected stays rejected |
| Data retention (`analysis/data_retention.go`, `migrations/022`) | archive table | archive, delete | threats stay, the rest goes |
| Monthly reports, mail, sessions, rate limiting, dashboard queries | rows, Redis counters | see `PROJECT.json` | not modelled |

### How they interact

* Agent to backend: gRPC calls with deadlines (`SubmitTraffic`, `ReportBlockedIP`,
  `Heartbeat`, `GetBlockList`), each of which may fail before or after it took effect.
* Backend to agent: one server stream per agent. Signers (the block manager's
  goroutine, HTTP handlers) draw a nonce from the wall clock, sign, and put the
  command on the channel that the hub has for the agent. The whitelist snapshot and
  block lists are signed too but do not pass through the channel.
* Shared state without a common lock: the agent's nonce tracker and its file; the
  XDP map, the ipsets and `blockedIPs`; the `blocks` table and `activeBlocks`; the
  statistics map and the snapshot of it being sent; the `traffic_events` rows, written by
  `SubmitTraffic`, by the scoring worker and by an unblock; the `servers` row, written by
  registrations, heartbeats, the user and the checker of stale servers.
* Callback: the agent reports every block it makes, those it was told to make
  included (`agent/main.go:230`), and the backend changes its rows on the report.

### What is hard here

Every accepted command runs in a goroutine of its own. Verification, blocking and
flushing are sequences of separately locked steps. Both programs restart on their
own schedule with different memories. Calls are retried without knowing whether
they took effect. Blocks expire at different times in four places. The hazards
that follow from this are listed in `PROJECT.json` with the line where each bites
and the properties that watch it, or the reason why none does.

## 2. Modules

| Module | Models | Uses |
|---|---|---|
| `ReplayGuard` | abstract: the nonces one goroutine accepts increase | |
| `CommandVerify` | command verification in the agent | implements `ReplayGuard` |
| `CommandVerifyProofs` | theorems about `CommandVerify` | |
| `OrderedDelivery` | abstract: commands accepted once, in signing order | |
| `CommandChannel` | signers, hub, sessions, wire, receive loop | implements `OrderedDelivery` |
| `CommandChannelProofs` | theorems about `CommandChannel` | |
| `PacketFilter` | what the XDP program does with a frame | |
| `Enforcement` | what the agent does to one address | extends `PacketFilter` |
| `EnforcementProofs` | theorems about `Enforcement`, the part of `PacketFilter` it uses, and `Analyzer` | the last through an instance |
| `Escalation` | how harsh the next decision on an address is | |
| `EscalationProofs` | theorems about `Escalation` and `AutoBlocking` | the latter through an instance |
| `BlockLifecycle` | what the backend remembers of one address | |
| `BlockLifecycleProofs` | theorems about `BlockLifecycle` and `TrafficScoring` | the latter through an instance |
| `TelemetryFlush` | from an eBPF event to the backend's counters | |
| `TelemetryFlushProofs` | theorems about `TelemetryFlush` | |
| `AgentLife` | start, stop, kill and restart of the agent, and what it leaves in the kernel | |
| `AgentLifeProofs` | theorems about `AgentLife` | |
| `Registration` | how a host becomes a monitored server and stops being one | |
| `RegistrationProofs` | theorems about `Registration` | |
| `Analyzer` | from a kernel event to a decision, its execution and its two reports | |
| `Scoring` | `CalculateScore` of `shared/scoring`, in thousandths | |
| `AutoBlocking` | the agent's own blocks, at every flush | extends `Scoring` |
| `TrafficScoring` | rows, charts, scores and archive of one address in the backend | extends `Scoring` |
| `MC...` | instances for TLC | |

`CommandVerify` opens the verification step that `CommandChannel` takes as atomic;
`Escalation` opens the decision that `BlockLifecycle` leaves to a choice of
durations; `Enforcement` starts where `CommandVerify` ends, with a handler that is
called for an accepted command. `AutoBlocking` opens the flush that `TelemetryFlush`
takes for the delivery of counters, and `TrafficScoring` what the backend does with
them: the score that `BlockLifecycle` has as a Boolean. `Analyzer` reduces the backend's
side of a report, which is in `BlockLifecycle`, to the row it leaves behind. `AgentLife`
and `Registration` have the two ways in which the process of all these ends.

### CommandVerify

One variable per piece of state (`lastSeen`, `disk`), and per goroutine a program
counter and the message in hand. `Check`, `Verify`, `Record`, `Truncate` and `Persist` are
the critical sections of `verifyCommand` and `fetchBlockList` (`os.WriteFile` empties the
file before it writes, and may write a part); between them the other
goroutines run: the receive loop, the start-up `SyncBlockList` of `main.go` and the
`Reconcile` ticker. A message is a nonce, whether its HMAC verifies, and whether it
is a command or a list. Any message may be delivered at any time and repeatedly: the
network and the stream's sender are not trusted for order. `Restart` keeps the file
only. `accepted` and `newest` record what the goroutine has accepted since the start.

The refinement `ReceiveLoopGuarded` maps `ReplayGuard.high` to the last nonce the
receive loop accepted: a check and a record in separate critical sections still
give it a strictly increasing sequence, because the only goroutine that can accept
a command is the one whose own records separate its checks.

### CommandChannel

A *session* is one `StreamBlockCommands` call. `Register`, `SendSnapshot`,
`EndSnapshot`, `Forward`, `ContextDone` and `Unregister` are its steps; the deferred
`Unregister` of an old call may come after the `Register` of a new one. `Sign` and
`SendCommandToAgent` are separate, so nonces enter the channel out of order.
`Connect`, `ServeList`, `ReceiveList`, `SyncFails`, `Receive` and `StreamError` are
the agent's. `Drop` loses what is on the wire; `BackendRestart` loses hub, channels
and calls. Nonces come from a clock that advances at every reading (the code reads
nanoseconds).

### Enforcement

The four places that know of a block each hold the time that is left: the XDP map,
the dropping ipset, the rate-limiting ipset and `blockedIPs`. A handler goes through
them one kernel call or locked section at a time, and any of these may fail. `Tick`
ages all four; the kernel removes expired ipset entries, while expired XDP and
memory entries stay until `SweepDelete` or `PurgeExpired`. An unblock that takes the address
off the whitelist does no more than that (`LeaveWhitelist`). `Restart` keeps kernel
state and forgets memory (`Restore` finds nothing because nothing calls `Save`).

What is `Blocked` is what drops packets: an entry of the dropping ipset, or an entry of the
XDP map as far as `PacketFilter` lets it act.

### PacketFilter

`xdp_firewall` as a function from a frame, the answer of the block maps and that of the rate
limiter to the counter and the verdict. `bpf_htons` swaps bytes when `LittleEndian`, as the
object that is embedded was built; the type it is compared with is put together without a
swap. With `LittleEndian` no IP frame is recognised and all are passed as "non-IP traffic", so
that only ipset blocks. The rate limiter, whose windows several CPUs update, is behind that
comparison and is one Boolean.

### Escalation

`Decision` is `determineEnforcement` over the score and the numbers of earlier rows
of each type; `DecideBlind` is the fallback when the history cannot be read.
`ReportUpgrades` and `ReportAdds` are what `ReportBlockedIP` does to those counts.
The read of the history and the insert of the row are one step: only the block
manager's goroutine decides.

### BlockLifecycle

`rows` are the active rows of one address, `mark` its entry in `activeBlocks`. The
block manager's goroutine is `Evaluate`, `CheckMark`, `CheckWhitelist`, `Insert`,
`Mark`, `SendBlock` and `Cleanup`; the unblock request is `FindActive`, `Lift`,
`ResetScore` and `Unmark`; a report is `FindReported` and then `UpdateReported` or
`CreateReported`. Every database call may fail on its own. Expired rows stay active
because nothing calls `CleanupExpiredBlocks`; a new row may take the slot of an
expired one, which the model then forgets. The signature of a command is what tells
`SignedType` (the type the backend signs) from `SentType` (the one it sends).

### TelemetryFlush

`table` are the entries of `SafeStats`; an event is looked up (`Lookup`) and then
added (`Update`) under different locks, so the entry may have left the map in
between. `FlushToAPI` is `Load`, `RetryAccepted`/`RetryRefused`, `DeleteSent`,
`TakeSnapshot`, `Submitted`/`SubmitRefused`, `Save`, `Clear` and the failures of
each. A failed call may have been counted in part. A full buffer evicts its excess
before it inserts; when the count or the eviction fails, the code logs it and inserts
all the same (`SaveCrowded`), so the buffer may exceed `BufferMaxBatches`, and the next
save that works evicts more than one row. `Stop`, `FinalFlush` and `Exit` are the
orderly end, `SubmitDenied` the end of an agent whose server is gone, which saves what
was refused and skips `Close`, `Crash` the other one. Four history variables name why an event
may be missing or counted twice: `racers`, `dropped` (by a limit, a crash, or a last flush
that could neither send nor save), `ambiguous` and `midway`.
The events themselves are abstract: byte counters, geolocation and scores are out.

### AgentLife

Four goroutines have a program counter each: `main` (start-up, then the event loop),
`shut` (`handleShutdown`), `timer` (`StartFlushTimer`, which calls `Stop` when a
heartbeat is refused) and `reader` (`readBlockedPackets`); `mu` is the mutex of the XDP
remediator. `proc` is what dies with the process, `host`, `pins` and `events` what does not:
rules, ipsets and the pinned maps, which `LoadXDP` adopts and `Freeze` makes immutable.
`UnpinAndClose` and `AttachXDPFails` unpin the six maps of `pins`; `events`, the ring buffer
`xdp_block_events`, is pinned by its name like the others but only closed there, so it stays
until a reboot. `FlushBlocklists` (`-flush-blocklists`) empties the ipsets alone. Each start has a limit of its own, so
that a frozen map of an earlier version shows. `UnpinAndClose` has no step after
`LockXDP` when a reader runs: the lock is taken twice there, and `MainReturns` is the way
out. Loading XDP, attaching it, rules, teardown commands and the freezing can fail;
`Kill` and `Reboot` come at any time.

### Registration

`row` is the one server of a key; a handler of `Register` (`calls`), `Heartbeat` or
`SubmitTraffic` (`beats`) is a step per statement, since none opens a transaction. A
caller that times out leaves its handler running or cancels it; `isRetriableRegisterError`
decides whether it calls again, and the text of the error whether the agent ends for
good: `ProxyAnswers` is a reverse proxy whose 404 passes for a server that is gone
(`misrouted`). `Exit` tells an exit with status 0, after which systemd
leaves the agent stopped (`agent.pc = "gone"`), from one it restarts after. `Wrap` is the
arithmetic of a `time.Duration`. `HandleUpdateServerStatus` and `HandleDeleteServer` are
the user, `Age` and `MarkStaleServersOffline` the checker. `raced` records that two
handlers came between each other, `word` the user's last decision.

### Analyzer

`Evaluate` is one event through the ring of SYN times and the map of ports, in the order
of the code; `job` is the decision that `ProcessEvent` then carries out: `Remediate`,
`ReportBlockedIP` and `ReportBlockedIPWithContext`, before it returns to the events. Time
is ages, saturated; the windows keep the order of the code's. `Events` derives what the
probes emit from who connects to whom: `Accepted`, `HalfOpen`, `Connecting`, `Answer`, with
the ports and the flag that `traffic_tcp.h` gives them. `Prune`, `Touched` (with LRU
eviction), unblocks, whitelisting, `SyncBlocklistsToBackend` and `Restart` run beside, and
so does reconciliation in its three steps: `Reconcile` asks the whitelist and the memory of
blocks, `Repair` makes the block, `ReportRepair` reports it. An address whose block failed or was lifted is in `excused`.

### Scoring

Weights and thresholds are those of `NewThreatScorer`; values are thousandths, rounded
down, with `Sqrt` and `Log10` by bisection over the range that occurs. Against a
floating-point port of `CalculateScore`, over 400 inputs, the score differs by at most two
points. The operators are what `AutoBlocking` and `TrafficScoring` take for a score.

### AutoBlocking

One address from both directions. `stats` is its entry for the interval, `rows` its
buckets in the history database; `Flush` judges (`Score`, then `Judge`, which skips,
spends budget and fixes a `plan`), acts (`Block`, `Limit`, `ActFails`) and delivers, with
connections, commands of the backend, expiry and restarts between these: what arrives while
a flush works on its snapshot is cleared with it or kept with it. The direction of an entry
is that of its first event; outbound hits that follow in an inbound one count as inbound.
`Other` is any other address that is judged, and may take the budget of every minute: what
is over budget is logged as queued and is not (`auto_blocker.go:171`). `Overflow` is
the first duration that does not fit an int64, beyond which it is negative, which the
ipset treats as permanent. `racers` counts hard blocks made against the backend's wish.

### TrafficScoring

`rows` are the `traffic_events` of an address by port and direction, `chart` and `past`
its timeline, `archive` the archived hits by age. `Submit`, `SubmitFails` and `Resubmit`
are `SubmitTraffic` for one event with what may fail in it, and an event brings the agent's
own score and level (`scoreFromAgentEvent`); the worker is `Aggregate`,
`Update` and `Announce`; `ResetTrafficScoreForIP` is what an unblock does here; `Archive`
and `Cleanup` are the retention manager. A slot is the five-minute window. `judged` is the
score of this pass as long as nothing has come in between, `mixed` that an event was
stored since the last update.

## 3. What the runs check

| Run | Shows |
|---|---|
| `MCCommandVerify` | No replay, forged messages powerless, the file never ahead of the tracker, and the refinement of `ReplayGuard`, for three goroutines, two commands, two lists, one forgery, one unsigned message and two starts. |
| `MCCommandChannel` | Two signers, two sessions, channel of one: accepted once and in signing order (the refinement of `OrderedDelivery`); a served session is registered unless two calls overlapped; and under fairness what is in the channel of a streaming session is received. |
| `MCEnforcement` | Two goroutines, two failures or kills: as long as handlers never overlapped, a permanent entry in memory has its ipset entry and a completed whitelisting leaves the address alone; and under fairness a listed address gets blocked, by ipset since XDP recognises no packet, unless it is falsely remembered for ever. |
| `MCEscalation` | Both ends of each score range, up to five rows: never milder at the same or a higher score; for scores of 50 and more no temporary block after the third, however many of those were given without reading the history, unless it cannot be read again. |
| `MCBlockLifecycle` | One live row until an unblock, report or failure interferes, at most one decision past the whitelist; and under fairness a candidate is blocked unless whitelisted or marked for ever. |
| `MCUnblockSigned` | *Violation.* The agent cannot verify the dashboard's unblock. |
| `MCTelemetryFlush` | Events vanish only by a limit, a crash, a last save that failed, or a race with the flush; none is counted twice without an ambiguous failure or a retry pass that stopped half way; and under fairness all of them settle again and again, unless the agent is stopped or an oversize batch stands in the way. |
| `MCAgentLife` | Although the teardown locks itself out and `main` may return in the middle of it: a process that was asked to stop has sent its statistics and does end, blocks survive every end but an orderly one and every start that can attach XDP, an integrity report never takes the remains of an earlier process for tampering, and the reader never finds its ring buffer gone. |
| `MCRegistration` | With overlapping and repeated registrations, a query that fails, a lost connection and two decisions of the user: unless statements of two handlers came between each other or a query failed, nobody is monitored unapproved, the rejected stay rejected and only the revoked, and those a proxy told "Not Found", stop for good; and under fairness the revoked stop. |
| `MCAnalyzer` | Two addresses and a table of one state: an address is flagged in the step that makes the flood and in no other, a flag is never older than its block unless the block failed or was lifted; few services are never a scan. |
| `MCAutoBlocking` | Bursts from both directions, one block of budget per minute, failures, commands and restarts: hits that are scored are the address's own, at most one hard block races the backend's wish; and under fairness an address found too hot again and again, in minutes whose budget other addresses have not used up, is stopped again and again, unless its blocks fail or the agent restarts for ever, or its duration overflows where the backend wants a rate limit. |
| `MCTrafficScoring` | Two inbound rows and an outbound one, late and repeated events, failures and an unblock: charts count what the rows, archived ones included, count; between events the inbound rows carry one score, and a threat among them is announced; and under fairness what is normal is archived and deleted once events no longer reach it. |

The violation run states what a comment of the code says; `PROJECT.json` quotes it in
"findings".

These hold on the same instances too, and are left out of the configurations to keep
model checking short; each can be added to the run named:

* `MCCommandVerify`: `AcceptedCovered` (proved), `MonotoneTracker` (proved).
* `MCCommandChannel`: `OnePlace`, no command is in two places (proved);
  `HubTargetsLiveHandler` (proved); `InSigningOrder` (proved), which the refinement implies.
* `MCBlockLifecycle`: `EnforcementVerifies` (proved), every blocking command verifies.
* `MCAgentLife`: `ExitLeavesEventMap`, an exit by `handleShutdown` leaves a clean host, up to
  sets whose rule could not be deleted, and of the maps that the process opened
  `xdp_block_events` alone (proved);
  `PanicNeedsBoth`, only a signal that meets a refused heartbeat closes a channel twice
  (proved).
* `MCRegistration`: `ApprovedRuns` and `Reconnects`, both under fairness.
* `MCAnalyzer`: `BlindSpotEnds`, an address is excused for a bounded time only (proved);
  `WhitelistHolds`, a whitelisted address meets only decisions made before (proved).
* `MCTrafficScoring`: `NoSuddenPardon`, one pass of the worker does not pardon; `ThreatsStay`,
  threats are not archived (proved).
* `TypeOK` of every module (proved where a module of proofs is listed above).

### Other behaviours the models show

These are reachable as well, and several contradict a comment or a document, which is
then named. Each formula can be added to the run named to see the trace; most modules
define it, below the checked properties.

Commands and enforcement:

* Of two goroutines that accept messages, the one with the older nonce may write the
  file last: the file goes back, and a restart accepts again what was accepted.
  `MCCommandVerify`: `[][disk' >= disk]_vars`.
* A command never received is refused as replayed because a later signed message
  overtook it. `MCCommandChannel`: `\A n \in stale : InSeq(n, accepted)`.
* The unregistering of an old stream removes the agent's new registration
  (`backend/internal/api/websocket.go:192`): connected, the agent gets no commands until
  it reconnects. `MCCommandChannel`: `StreamingIsRegistered`.
* With overlapping handlers an address is remembered as blocked for ever and blocked
  nowhere (`agent/remediation/ipset_block.go:41`). `MCEnforcement`: `TrackedIsBlocked`.
* A block in flight enforces after both unblocks of a whitelisting.
  `MCEnforcement`: `WhitelistTakesEffect`.
* An address that only the XDP map has is not blocked on a little-endian host, although
  `agent/remediation/hybrid_remediator.go:10` has XDP for fast packet drops: the type in
  network order is compared with swapped bytes (`agent/ebpf/xdp_firewall.c:318`, and 8 and
  0xDD86 in the embedded object). `MCEnforcement`: `EntryDrops`; with `LittleEndian = FALSE`
  it holds.
* The XDP sweep deletes an entry renewed after it was read as expired.
  `MCEnforcement`: `[][sweeping /\ ~sweeping' /\ Alive(xdp) => Alive(xdp')]_vars`.

Blocks in the backend:

* The agent reports a block it was ordered to make, and the timed row of the order
  becomes permanent, although `backend/internal/api/grpc_handlers.go:710` takes reports for
  the XDP program's own findings. `MCBlockLifecycle` with `OwnBlocks = FALSE`: `TimedStaysTimed`.
* After an unblock the worker scores the old counters again and the address is blocked
  without new traffic, which the reset was to prevent (`api/blocks.go:279`).
  `MCBlockLifecycle`: `ReblockNeedsTraffic`.
* A report and the block manager both insert an active row. `MCBlockLifecycle`:
  `[][report.pc = "create" /\ report' = NoCall /\ rows' # rows => ActiveSlots = {}]_vars`.
* An unblock lifts an expired row and leaves the live one: `FindActive` takes any
  active row.
* An unblock between insert and mark leaves a permanent mark without a row.
  `MCBlockLifecycle`: `at = "idle" /\ todo = {} /\ unblock = NoCall /\ mark.left = Forever => LiveSlots # {}`.

Telemetry:

* With no failure at all, an event recorded between snapshot and clear is lost
  (`agent/flush.go:182`). `MCTelemetryFlush`: `ClearedWasKept`.
* A retry pass that is refused half way sends again what it had sent.
  `MCTelemetryFlush`: `~ambiguous => \A e \in Events : received[e] <= 1`.
* A batch larger than the backend takes stops every retry pass at its row while the
  backend is up. `MCTelemetryFlush`: `[][RetryRefused => fails' > fails]_vars`.

Start, stop and registration:

* `-flush-blocklists` leaves blocks in place that the XDP program had, although
  `agent/cli.go:25` says it tears down all. `MCAgentLife`: `FlushEmptiesBlocklists`.
* An orderly stop of an agent with a running reader never finishes its teardown, so the
  maps stay pinned and a later version keeps the frozen rate limit of the earlier one
  (`remediation/xdp_rate.go:27`). `MCAgentLife`: `[][MainReturns => pins' = NoMaps]_vars`.
* A pause is undone by the next heartbeat. `MCRegistration`: `PauseHolds`
  (`backend/internal/api/handlers.go:1003`).
* A reverse proxy that answers a registration with 404 ends the agent for good: `main.go:111`
  goes by the words "Not Found" in the error, and `grpc.go:208` does not come to the text by
  which `grpc.go:217` means to try again. `MCRegistration`:
  `agent.pc = "gone" => revoked \/ ~Undisturbed`.
* An agent whose key is refused at a heartbeat ends for good instead of registering
  again (`docs/TRUST_MODEL.md:86`), also when the refusal was a failed query.
  `MCRegistration` with `MaxCuts = 0`: `RefusedRegistersAgain`.
* The delay between reconnects is negative after 34 failures and zero after 55
  (`docs/TRUST_MODEL.md:81` says exponential). `MCRegistration` with `MaxCount = 7`,
  `MaxDelay = 5`: `BacksOff`.

Scores and the agent's own blocks:

* An address the analyzer only rate-limits ("don't hard block",
  `agent/remediation/analyzer.go:172`) ends in the block lists without an expiry, by way
  of its report and of reconciliation. `MCAnalyzer`: `ScanOnlyLimited`.
* What the analyzer takes for a SYN is the flag of an accepted connection: the probes send
  `FLAG_SYN = 1` and `FLAG_ACK = 2` (`agent/ebpf/traffic_common.h:38`), the analyzer counts
  flag 2 as its test does (`analyzer_test.go:27`). A half-open flood is not seen, twenty-one
  accepted connections in a minute are. `MCAnalyzer` has it in `HalfOpen` and `Accepted`.
* After 22 blocks the duration of a repeat offender overflows to a negative one, which is
  permanent, before it meets the cap (`auto_blocker.go:19`, "Cap at 24 hours").
  `MCAutoBlocking`: `Capped`.
* What is over the budget of a minute is not queued, although the log says so
  (`auto_blocker.go:171`): as long as other addresses use the budget up, which they may in
  every minute, an address that is judged too hot at every flush is never stopped.
  `MCAutoBlocking`: `QueuedIsStopped`.
* An address is blocked for hits of earlier intervals alone. `MCAutoBlocking` with an
  arrival of a thousand hits and one of a single hit, each over a minute, and `MaxHits = 1001`:
  `BlockedForThisFlush`. A permanent block of the backend becomes a timed one of the
  auto-blocker: `PermanentStays`.
* The worker's aggregate spans the life of a row, not the window
  (`queries.sql.go:2267`), while the time it is divided by is capped to the window
  (`worker.go:193`): a steady harmless client becomes malicious in the end.
  `MCTrafficScoring`: `AggregatesOverWindow`.
* An event stored as a threat is smoothed below the threshold by the worker that has just
  read it, or overwritten by an older aggregate, and not announced. `MCTrafficScoring`:
  `ThreatIsAnnounced`. A batch from the buffer sets `last_seen` back: `LastSeenGrows`.

### Bounds

| Bound | Value | Why it is enough |
|---|---|---|
| `Callers`, `Messages`, `MaxBoots` | 3, 6, 2 | all the goroutines there are; two accepted messages of each kind are needed to see an order, one restart to lose the tracker |
| `MaxSessions`, `ChanCap`, `MaxClock`, `MaxSnapshot` | 2, 1, 3, 1 | one reconnect, a full channel after one command, three signed messages that can pass each other |
| `Handlers`, `MaxDuration`, `MaxFails` | 2, 1, 2 | two handlers already overlap; an entry is absent, expired, alive or permanent; a kill and a failure in one behaviour |
| `MaxRows` | 5 | the fourth block at a moderate score is permanent; one row more than the longest escalation |
| `Slots`, `MaxDuration`, `MaxFails` | 2, 1, 1 | two rows are needed for a duplicate, one timed duration to expire, one failure or restart |
| `Events`, `MaxItems`, `MaxBatches`, `MaxBatchSize`, `MaxFails` | 4, 2, 2, 1, 2 | three addresses overflow the map, one of them is hit twice; the buffer overflows at the third batch; a batch of two addresses is refused by a backend that is up, so a save needs no failure; two failures reach a deletion that fails, and a buffer that an eviction left too long |
| `Addresses`, `MaxStarts`, `MaxFails` | 1, 3, 2 | a version that finds what one before it left, and one after that; a failed attachment and a failed freeze in one behaviour |
| `MaxCalls`, `MaxAttempts`, `MaxFails`, `MaxDecisions`, `MaxCuts` | 3, 2, 1, 2, 1 | two registrations overlap and a third comes after a crash; the user approves and revokes; one cut is a lost connection, a time-out, a crash or a proxy's answer; `DurationBits` and `MaxDelay` shrink the arithmetic |
| `Addresses`, `MaxStates`, `MaxEvents`, `MaxFails` and the windows | 2, 1, 3, 1 | the second address evicts the first; thresholds of one are passed by two connections or services; windows of 1, 2 and 4 ticks keep the order of the code's |
| `Arrivals`, `MaxHits`, `MaxBlocksPerMinute`, `Overflow` | 2, 16, 1, 4 | one inbound burst is too short to judge and two are not, and both are remembered; the second duration meets the cap, the third would overflow; the address or another one takes the budget. Failures, restarts and other addresses have no bound |
| `Keys`, `Events`, `MaxEvents`, `MaxTroubles`, `Retention`, `Keep` | 3, 4, 2, 1, 2, 1 | two inbound rows to disagree; a visit, a flood, an agent's own verdict and a call out; one event late or lost, or an unblock |

`MCCommandVerify`, `MCCommandChannel`, `MCEscalation`, `MCRegistration`, `MCAutoBlocking`
and `MCTrafficScoring` are run without a check for deadlock: messages, clock readings,
sessions, rows, calls or events are used up at the end, or an agent is gone for good. In the
other modules time, traffic or commands always go on. `MCAnalyzer` uses the symmetry of
addresses and of ephemeral ports; it has no liveness property.

### Fairness

* `CommandChannel`: weak fairness of the session's steps and of the client's. Each
  is one goroutine in a loop that blocks only on a channel or on gRPC, and gRPC
  reports a dead transport. Signers, drops and restarts get none.
* `Enforcement`: weak fairness of every handler's next step, of `Reconcile` (a
  one-minute ticker), of `Tick`, and of a sweep that has begun. Commands, failures
  and kills get none, and are bounded: an agent that is killed for ever enforces nothing.
* `BlockLifecycle`: weak fairness of the block manager's steps and of time, strong
  fairness of `Cleanup`. The goroutine is a `select` over two tickers; Go picks
  among ready cases at random, so a ticker that is ready again and again is taken.
* `TelemetryFlush`: weak fairness of the flush goroutine, of an update that has
  looked up its entry, and of the exit that follows the last flush. Every call they
  make has a deadline. New events, signals and failures get none, and the service
  manager is not assumed to start the agent again.
* `AgentLife`: weak fairness of the flush timer, of `handleShutdown` once it has been
  asked, and of `main` returning. Start-up, signals, kills and failures get none.
* `Registration`: weak fairness of the agent's timers and returns, of handlers that have a
  caller and of the connection coming back; strong fairness of `SendHeartbeat` and
  `AttemptReconnect`, which tickers start whenever the other does not hold the lock. The
  user, crashes and abandoned handlers get none.
* `AutoBlocking`: weak fairness of a flush that has begun, and of time. Traffic, other
  addresses, commands, failures and restarts get none and no bound; `HotIsStopped` states
  what it needs of them: the address is judged again and again in minutes of which others
  leave something, and failures and restarts end.
* `TrafficScoring`: weak fairness of archiving and cleanup, tickers of the retention
  manager, and of time. The worker needs none for what is checked.

## 4. What is proved

The proofs hold for every value of the constants that the named assumptions allow.

`CommandVerifyProofs` (any set of goroutines and messages, any number of starts):
`TypeCorrect`, `ReplayFreedom`, `CoverageHolds`, `ForgeriesPowerless`,
`DiskNeverAhead`, `TrackerMonotone` and `Implementation` (of `ReplayGuard`). None of
the properties is inductive. That a message in hand has not been accepted follows
only from: the nonce in hand is above everything the goroutine accepted
(`InFlightAbove`), the last of which bounds the others (`NewestIsBound`), and once
recorded the tracker covers it (`InFlightCovered`). That forgeries are powerless
needs `InFlightGenuine`: what is past `Verify` has verified. `IInv` is the
conjunction with `TypeOK`, `OnlyGenuineAdvance` and `DiskBehindMemory`. Assumptions:
`CallersAssumption`, `MessagesAssumption`.

`EscalationProofs` (any scores, any threshold, a base duration of up to two hours,
any number of rows): `TypeCorrect`, `ThreeChances` and `Escalates`. `NeverMilder`
compares a decision with all earlier ones, so `IInv` carries `Covers`: at every score
at or above that of an earlier decision, the row counts now give a decision at least
as harsh. It rests on lemmas about the matrix of `determineEnforcement`: more rows, a
higher score, or a row turned permanent never make it milder. `Chances` bounds the
temporary decisions by the block rows as long as no row is permanent. The base
duration must not exceed two hours (`BaseAssumption`): with more, the block for a
repeat offender with a low score would be milder than an earlier one.

The module also has `AtMostOneRacer` and `MemoryOfItsOwn` of `AutoBlocking`, through the
instance `Agent`, whose threshold is not the backend's. The first rests on `Racing`: a block
that `ProcessScore` has decided on was decided for an address neither marked nor whitelisted,
so if it is by now, nothing has raced it yet. The second rests on `Remembered`: the buckets
of inbound hits are within what was seen since the address was last away for a whole window,
and those younger than its absence are empty, so that the window has nothing left of it when
the chain is broken. `LoadSignals` takes the maximum of a set; that it has one is proved from
the least member of its distances to a bound. The second theorem assumes `AgentConstants`,
which is what it needs of the assumptions of `AutoBlocking`; the first assumes nothing.

`BlockLifecycleProofs` (any number of servers and rows, any length of a block, any
number of failures and restarts): `TypeCorrect`, `OneRow`, `OneSlip` and
`BlocksVerify`. That a second live row is impossible follows from `Tracks`: until
something interferes, the live row lasts exactly as long as the mark, or as the block
that `Insert` has handed to `Mark`, so no candidate passes `CheckMark` while a row is
alive; expiry, cleanup and the reload at a restart all keep that. `Slips` says that
between `CheckWhitelist` and `Insert` nothing has been inserted since the address was
whitelisted. `LiftFindsRow`, the row an unblock has found is still there when it
lifts it, is what makes the typing inductive. Assumption: `BoundsAssumption`.

The module also has `SameVerdict`, `VerdictAnnounced` and `ThreatsAreKept` of
`TrafficScoring`, through the instance `TS`, for any rows and events, windows, thresholds and
failures. One verdict is kept because `UpdateTrafficScore` writes every inbound row, also those
its aggregate left out, and an event or an unblock that touches one row is `mixed`. That a
threat is announced needs `Standing`: while the worker is about to announce, a row inside its
window carries the score it has judged by, and is what `GetBlockableIPs` looks for. `Formed`
has the types that both need of the rows and of what is sent again. Since an instance brings
no assumption along, the theorems assume `TrafficConstants`: the part of the assumptions of
`TrafficScoring` that they use. `Standing` is where the retention must be longer than the
window: then nothing inside the window is archived.

`CommandChannelProofs` (any number of signers and sessions, any capacity of the channels,
any length of a run): `TypeCorrect`, `AcceptedInOrder`, `HubReachesLive`, `AloneIsReached`,
`NothingIsDoubled` and `Implementation` (of `OrderedDelivery`). The order of acceptance rests on the agent
alone: `SeenAccepted`, the tracker is at or above all it has accepted. That what it accepts
was signed, which the refinement needs, rests on everything on the way: `Passing` says that
signers, channels and transports hold signed commands only. The refinement maps `Sign` to
`Send`, an accepted `Receive` to `Accept`, and every other step to a stutter.
`HubTargetsLiveHandler` and `ReachableWithoutOverlap` are inductive together, with the types.
`NothingIsDoubled` follows one nonce: a reading of the clock is nowhere yet (`Dated`: nonces
are past readings, and what the agent keeps was signed), and a step that puts a nonce
somewhere takes it from its only place; from the front of a channel, so the rest moves up.
Assumption: `BoundsAssumption`.

`EnforcementProofs` (any handlers, durations and failures, with or without XDP):
`TypeCorrect`, `MemoryIsTrue`, `WhitelistHolds` and `OnlyIPSetDrops`. A handler changes four
places one after the other, and between two of them they disagree; `IInv` says how far, by
where the one handler stands. `Alone`: no two are under way while nothing has overlapped.
`Remembered`: a permanent memory has its ipset entry, except between the deletion of the
entry and of the memory. `Unblocking` and `Bypassed`: what an unblock has passed is empty,
and so is what the completed unblocks of a whitelisted address have cleared; the check of
the whitelist at the start of `Block` keeps it so. `NoXDPNoEntry` covers a host without XDP.
`OnlyIPSetDrops` needs no invariant but the types: with `LittleEndian`, the ether type
that `xdp_firewall` reads is none of those it compares with. Assumptions:
`HandlersAssumption`, `BoundsAssumption`.

The module also has five theorems of `Analyzer`, through the instance `An`, for any addresses,
ports, thresholds, table size and number of events:

* `FloodsAreFlagged`. The history of connections is unbounded, the ring is not. `Recalled` says
  of an address that is not flagged that the ring `Mirrors` the history, the i-th youngest
  connection being i slots behind the next one, and that no flood is in it; and that the
  history is in order. Then more than `SynFloodThreshold` connections of the history are in
  one window exactly if the oldest slot of a full ring is (`FloodOfAccepts`, `FloodOfRing`).
* `FlagIsBlock`. `FlagAge`: a flagged address has a time that the next prune still lets pass,
  and its block and each of its times add up to `BlockTime`. Hence the flag is gone before
  the block as long as `EvictAge + PruneEvery < BlockTime`: ten minutes, five, an hour.
* `FewServicesNeverScan`. `Met`: the ports of a state are among the services met. It assumes
  that no service of the host has an ephemeral port, without which `trackedPortForEvent` would
  count clients.
* `WhitelistIsHeld`. `Late`: a decision of `ProcessEvent`, or a block of `onBlock`, that is under
  way on a whitelisted address is older than the entry.
* `BlindSpotsEnd`. `Fresh`: what has a state was heard of since the last prune but one. It
  assumes that the window of ports is not empty.

All assume `AnalyzerConstants`, the part of the assumptions of `Analyzer` that they use.

`TelemetryFlushProofs` (any finite set of events, any limits and any number of failures):
`TypeCorrect`, `NothingElseVanishes` and `NoDoubleCount`. `BatchOfTable` relates the batch in
flight to the table: what has come in since the snapshot is a racer, what is in the snapshot
is in the table or dropped until it is accepted or saved, and then `Clear` loses racers only.
The bound on the buffer is `MaxBatches + fails`: a row inserted after an eviction that failed
is one more, and `Excess` takes it back (`RowsSplit` is what taking a prefix off rows does).
`EntryOfHeld` says that the entry of an event between lookup and update is in the table or
the event is a racer; `RetryPass` that a pass, when it deletes the rows, has sent what is in
them. That nothing is counted twice is `OnePlace`: as long as nothing ambiguous happened and
no pass stopped half way, table, batch, buffer and backend share no event, except what is
about to be cleared or deleted, and no two rows do. Between `Load` and `DeleteSent`, rows
may expire at the front of the buffer while the pass takes its copies from the front of
`pending`; `SameEnd`, the shorter of the two is the end of the longer, is why a pass that
was refused with nothing sent leaves only unsent rows. The module also states what `Append`
and `Tail` do to the events in a table or in rows. Assumptions: `EventsAssumption`,
`AddressAssumption`, `LimitsAssumption`.

`AgentLifeProofs` (any finite set of addresses, any number of starts and failures):
`TypeCorrect`, `Flushed`, `ReaderSafe`, `OnlyBothPanic`, `IntegrityHolds`,
`ExitKeepsEventMap` and `BlocksSurvive`, the last two about steps. The invariant has a part for each pair of
goroutines that share something: `Goroutines` (none outside the event loop), `RingbufOpen`
(`handleShutdown` and `main`: the ring buffer is open up to the step after the final flush),
`ReaderHasRingbuf` (`handleShutdown` and the reader, over the mutex), `WhoCloses`
(`handleShutdown` and the flush timer: who is about to close the channel and who has),
`Started` (a process has been started, which numbers its maps), `SnapshotAgrees` (the pinned
maps are those of the snapshot while the program is attached), `EventsAgree` (the pinned event
map is the one the process opened, since nothing unpins it) and `LeftBehind` (what teardown has
yet to remove). Assumptions: `AddressesAssumption`, `BoundsAssumption`.

`RegistrationProofs` (any number of calls, attempts, decisions and cuts): `TypeCorrect`,
`ApprovedByUser`, `RejectionHolds` and `GoneByUser`. The row is written by handlers that
looked at it in an earlier statement. `Settled` says, as long as no statement came between
and no query failed, what each handler, and the agent that waits for it, may still rely on:
whether there is a row, whether it is approved, whether it was rejected. `RejectedIsRevoked`
holds without that condition. `Formed`, `Bounded` and `Linked` together are `TypeOK` but for
the bounds of the delay: that it stays within its width is arithmetic with powers of two, for
which the provers have no theory, and stays with TLC. Assumptions: `BoundsAssumption`, `DurationAssumption`.

Each inductive invariant was checked by TLC on the instance of its run before it was proved.

Only model-checked:

* All liveness and every property that needs fairness (TLAPS has no rule for `ENABLED` here):
  `QueuedIsReceived`, `ListedIsBlocked`, `EventsSettle`, `StopEnds`, `RevokedStops` and those of
  `BlockLifecycle`, `AutoBlocking` and `TrafficScoring`.
* The bounds of the delay between reconnects (`link` of `Registration`), see above.
* Of `TrafficScoring`: `ChartsAgree`, which compares sums over rows and would need induction
  over data, and `NoSuddenPardon`, a matter of the arithmetic of scores.
* Of `AutoBlocking`: its types (the range of a duration is a matter of powers) and the score
  itself.
* The order of the LRU list of `Analyzer` and the bounds of its ghosts (`TypeOK`); no theorem
  needs them, since each holds whichever state the LRU gives up.

There are no recursive operators.

## 5. What is not modelled

* Numbers: byte counters, geolocation, message encodings. Scores are, in thousandths.
* The kernel side: the rate windows of the XDP program, and of the probes all but the ports
  and flags of TCP events. No IP packet of a little-endian host reaches the rate windows (see
  `PacketFilter`), so nothing they write is in `Enforcement`, and the events that XDP reports
  of dropped packets never come. On a big-endian host the races of CPUs on a window would
  be worth a module.
* `tc.go`: the filters it attaches are never removed, which is kernel state nothing reads.
* `BlockLifecycle` has one address and one user. It does not follow a command into
  the agent: `reports` stands for what the agent will answer.
* `CommandChannel` does not reorder within a stream (HTTP/2 does not) and its clock
  never steps back.
* `Registration` has one key. Two hosts with one key would be two agents on one row, and
  the HMAC inside a key is a lookup that succeeds or does not.
* `AgentLife` takes six of the seven pinned maps for one, since they are unpinned together, and
  has no two processes at once.
* `TrafficScoring` has one server; that the worker walks all active servers in one pass, and
  the partitions of the tables, are left out.
* Monthly reports (one mail, then one row that stops the next), OAuth and sessions, the
  Redis limiter, dashboard queries, generated code: sequential or pure I/O. Their status in
  `PROJECT.json` gives the reason.

## 6. Plan

Done, in this order: `ReplayGuard` and `CommandVerify` with proofs, `OrderedDelivery`
and `CommandChannel`, `Enforcement` and `PacketFilter`, `Escalation` and `BlockLifecycle` with proofs,
`TelemetryFlush`, `AgentLife`, `Registration`, `Analyzer`, `Scoring`, `AutoBlocking`,
`TrafficScoring`.

The modules of proofs came in this order: `CommandVerify`, `Escalation`, `BlockLifecycle`,
`AgentLife`, `Registration`, `Enforcement`, `CommandChannel`, `TelemetryFlush`, `AutoBlocking`,
`TrafficScoring`, `Analyzer`. Eight modules hold proofs; the last three share one with another.

Next theorems: `TypeOK` of `TrafficScoring` and `Analyzer` in full.

Next modules: `Enforcement` with typed lists and lost unblocks; `BlockLifecycle` with marks per server.

The project stays at about a dozen runs: a violation run gives way to a new module's run,
and what it showed is kept above as a formula.
