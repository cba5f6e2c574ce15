----------------------------- MODULE AutoBlocking -----------------------------
(***************************************************************************)
(* The agent scores an address at every flush and blocks it by itself:     *)
(*   agent/aggregator_event.go, safemap.go  what an interval counts        *)
(*   agent/flush.go, flush_proto.go  calculateScoreContexts, buildMetrics  *)
(*   agent/history_store.go          LoadSignals, PersistBucket            *)
(*   agent/remediation/auto_blocker.go, ipset_block.go, ipset_state.go     *)
(*   agent/main.go                   commands of the backend               *)
(*                                                                         *)
(* One address.  The flush runs in a goroutine of its own; connections,    *)
(* commands of the backend, timeouts in the kernel and restarts of the     *)
(* agent come between its steps.  Other addresses appear as what they take *)
(* of the budget of blocks per minute, which may be all of it, always.     *)
(***************************************************************************)
EXTENDS Scoring

CONSTANTS Arrivals,      \* what may be seen of the address: a direction and a pattern,
                         \* the counters and the seconds it takes
          Lookback,      \* HistoryStoreConfig.LookbackWindow, in buckets
          BlockThreshold, MaxBlocksPerMinute,
          Base, Cap,     \* BaseBlockDuration, MaxBlockDuration
          Multiplier,    \* EscalationMultiplier
          Overflow,      \* the first duration that a time.Duration cannot hold
          MaxHits        \* bound: hits in one entry of the statistics, a flush's interval

Directions == {"inbound", "outbound"}

ASSUME ArrivalsAssumption ==
    Arrivals \subseteq Directions \X
        [syn : Nat, ack : Nat, failed : Nat, ports : Nat, hits : Nat, window : Nat]
ASSUME BoundsAssumption ==
    /\ {Lookback, MaxBlocksPerMinute, Base, Cap, Overflow, MaxHits} \subseteq Nat \ {0}
    /\ {BlockThreshold, Multiplier} \subseteq Nat

None == [direction |-> "none"]

VARIABLES
    stats,      \* the entry of the address in SafeStats, or None
    rows,       \* ip_metric_buckets: direction -> age of the bucket -> max_port_hits
    chain,      \* ghost: most hits of an inbound interval since it was last away
    away,       \* ghost: buckets since it was last scored as inbound
    pc,         \* the flush: "idle", "judge", "act", "deliver"
    verdict,    \* the score of this flush, or None
    plan,       \* what ProcessScore has decided to do, or None
    spent,      \* blocksThisMinute
    others,     \* ghost: how many of these went to other addresses
    minute,     \* buckets since lastMinute, at most 2
    count,      \* BlockEvent.Count of the address, 0 without an entry
    marked,     \* the address is in backendRateLimitIPs
    whitelisted,
    tracked,    \* IPSetRemediator.blockedIPs: "no", "timed", "permanent"
    kernel,     \* the ipset: the same
    limited,    \* the address is in the rate-limit set
    racers      \* ghost: hard blocks by the agent while marked or whitelisted

flush == <<stats, rows, chain, away, verdict>>
budget == <<spent, others, minute>>
blocker == <<plan, budget, count, marked, whitelisted>>
enforced == <<tracked, kernel, limited, racers>>
vars == <<flush, pc, blocker, enforced>>

NoRows == [d \in Directions |-> [a \in 0 .. Lookback |-> 0]]
TimeoutKind(d) == IF d > 0 THEN "timed" ELSE "permanent"
Kinds3 == {"no", "timed", "permanent"}

\* What is kept of an entry of the statistics, and of the table of buckets.
IPStats ==
    [direction : Directions, syn : Nat, ack : Nat, failed : Nat, ports : Nat, hits : Nat,
     window : Nat]
Buckets == [Directions -> [0 .. Lookback -> Nat]]

TypeOK ==
    /\ stats = None \/ stats \in IPStats
    /\ rows \in Buckets
    /\ chain \in Nat /\ away \in 0 .. Lookback + 1
    /\ pc \in {"idle", "judge", "act", "deliver"}
    /\ verdict = None \/ (verdict.score \in 0 .. 100 /\ verdict.direction \in Directions)
    /\ plan = None \/ (plan.action \in {"block", "limit"} /\ plan.duration \in {-1} \cup (1 .. Cap))
    /\ (pc = "act") = (plan # None) /\ (pc = "judge" => verdict # None)
    /\ spent \in 0 .. MaxBlocksPerMinute /\ minute \in 0 .. 2
    /\ count \in Nat
    /\ {marked, whitelisted, limited} \subseteq BOOLEAN
    /\ tracked \in Kinds3 /\ kernel \in Kinds3
    /\ racers \in Nat /\ others \in 0 .. spent

Init ==
    /\ stats = None /\ rows = NoRows /\ verdict = None
    /\ chain = 0 /\ away = Lookback + 1
    /\ pc = "idle" /\ plan = None /\ spent = 0 /\ minute = 0
    /\ count = 0 /\ marked = FALSE /\ whitelisted = FALSE
    /\ tracked = "no" /\ kernel = "no" /\ limited = FALSE /\ racers = 0
    /\ others = 0

----------------------------------------------------------------------------
\* ProcessEvent: the entry adds up what the address does, in either direction.  Its own
\* direction is that of its first event, whatever follows.  What comes in while the
\* flush works on its snapshot is not judged.
Arrive(d, p) ==
    /\ IF stats = None
       THEN stats' = [direction |-> d, syn |-> p.syn, ack |-> p.ack, failed |-> p.failed,
                      ports |-> p.ports, hits |-> p.hits, window |-> p.window]
       ELSE /\ stats.hits + p.hits <= MaxHits
            /\ stats' = [stats EXCEPT !.syn = @ + p.syn, !.ack = @ + p.ack,
                             !.failed = @ + p.failed, !.ports = AtLeast(@, p.ports),
                             !.hits = @ + p.hits, !.window = @ + p.window]
    /\ UNCHANGED <<rows, chain, away, verdict, pc, blocker, enforced>>

\* buildMetrics, and what LoadSignals adds.  LastSeen is never set, so that the
\* loaded score has no effect.
buildMetrics(hits) ==
    [syn |-> stats.syn, ack |-> stats.ack, rst |-> 0, failed |-> stats.failed,
     ports |-> stats.ports, window |-> stats.window,
     established |-> AtLeast(stats.ack - stats.syn, 0), hits |-> hits,
     services |-> 0, cumulativePorts |-> 0, cumulativeWindow |-> 0,
     previous |-> 0, idle |-> Unset, direction |-> stats.direction]

\* Mutant: the direction is left out of the query.
LoadSignalsAnyDirection(d) == Max({rows[e][a] : e \in Directions, a \in 1 .. Lookback})

\* The most hits of an earlier bucket within the lookback window.
LoadSignals(d) == Max({rows[d][a] : a \in 1 .. Lookback})

\* Mutant: the hits of a bucket add up.
PersistBucketAdds(d, hits) == rows' = [rows EXCEPT ![d][0] = @ + hits]

\* The hits that were scored go to the current bucket.
PersistBucket(d, hits) == rows' = [rows EXCEPT ![d][0] = AtLeast(hits, @)]

\* The snapshot and calculateScoreContexts: the history may fail to load and to persist.
Score(loads, persists) ==
    /\ pc = "idle" /\ stats # None
    /\ LET d == stats.direction
           hits == IF loads THEN AtLeast(stats.hits, LoadSignals(d)) ELSE stats.hits
       IN  /\ \E s \in {CalculateScore(buildMetrics(hits))} :
                 verdict' = [score |-> s.score, confidence |-> s.confidence, direction |-> d,
                             hits |-> hits]
           /\ IF persists THEN PersistBucket(d, hits) ELSE UNCHANGED rows
           /\ IF d = "outbound" THEN UNCHANGED <<chain, away>>
              ELSE chain' = AtLeast(stats.hits, chain) /\ away' = 0
    /\ pc' = "judge"
    /\ UNCHANGED <<stats, blocker, enforced>>

----------------------------------------------------------------------------
\* The duration after n blocks, and whether the next one fits.
Escalated == [n \in Nat |-> Base * Multiplier ^ n]
Overflows == Escalated[count] >= Overflow

\* Base * Multiplier^count, at most Cap.  A product that does not fit becomes the
\* least time.Duration on amd64, and the minimum with Cap is negative.
calculateDuration ==
    IF Overflows THEN -1 ELSE AtMost(Escalated[count], Cap)

\* Mutant: the counter is not reset.
NewMinuteKeeps(new) == spent

\* checkRateLimit: a window of a minute that starts with the first check after
\* the previous one.  One bucket later it may or may not have ended.
NewMinute(new) == IF new THEN 0 ELSE spent
MinuteEnds(new) == IF minute = 1 THEN new \in BOOLEAN ELSE new = (minute = 2)

InBudget(n) == n < MaxBlocksPerMinute

\* Mutant: flush.go does not ask for the whitelist.
PassesListed ==
    /\ verdict.direction # "outbound"
    /\ verdict.score >= BlockThreshold
    /\ verdict.confidence >= 800
    /\ tracked = "no"

\* What the flush and ProcessScore check before the budget.
Passes ==
    /\ ~whitelisted
    /\ verdict.direction # "outbound"
    /\ verdict.score >= BlockThreshold
    /\ verdict.confidence >= 800
    /\ tracked = "no"

Skip ==
    /\ pc = "judge" /\ ~Passes
    /\ pc' = "deliver" /\ verdict' = None
    /\ UNCHANGED <<stats, rows, chain, away, blocker, enforced>>

\* Mutant: the mark is not looked at.
NeverRateLimit == "block"

\* shouldRateLimit.
Enforcement == IF marked THEN "limit" ELSE "block"

\* ProcessScore up to the decision between RateLimit and Block.
Judge(new) ==
    /\ pc = "judge" /\ Passes /\ MinuteEnds(new)
    /\ InBudget(NewMinute(new))
    /\ spent' = NewMinute(new) + 1 /\ others' = IF new THEN 0 ELSE others
    /\ minute' = IF new THEN 0 ELSE minute
    /\ plan' = [action |-> Enforcement, duration |-> calculateDuration]
    /\ pc' = "act" /\ verdict' = None
    /\ UNCHANGED <<stats, rows, chain, away, count, marked, whitelisted, enforced>>

\* The budget of the minute is spent.  The log says the address is queued; it is not.
OverBudget(new) ==
    /\ pc = "judge" /\ Passes /\ MinuteEnds(new)
    /\ ~InBudget(NewMinute(new))
    /\ spent' = NewMinute(new) /\ others' = IF new THEN 0 ELSE others
    /\ minute' = IF new THEN 0 ELSE minute
    /\ pc' = "deliver" /\ verdict' = None
    /\ UNCHANGED <<stats, rows, chain, away, plan, count, marked, whitelisted,
                   enforced>>

\* recordBlock.  Beyond the overflow the count no longer matters.
recordBlock == count' = IF Overflows THEN count ELSE count + 1

\* Block of the ipset.
Block ==
    /\ pc = "act" /\ plan.action = "block"
    /\ kernel' = TimeoutKind(plan.duration) /\ tracked' = TimeoutKind(plan.duration)
    /\ racers' = IF marked \/ whitelisted THEN racers + 1 ELSE racers
    /\ recordBlock
    /\ pc' = "deliver" /\ plan' = None
    /\ UNCHANGED <<flush, budget, marked, whitelisted, limited>>

\* RateLimit of the ipset, which a negative timeout makes fail.
Limit ==
    /\ pc = "act" /\ plan.action = "limit" /\ plan.duration > 0
    /\ limited' = TRUE
    /\ pc' = "deliver" /\ plan' = None
    /\ UNCHANGED <<flush, budget, count, marked, whitelisted,
                   tracked, kernel, racers>>

\* The ipset command fails.  The budget stays spent.
ActFails ==
    /\ pc = "act"
    /\ pc' = "deliver" /\ plan' = None
    /\ UNCHANGED <<flush, budget, count, marked, whitelisted,
                   enforced>>

\* The rest of FlushToAPI: the statistics are cleared unless the batch could be
\* neither delivered nor saved.
Deliver(keeps) ==
    /\ pc = "deliver"
    /\ stats' = IF keeps THEN stats ELSE None
    /\ pc' = "idle"
    /\ UNCHANGED <<rows, chain, away, verdict, blocker, enforced>>

----------------------------------------------------------------------------
\* A bucket of the history ends.
Tick ==
    /\ rows' = [d \in Directions |-> [a \in 0 .. Lookback |-> IF a = 0 THEN 0 ELSE rows[d][a - 1]]]
    /\ away' = AtMost(away + 1, Lookback + 1)
    /\ chain' = IF away >= Lookback THEN 0 ELSE chain
    /\ minute' = AtMost(minute + 1, 2)
    /\ UNCHANGED <<stats, verdict, pc, plan, spent, others, count, marked, whitelisted,
                   enforced>>

\* cleanupHistoryLocked, after a block of any address: the entry is 30 days old.
Forget ==
    /\ count > 0 /\ pc \in {"judge", "deliver"}
    /\ count' = 0
    /\ UNCHANGED <<flush, pc, plan, budget, marked, whitelisted, enforced>>

\* Another address is judged in this flush and takes its share of the budget.
Other(new) ==
    /\ pc \in {"judge", "deliver"} /\ MinuteEnds(new)
    /\ InBudget(NewMinute(new))
    /\ spent' = NewMinute(new) + 1 /\ others' = IF new THEN 1 ELSE others + 1
    /\ minute' = IF new THEN 0 ELSE minute
    /\ UNCHANGED <<flush, pc, plan, count, marked, whitelisted, enforced>>

\* The timeouts of the kernel; the expiry in memory is the same moment.
Expire ==
    /\ kernel = "timed" /\ kernel' = "no"
    /\ tracked' = IF tracked = "timed" THEN "no" ELSE tracked
    /\ UNCHANGED <<flush, pc, blocker, limited, racers>>

LimitExpires ==
    /\ limited /\ limited' = FALSE
    /\ UNCHANGED <<flush, pc, blocker, tracked, kernel, racers>>

----------------------------------------------------------------------------
\* RATE_LIMIT: limits in the kernel, then marks the address for the auto-blocker.
RateLimitCommand ==
    /\ ~whitelisted
    /\ limited' = TRUE /\ marked' = TRUE
    /\ racers' = IF marked THEN racers ELSE 0
    /\ UNCHANGED <<flush, pc, plan, budget, count, whitelisted,
                   tracked, kernel>>

\* BLOCK: nothing for an address that is tracked.
BlockCommand(d) ==
    /\ ~whitelisted /\ tracked = "no"
    /\ kernel' = TimeoutKind(d) /\ tracked' = TimeoutKind(d)
    /\ UNCHANGED <<flush, pc, blocker, limited, racers>>

\* UNBLOCK: of one set; the address is no longer tracked in either case.
UnblockCommand(type, white) ==
    /\ whitelisted' = (white \/ whitelisted)
    /\ racers' = IF white /\ ~whitelisted THEN 0 ELSE racers
    /\ IF type = "ratelimit" THEN limited' = FALSE /\ UNCHANGED kernel
       ELSE kernel' = "no" /\ UNCHANGED limited
    /\ tracked' = "no"
    /\ UNCHANGED <<flush, pc, plan, budget, count, marked>>

\* A command with the reason whitelist_removed only lifts the exemption.
Unlist ==
    /\ whitelisted /\ whitelisted' = FALSE
    /\ racers' = 0
    /\ UNCHANGED <<flush, pc, plan, budget, count, marked,
                   tracked, kernel, limited>>

\* The agent dies and starts again: the history database and the kernel stay.
Restart ==
    /\ stats' = None /\ verdict' = None /\ plan' = None /\ pc' = "idle"
    /\ spent' = 0 /\ others' = 0 /\ minute' = 0 /\ count' = 0
    /\ marked' = FALSE /\ whitelisted' = FALSE /\ tracked' = "no" /\ racers' = 0
    /\ UNCHANGED <<rows, chain, away, kernel, limited>>

Process ==
    \/ Skip \/ (\E new \in BOOLEAN : Judge(new) \/ OverBudget(new))
    \/ Block \/ Limit \/ ActFails
    \/ \E keeps \in BOOLEAN : Deliver(keeps)

Flush == Process \/ \E loads, persists \in BOOLEAN : Score(loads, persists)

Traffic == (\E a \in Arrivals : Arrive(a[1], a[2])) \/ \E new \in BOOLEAN : Other(new)
Time == Tick \/ Forget \/ Expire \/ LimitExpires
Commands ==
    \/ RateLimitCommand \/ (\E d \in {0, Base} : BlockCommand(d)) \/ Unlist
    \/ \E type \in {"blocklist", "ratelimit"}, white \in BOOLEAN : UnblockCommand(type, white)

Next == Flush \/ Traffic \/ Time \/ Commands \/ Restart

Spec == Init /\ [][Next]_vars

\* A flush that has begun goes on, and so does the clock.
FairSpec == Spec /\ WF_vars(Process) /\ WF_vars(Tick)

----------------------------------------------------------------------------
\* The hits that are scored of an address taken for inbound were counted in intervals in
\* which it was taken for inbound, its first event being so, and from a time since when
\* it was never away for the whole lookback window.
MemoryIsOwn ==
    [][verdict = None /\ verdict' # None /\ verdict'.direction = "inbound"
          => verdict'.hits <= chain']_vars

\* Once the backend has asked for a rate limit, or the address is whitelisted, the
\* auto-blocker blocks it at most once more: what it had decided before.
OneRacer == racers <= 1

\* Nothing is queued: an address that is passed over has to be judged again.  One that
\* is judged too hot, again and again, in minutes of which the other addresses leave
\* something, is stopped again and again, if only finitely many of its blocks fail and
\* the agent restarts only finitely often.  Not so when its duration overflows and the
\* backend wants a rate limit, which then fails every time.
HotIsStopped ==
    /\ []<><<pc = "judge" /\ Passes /\ pc' # "judge" /\ others' < MaxBlocksPerMinute>>_vars
    /\ <>[][~ActFails /\ ~Restart]_vars
    => []<>(kernel # "no" \/ limited \/ (marked /\ Overflows))

\* Not so, "queuing for later": what is judged too hot again and again is stopped,
\* whatever the other addresses take of the budget.
QueuedIsStopped ==
    /\ []<><<pc = "judge" /\ Passes /\ pc' # "judge">>_vars
    /\ <>[][~ActFails /\ ~Restart]_vars
    => []<>(kernel # "no" \/ limited \/ (marked /\ Overflows))

\* Not so: a block by the agent ends at the latest after MaxBlockDuration.
Capped == plan # None => plan.duration # -1

\* Not so: a block is for what the address did since the last flush, so that an
\* address cools down.
BlockedForThisFlush ==
    [][pc = "judge" /\ plan' # None
          => CalculateScore(buildMetrics(stats.hits)).score >= BlockThreshold]_vars

\* Not so: a block that the backend made permanent stays until the backend lifts it.
PermanentStays ==
    [][kernel = "permanent" /\ kernel' # "permanent" => kernel' = "no"]_vars
=============================================================================
