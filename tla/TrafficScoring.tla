---------------------------- MODULE TrafficScoring ----------------------------
(***************************************************************************)
(* What the backend keeps of the traffic of one source address on one      *)
(* server, and how it scores it:                                           *)
(*   backend/internal/api/grpc_handlers.go       SubmitTraffic             *)
(*   backend/internal/analysis/worker.go         the scoring worker        *)
(*   backend/internal/analysis/data_retention.go archiving                 *)
(*   backend/internal/database/queries.sql.go, migrations/022              *)
(*                                                                         *)
(* Time advances in slots of the scoring window; seconds within a slot     *)
(* only count in the window of an event.                                   *)
(***************************************************************************)
EXTENDS Scoring

CONSTANTS Keys,          \* the rows of the address: a port and a direction
          Events,        \* what an agent may report: a row, counters, its own score and level
          Slot,          \* seconds in a slot
          Window,        \* TimeWindowMins, in slots
          MinEvents,
          BlockThreshold,
          Retention,     \* retention_days, in slots
          Keep,          \* the year an archived row is kept, in slots
          MaxEvents,     \* bound: events submitted
          MaxTroubles    \* bound: failures, lost answers and unblocks

Levels == {"normal", "suspicious", "malicious"}

ASSUME KeysAssumption == \A k \in Keys : k.direction \in {"inbound", "outbound"}
ASSUME EventsAssumption ==
    Events \subseteq [key : Keys, syn : Nat, ack : Nat, failed : Nat, ports : Nat,
                      services : Nat, window : Nat, agent : 0 .. 100, level : Levels]
ASSUME BoundsAssumption ==
    /\ {Slot, Window, BlockThreshold, Retention, Keep, MaxEvents} \subseteq Nat \ {0}
    /\ Window < Retention
    /\ {MinEvents, MaxTroubles} \subseteq Nat

None == [hits |-> 0]

VARIABLES
    rows,       \* traffic_events: key -> counters, score, level, slots since first and
                \* last seen, or None
    chart,      \* traffic_timeline: hits and greatest score of the current hour
    past,       \* hits of the earlier hours
    missed,     \* ghost: hits whose timeline write failed
    archive,    \* traffic_events_archive: hits by slots since archived
    deleted,    \* ghost: hits of deleted archives
    pending,    \* events the agent will send again, with the slots since
    pc,         \* the worker: "idle", "update", "announce"
    agg,        \* the aggregate it has read, or None
    judged,     \* ghost: the score of this pass, when nothing has come between
    alert,      \* the last pass sent threat_detected
    mixed,      \* ghost: an event has been stored since the last update
    submitted, troubles  \* for the bounds

traffic == <<rows, chart, past, missed, pending>>
retention == <<archive, deleted>>
worker == <<pc, agg, judged, alert>>
bounds == <<submitted, troubles>>
vars == <<traffic, retention, worker, mixed, bounds>>

Trouble(t) ==
    /\ t => troubles < MaxTroubles
    /\ troubles' = IF t THEN troubles + 1 ELSE troubles

Oldest == 2 * Window + 1
Inbound == {k \in Keys : k.direction = "inbound" /\ rows[k] # None}
InWindow == {k \in Inbound : rows[k].quiet <= Window}

\* What is kept of a row of traffic_events, and of a bucket of traffic_timeline.
TrafficEvent ==
    [syn : Nat, ack : Nat, failed : Nat, hits : Nat, first : Nat, score : 0 .. 100,
     level : Levels, quiet : 0 .. Retention + 1, age : 0 .. Oldest]
TrafficTimeline == [hits : Nat, score : 0 .. 100]

TypeOK ==
    /\ \A k \in Keys : rows[k] = None \/ rows[k] \in TrafficEvent
    /\ chart \in TrafficTimeline
    /\ {past, missed, deleted} \subseteq Nat
    /\ archive \in [0 .. Keep -> Nat]
    /\ \A p \in pending : p.event \in Events /\ p.late \in 0 .. Retention
    /\ pc \in {"idle", "update", "announce"}
    /\ (pc = "update") = (agg # None)
    /\ judged \in 0 .. 100 /\ alert \in BOOLEAN /\ mixed \in BOOLEAN
    /\ submitted \in 0 .. MaxEvents /\ troubles \in 0 .. MaxTroubles

Init ==
    /\ rows = [k \in Keys |-> None]
    /\ chart = [hits |-> 0, score |-> 0] /\ past = 0 /\ missed = 0
    /\ archive = [a \in 0 .. Keep |-> 0] /\ deleted = 0
    /\ pending = {} /\ pc = "idle" /\ agg = None /\ judged = 0
    /\ alert = FALSE /\ mixed = FALSE /\ submitted = 0 /\ troubles = 0

----------------------------------------------------------------------------
\* buildMetricsFromEvent.  LastSeen is not set.
buildMetricsFromEvent(e) ==
    [syn |-> e.syn, ack |-> e.ack, rst |-> 0, failed |-> e.failed,
     ports |-> IF e.ports = 0 THEN e.services ELSE e.ports, window |-> e.window,
     established |-> AtLeast(e.ack - e.syn, 0), hits |-> Max({e.syn, e.ack, e.failed}),
     services |-> e.services, cumulativePorts |-> 0, cumulativeWindow |-> 0,
     previous |-> e.agent, idle |-> Unset, direction |-> e.key.direction]

\* The agent's verdict, score and level, counts when it has one and its score is not
\* below the backend's.  With a threat type alone it is what the backend found: nothing.
scoreFromAgentEvent(e) ==
    LET own == CalculateScore(buildMetricsFromEvent(e))
        hasScore == e.agent > 0 \/ e.level # "normal"
    IN  IF hasScore /\ e.agent >= own.score
        THEN [score |-> e.agent, level |-> e.level]
        ELSE [score |-> own.score, level |-> own.level]

\* An address that has no row yet, as of an event that is so many slots late.
Unseen(e, late) ==
    [syn |-> 0, ack |-> 0, failed |-> 0, hits |-> 0, first |-> e.window,
     age |-> AtMost(late, Oldest)]

\* UpsertTrafficEvent: counters add up, and first_seen stays; score and last_seen
\* are the event's, however late it is.
UpsertTrafficEvent(e, s, late) ==
    LET r == IF rows[e.key] = None THEN Unseen(e, late) ELSE rows[e.key]
    IN  [syn |-> r.syn + e.syn, ack |-> r.ack + e.ack, failed |-> r.failed + e.failed,
         hits |-> r.hits + 1, first |-> r.first, age |-> r.age,
         quiet |-> late, score |-> s.score, level |-> s.level]

\* Mutant: the bucket of the timeline starts again with each event.
TimelineReplaces(s) == [hits |-> 1, score |-> s.score]

\* UpsertTrafficTimeline into the current hour.
UpsertTrafficTimeline(s) == [hits |-> chart.hits + 1, score |-> AtLeast(chart.score, s.score)]

\* SubmitTraffic, for one event that is so many slots late.
Ingest(e, late, charted) ==
    \E s \in {scoreFromAgentEvent(e)} :
        /\ rows' = [rows EXCEPT ![e.key] = UpsertTrafficEvent(e, s, late)]
        /\ chart' = IF charted /\ late = 0 THEN UpsertTrafficTimeline(s) ELSE chart
        /\ past' = IF charted /\ late > 0 THEN past + 1 ELSE past
        /\ missed' = IF charted THEN missed ELSE missed + 1
        /\ mixed' = TRUE /\ judged' = 0

\* A new event.  The agent sends the batch again when the answer is lost or says
\* that an event of the batch was dropped.
Submit(e, charted, answered) ==
    /\ submitted < MaxEvents /\ submitted' = submitted + 1
    /\ Trouble(~charted \/ ~answered)
    /\ Ingest(e, 0, charted)
    /\ pending' = IF answered THEN pending ELSE pending \cup {[event |-> e, late |-> 0]}
    /\ UNCHANGED <<retention, pc, agg, alert>>

\* The event cannot be stored: it is dropped, and the batch is sent again.
SubmitFails(e) ==
    /\ submitted < MaxEvents /\ submitted' = submitted + 1
    /\ Trouble(TRUE)
    /\ pending' = pending \cup {[event |-> e, late |-> 0]}
    /\ UNCHANGED <<rows, chart, past, missed, retention, worker, mixed>>

\* A batch from the agent's buffer.
Resubmit(p, charted) ==
    /\ Trouble(~charted)
    /\ Ingest(p.event, p.late, charted)
    /\ pending' = pending \ {p}
    /\ UNCHANGED <<retention, pc, agg, alert, submitted>>

----------------------------------------------------------------------------
\* GetTrafficAggregationByIP: the lifetime counters of the inbound rows that were
\* seen within the window, and the seconds they span.
GetTrafficAggregationByIP ==
    LET total(F(_)) == MapThenSumSet(F, InWindow)
        syn(k) == rows[k].syn
        ack(k) == rows[k].ack
        failed(k) == rows[k].failed
        start == Max({Slot * rows[k].age + rows[k].first : k \in InWindow})
        end == Min({Slot * rows[k].quiet : k \in InWindow})
    IN  [syn |-> total(syn), ack |-> total(ack), failed |-> total(failed),
         ports |-> Cardinality({k.port : k \in InWindow}),
         previous |-> Max({rows[k].score : k \in InWindow}), span |-> start - end]

Previous == agg.previous

\* buildMetrics: the span is capped to the window, the counters are not.
buildMetrics ==
    LET base == Max({agg.syn, agg.ack, agg.failed})
        window == AtMost(agg.span, Window * Slot)
    IN  [syn |-> agg.syn, ack |-> agg.ack, rst |-> 0, failed |-> agg.failed, ports |-> agg.ports,
         window |-> window,
         established |-> AtLeast(Min({agg.syn, agg.ack}) - agg.failed, 0),
         hits |-> (base + agg.ports - 1) \div agg.ports, services |-> 0,
         cumulativePorts |-> agg.ports, cumulativeWindow |-> AtLeast(window, 0),
         previous |-> Previous, idle |-> 0, direction |-> "inbound"]

\* scoreServerTraffic reads the aggregate, of addresses with enough signals.
Aggregate ==
    /\ pc = "idle" /\ InWindow # {}
    /\ alert' = FALSE /\ judged' = 0
    /\ \E a \in {GetTrafficAggregationByIP} :
          IF a.syn + a.ack + a.failed < MinEvents
          THEN pc' = "announce" /\ agg' = agg ELSE pc' = "update" /\ agg' = a
    /\ UNCHANGED <<traffic, retention, mixed, bounds>>

\* Mutant: only the rows of the window are updated.
RescoredOfWindow == InWindow

\* UpdateTrafficScore: all inbound rows of the address, however old.
Rescored == Inbound

Update ==
    /\ pc = "update"
    /\ \E s \in {CalculateScore(buildMetrics)} :
          /\ rows' = [k \in Keys |-> IF k \in Rescored
                         THEN [rows[k] EXCEPT !.score = s.score, !.level = s.level] ELSE rows[k]]
          /\ judged' = IF InWindow # {} THEN s.score ELSE 0
    /\ pc' = "announce" /\ agg' = None /\ mixed' = FALSE
    /\ UNCHANGED <<chart, past, missed, pending, retention, alert, bounds>>

\* The update fails; the pass goes on.
UpdateFails ==
    /\ pc = "update" /\ Trouble(TRUE)
    /\ pc' = "announce" /\ agg' = None
    /\ UNCHANGED <<traffic, retention, judged, alert, mixed, submitted>>

\* Mutant: the threshold itself is not blockable.
BlockableAbove == {k \in InWindow : rows[k].score > BlockThreshold}

\* GetBlockableIPs.
GetBlockableIPs == {k \in InWindow : rows[k].score >= BlockThreshold}

\* processBlockableTraffic: broadcasts threat_detected.
Announce ==
    /\ pc = "announce" /\ pc' = "idle"
    /\ alert' = (GetBlockableIPs # {})
    /\ UNCHANGED <<traffic, retention, agg, judged, mixed, bounds>>

\* A query of the pass fails, and the pass ends.
PassFails ==
    /\ pc = "announce" /\ pc' = "idle" /\ Trouble(TRUE)
    /\ judged' = 0
    /\ UNCHANGED <<traffic, retention, agg, alert, mixed, submitted>>

\* ResetTrafficScoreForIP, after an unblock: every row, counters stay.
ResetTrafficScoreForIP ==
    /\ Trouble(TRUE)
    /\ rows' = [k \in Keys |-> IF rows[k] = None THEN None
                   ELSE [rows[k] EXCEPT !.score = 0, !.level = "normal"]]
    /\ judged' = 0
    /\ UNCHANGED <<chart, past, missed, pending, retention, pc, agg, alert, mixed, submitted>>

----------------------------------------------------------------------------
\* Mutant: a row is kept while it has any score.
ArchivableUnscored(r) == r # None /\ r.quiet > Retention /\ r.score = 0

\* archive_traffic_events takes what is old and not a threat.
Archivable(r) == r # None /\ r.quiet > Retention /\ r.level = "normal"

\* runArchival moves the rows to the archive.
Archive ==
    LET old == {k \in Keys : Archivable(rows[k])}
        hits(k) == rows[k].hits
    IN  /\ old # {}
        /\ rows' = [k \in Keys |-> IF k \in old THEN None ELSE rows[k]]
        /\ archive' = [archive EXCEPT ![0] = @ + MapThenSumSet(hits, old)]
        /\ UNCHANGED <<chart, past, missed, pending, deleted, worker, mixed, bounds>>

\* cleanup_old_archives goes by the time of archiving.
Expired == {a \in 0 .. Keep : a >= Keep}

\* runCleanup.
Cleanup ==
    LET hits(a) == archive[a]
    IN  /\ \E a \in Expired : archive[a] > 0
        /\ archive' = [a \in 0 .. Keep |-> IF a \in Expired THEN 0 ELSE archive[a]]
        /\ deleted' = deleted + MapThenSumSet(hits, Expired)
        /\ UNCHANGED <<traffic, worker, mixed, bounds>>

\* A slot ends; the hour may.
Tick(hour) ==
    /\ rows' = [k \in Keys |-> IF rows[k] = None THEN None
                   ELSE [rows[k] EXCEPT !.quiet = AtMost(@ + 1, Retention + 1),
                                        !.age = AtMost(@ + 1, Oldest)]]
    /\ chart' = IF hour THEN [hits |-> 0, score |-> 0] ELSE chart
    /\ past' = IF hour THEN past + chart.hits ELSE past
    /\ pending' = {[p EXCEPT !.late = AtMost(@ + 1, Retention)] : p \in pending}
    /\ archive' = [a \in 0 .. Keep |-> CASE a = 0 -> 0
                                       [] a = Keep -> archive[a] + archive[a - 1]
                                       [] a \in 1 .. Keep - 1 -> archive[a - 1]]
    /\ judged' = 0
    /\ UNCHANGED <<missed, deleted, pc, agg, alert, mixed, bounds>>

Ingestion ==
    \/ \E e \in Events, charted, answered \in BOOLEAN : Submit(e, charted, answered)
    \/ \E e \in Events : SubmitFails(e)
    \/ \E p \in pending, charted \in BOOLEAN : Resubmit(p, charted)

Worker == Aggregate \/ Update \/ UpdateFails \/ Announce \/ PassFails

Next == Ingestion \/ Worker \/ ResetTrafficScoreForIP \/ Archive \/ Cleanup \/ \E hour \in BOOLEAN : Tick(hour)

Spec == Init /\ [][Next]_vars

\* The tickers of the retention manager, and the clock.
FairSpec ==
    Spec /\ WF_vars(Archive) /\ WF_vars(Cleanup) /\ WF_vars(\E hour \in BOOLEAN : Tick(hour))

----------------------------------------------------------------------------
RowHits == LET hits(k) == rows[k].hits IN MapThenSumSet(hits, Keys)
ArchivedHits == LET hits(a) == archive[a] IN MapThenSumSet(hits, 0 .. Keep)

\* The charts count what the rows count, archived and deleted ones included, but for
\* the writes to the timeline that failed.
ChartsAgree == chart.hits + past + missed = RowHits + ArchivedHits + deleted

\* Between events the inbound rows of an address carry one score, old rows too.
OneVerdict ==
    ~mixed => \A j, k \in Inbound : rows[j].score = rows[k].score

\* A pass that finds the address a threat announces it, unless an event, an unblock,
\* the end of the slot or a failure comes in between.
VerdictIsAnnounced == pc = "idle" /\ judged >= BlockThreshold => alert

\* The worker does not pardon in one pass: an address it has read as malicious does
\* not become normal, whatever its counters say.
NoSuddenPardon ==
    [][pc = "update" /\ pc' = "announce" /\ troubles' = troubles
       /\ agg.previous >= MaliciousThreshold
          => \A k \in Inbound : rows'[k].level # "normal"]_vars

\* What was found a threat is never archived away.
ThreatsStay ==
    [][\A k \in Keys : rows[k] # None /\ rows[k].level # "normal" => rows'[k] # None]_vars

\* A row that is normal and that no event reaches any more is archived in the end, and its
\* archive deleted.  Events end at MaxEvents here; under steady traffic a row stays.
NormalIsNotKept ==
    \A k \in Keys : []<>(rows[k] = None \/ rows[k].level # "normal") /\ []<>(ArchivedHits = 0)

\* Not so: the counters that the worker scores are those of the time window.
AggregatesOverWindow == agg # None => agg.span <= Window * Slot

\* Not so: a row's last_seen never goes back.
LastSeenGrows ==
    [][\A k \in Keys : rows[k] # None /\ rows'[k] # None
          => rows'[k].quiet <= rows[k].quiet + 1
             /\ (rows'[k].hits > rows[k].hits => rows'[k].quiet <= rows[k].quiet)]_vars

\* Not so: an event that is stored as a threat is announced by the next pass.
ThreatIsAnnounced ==
    [][pc = "announce" /\ pc' = "idle" /\ ~alert' => chart.score < BlockThreshold]_vars
=============================================================================
