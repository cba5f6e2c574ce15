------------------------------- MODULE Scoring -------------------------------
(***************************************************************************)
(* The threat score of an address, computed by the agent for what it saw   *)
(* since the last flush and by the backend for an event and for a row:     *)
(*   shared/scoring/scorer.go  CalculateScore and its components           *)
(*   shared/scoring/types.go   IPMetrics, ThreatScore                      *)
(*                                                                         *)
(* Rates and components are in thousandths and rounded down; log10 and the *)
(* square root are rounded down to a tenth.  Windows are in seconds.       *)
(***************************************************************************)
EXTENDS Integers, FiniteSetsExt

\* NewThreatScorer.
SYNRateWeight == 10
UniquePortsWeight == 2
FailedHandshakeWeight == 15
ServiceAbuseWeight == 8
NormalSYNRate == 50
SuspiciousSYNRate == 1000
PortScanThreshold == 3
FailedHandshakeRate == 500
ServiceAbuseThreshold == 5
SuspiciousThreshold == 20
MaliciousThreshold == 40
AutoBlockThreshold == 40
MinWindowDuration == 10
ScoreDecayPercent == 95

\* IPMetrics.  idle is the hours since LastSeen, and Unset when LastSeen is zero.
Unset == -1
Metrics == [syn : Nat, ack : Nat, rst : Nat, failed : Nat, ports : Nat, window : Nat,
            established : Nat, hits : Nat, services : Nat, cumulativePorts : Nat,
            cumulativeWindow : Nat, previous : Int, idle : Int,
            direction : {"inbound", "outbound"}]

Connections(m) == m.syn + m.ack
Signals(m) == m.syn + m.ack + m.failed

AtLeast(x, low) == Max({x, low})
AtMost(x, high) == Min({x, high})

\* 1000 * 10^(k/10), for k in 0..9.
Tenths == <<1000, 1259, 1585, 1995, 2512, 3162, 3981, 5012, 6310, 7943>>
Power == [d \in 0 .. 4 |-> <<1, 10, 100, 1000, 10000>>[d + 1]]

\* log10 of x thousandths, x at least one.
Log10(x) == Max({1000 * p[1] + 100 * p[2] : p \in
                    {q \in (0 .. 4) \X (0 .. 9) : Tenths[q[2] + 1] * Power[q[1]] <= x}})

Sqrt(n) == 100 * Max({k \in 0 .. 200 : k * k <= 100 * n})

\* n per second over w seconds.
Rate(n, w) == (1000 * n) \div w

calculateConfidence(w) ==
    IF w >= MinWindowDuration THEN 1000
    ELSE AtLeast((1000 * w) \div MinWindowDuration, 100)

\* A moderate SYN rate among mostly ACKs is a busy client.
calculateSYNScore(rate, m) ==
    CASE rate <= NormalSYNRate -> 0
      [] rate > SuspiciousSYNRate -> 5000 + 3 * Log10(rate - SuspiciousSYNRate + 1000)
      [] rate > NormalSYNRate /\ rate <= SuspiciousSYNRate ->
            IF Connections(m) > 10 /\ 2 * m.syn < Connections(m) THEN 0
            ELSE ((rate - NormalSYNRate) * 1000) \div NormalSYNRate

\* Many ports in one window.
FastScan(m, connectionRate, w) ==
    LET perSecond == Rate(m.ports, w)
        perConnection == (1000000 * m.ports) \div (connectionRate + 1000)
        threshold == AtLeast(5000 \div w, 500)
        excess == AtLeast(m.ports - PortScanThreshold, 0)
    IN  IF perConnection <= 800
        THEN IF m.ports >= PortScanThreshold + 3 /\ 2 * perSecond > 3 * threshold
             THEN 1000 + 250 * excess ELSE 0
        ELSE IF m.ports <= 10
        THEN IF 10 * perSecond >= 6 * threshold THEN 1000 + 400 * excess ELSE 0
        ELSE IF perSecond > threshold THEN 5000 + Sqrt(excess) ELSE 0

\* Few ports an hour for more than half an hour.
SlowScan(m) ==
    IF m.cumulativePorts < 3 * PortScanThreshold \/ m.cumulativeWindow <= 1800 THEN 0
    ELSE LET perHour == (3600000 * m.cumulativePorts) \div m.cumulativeWindow
         IN  IF perHour > 10000 THEN 2 * Log10(perHour) ELSE 0

calculatePortScore(m, connectionRate) ==
    IF m.ports < PortScanThreshold /\ m.cumulativePorts < 2 * PortScanThreshold THEN 0
    ELSE AtLeast(FastScan(m, connectionRate, IF m.window <= 0 THEN MinWindowDuration ELSE m.window),
                 SlowScan(m))

calculateFailedScore(rate, m) ==
    LET out == m.direction = "outbound"
        mult == IF out THEN 2 ELSE 1
        attempts == m.failed + m.established
        over == rate - FailedHandshakeRate * mult
    IN  CASE m.failed < 3 \/ over <= 0 -> 0
          [] m.failed >= 3 /\ over > 0 ->
                IF 2 * m.failed < attempts /\ m.established > 5 THEN 0
                ELSE IF rate > 5000 * mult /\ 10 * m.failed > 6 * attempts
                THEN (IF out THEN 2000 ELSE 3000) + over
                ELSE IF 10 * m.failed > 9 * attempts /\ m.failed >= 5
                THEN 3000 + rate - FailedHandshakeRate
                ELSE (3 * over) \div (IF out THEN 4 ELSE 2)

RateSeverity(perSecond) ==
    IF perSecond >= 50000 THEN 10 ELSE IF perSecond >= 25000 THEN 7
    ELSE IF perSecond >= 10000 THEN 5 ELSE 3

VolumeSeverity(hits) ==
    IF hits >= 1000 THEN 10 ELSE IF hits >= 500 THEN 8
    ELSE IF hits >= 200 THEN 6 ELSE IF hits >= 100 THEN 4 ELSE 0

calculateServiceAbuseScore(m, effective) ==
    IF m.hits < ServiceAbuseThreshold THEN 0
    ELSE 1000 * AtLeast(RateSeverity(Rate(m.hits, effective)), VolumeSeverity(m.hits))

calculateBurstScore(rate, m) ==
    LET initiated == IF m.syn = 0 THEN Connections(m) ELSE m.syn
        volume == IF initiated > 1000 THEN 3000 ELSE IF initiated > 500 THEN 2000
                  ELSE IF initiated > 200 THEN 1000 ELSE 0
        threshold == AtLeast((10000 * m.window) \div 60, 10000)
    IN  IF m.window < 10 /\ rate > 20000 THEN 5000
        ELSE IF rate > threshold THEN 5 * Log10((1000 * rate) \div threshold) + volume
        ELSE volume

\* Resets answered to an address that opens nothing.
ResetScore(m) ==
    IF m.rst > 5 /\ (m.established = 0 \/ m.rst > 2 * m.established) THEN 3000 ELSE 0

\* The share of a score left after so many hours.
Decayed[h \in Nat] == IF h = 0 THEN 1000 ELSE (Decayed[h - 1] * ScoreDecayPercent) \div 100

applyTimeDecay(score, idle) ==
    LET left == score * Decayed[AtLeast(idle, 0)] IN IF left < 5000 THEN 0 ELSE left

\* A score rises fast and falls slowly.
Smoothed(raw, m) ==
    LET before == AtMost(AtLeast(m.previous, 0), 100)
        old == applyTimeDecay(before, m.idle)
    IN  IF before = 0 \/ m.idle = Unset THEN raw
        ELSE IF raw > old THEN (7 * raw + 3 * old) \div 10
        ELSE (3 * raw + 7 * old) \div 10

Components(m) ==
    LET effective == AtLeast(m.window, MinWindowDuration)
        connectionRate == Rate(Connections(m), effective)
    IN  [service |-> calculateServiceAbuseScore(m, effective),
         port |-> calculatePortScore(m, connectionRate),
         syn |-> calculateSYNScore(Rate(m.syn, effective), m),
         failed |-> calculateFailedScore(Rate(m.failed, effective), m),
         burst |-> calculateBurstScore(connectionRate, m) + ResetScore(m)]

RawScore(m, c) ==
    LET sum == SYNRateWeight * c.syn + UniquePortsWeight * c.port
               + FailedHandshakeWeight * c.failed + ServiceAbuseWeight * c.service + c.burst
    IN  IF m.services > 0 /\ m.ports > 0 /\ m.services >= m.ports \div 2
        THEN (8 * sum) \div 10 ELSE sum

classifyThreat(score) ==
    IF score >= MaliciousThreshold THEN "malicious"
    ELSE IF score >= SuspiciousThreshold THEN "suspicious" ELSE "normal"

\* The largest component that counts; on a tie the first of this order.
Kinds == <<"service", "port", "syn", "failed", "burst">>
classifyThreatType(m, c) ==
    LET counts == {i \in 1 .. 5 :
            /\ c[Kinds[i]] > 0
            /\ Kinds[i] = "port" => m.ports >= PortScanThreshold
            /\ Kinds[i] = "service" => m.hits >= ServiceAbuseThreshold
            /\ Kinds[i] = "burst" => c.burst > 5000}
        largest == {i \in counts : \A j \in counts : c[Kinds[j]] <= c[Kinds[i]]}
    IN  IF counts = {} THEN "none" ELSE Kinds[Min(largest)]

CalculateScore(m) ==
    LET c == Components(m)
        confidence == calculateConfidence(m.window)
        smoothed == Smoothed(RawScore(m, c), m)
        few == IF confidence < 500 /\ Signals(m) < 5 THEN AtMost(smoothed, 40000) ELSE smoothed
        mild == IF m.direction = "outbound" /\ Signals(m) <= 3 THEN AtMost(few, 30000) ELSE few
        score == AtMost(mild, 100000) \div 1000
    IN  [score |-> score, level |-> classifyThreat(score), type |-> classifyThreatType(m, c),
         confidence |-> confidence, direction |-> m.direction]
=============================================================================
