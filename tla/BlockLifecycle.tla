--------------------------- MODULE BlockLifecycle ---------------------------
(***************************************************************************)
(* What the backend remembers of one source address, and the goroutines    *)
(* that change it:                                                         *)
(*   backend/internal/analysis/block_manager.go  evaluateAndBlock,         *)
(*            createBlock, cleanupExpiredBlocks, Unblock, loadActiveBlocks *)
(*   backend/internal/analysis/worker.go         scoreServerTraffic        *)
(*   backend/internal/api/blocks.go              HandleUnblockIP           *)
(*   backend/internal/api/whitelist.go           both handlers             *)
(*   backend/internal/api/grpc_handlers.go       ReportBlockedIP, ingest   *)
(*   backend/internal/api/block_grpc.go          StreamBlockCommands       *)
(*                                                                         *)
(* The rows of the blocks table and the map activeBlocks (here: the mark)  *)
(* describe the same blocks and share no lock or transaction.  A row or a  *)
(* mark has the time it has left: 0 when it has expired, Forever when it   *)
(* is permanent.  Expired rows stay active: nothing calls                  *)
(* CleanupExpiredBlocks.  What the type of a decision is, and what the     *)
(* history is for, is in module Escalation.                                *)
(***************************************************************************)
EXTENDS Integers, FiniteSets

CONSTANTS Servers,      \* the servers of one user
          Slots,        \* bound: active rows remembered at once
          MaxDuration,  \* bound: longest timed block, in ticks
          MaxFails,     \* bound: failures of database calls, and restarts of the backend
          OwnBlocks,    \* agents may block the address on their own
          Operations    \* the dashboard operations users make use of

ASSUME BoundsAssumption ==
    /\ MaxDuration \in Nat \ {0}
    /\ MaxFails \in Nat
    /\ OwnBlocks \in BOOLEAN
    /\ Operations \subseteq {"unblock", "whitelist"}

VARIABLES
    rows,      \* the active rows of the blocks table
    mark,      \* the entry of BlockManager.activeBlocks
    wl,        \* the address is in the whitelist table
    traffic,   \* inbound events of the last five minutes, by server
    score,     \* threat_score of those events is that of a candidate
    todo,      \* rows of GetBlockableIPs evaluateAndBlock has not looked at
    at,        \* where evaluateAndBlock stands
    target,    \* the server of the candidate it is at
    left,      \* the time left of the block being created
    unblock,   \* the request HandleUnblockIP serves
    reports,   \* agents that have a block to report
    report,    \* the call ReportBlockedIP serves
    fails,     \* database calls that have failed
    refused,   \* commands whose signature the agent could not verify
    disturbed, \* an unblock, a report or a failure has interfered
    slipped,   \* blocks created since the address was whitelisted
    calm       \* no event and no block came since an unblock reset the score

table == <<rows, mark>>
loop == <<todo, at, target, left>>
calls == <<unblock, reports, report>>
history == <<disturbed, slipped, calm>>
vars == <<table, wl, traffic, score, loop, calls, fails, refused, history>>

None == [left |-> -1]
Forever == MaxDuration + 1
Times == 0 .. Forever
Entries == [server : Servers, left : Times] \cup {None}
Alive(e) == e.left > 0

\* GetAllActiveBlocks returns what is active and has not expired,
\* GetActiveBlocksForServer the same of one server, GetActiveBlockByIP any active row.
LiveSlots == {i \in Slots : Alive(rows[i])}
GetActiveBlocksForServer(s) == {i \in LiveSlots : rows[i].server = s}
ActiveSlots == {i \in Slots : rows[i] # None}

\* A server whose row GetBlockableIPs returns.
Candidate(s) == traffic[s] # "quiet" /\ score[s]

NoCall == [pc |-> "idle"]
Held == {i \in Slots : \E c \in {unblock, report} : c.pc # "idle" /\ "slot" \in DOMAIN c /\ c.slot = i}

\* A new row takes a free slot, or one of an expired row, which is then forgotten.
FreeSlots == {i \in Slots \ Held : ~Alive(rows[i])}

Commands == [action : {"block", "ratelimit", "unblock"}, type : {"blocklist", "ratelimit", "absent"}]

TypeOK ==
    /\ rows \in [Slots -> Entries]
    /\ mark \in Entries
    /\ wl \in BOOLEAN
    /\ traffic \in [Servers -> {"quiet", "mild", "harmful"}]
    /\ score \in [Servers -> BOOLEAN]
    /\ todo \subseteq Servers
    /\ at \in {"idle", "whitelist", "insert", "mark", "send"}
    /\ target \in Servers
    /\ left \in Times
    /\ unblock \in {NoCall} \cup [pc : {"lift"}, slot : Slots]
                            \cup [pc : {"reset"}, server : Servers] \cup [pc : {"unmark"}]
    /\ reports \subseteq Servers
    /\ report \in {NoCall} \cup [pc : {"update"}, slot : Slots]
                           \cup [pc : {"create"}, server : Servers]
    /\ fails \in 0 .. MaxFails
    /\ refused \subseteq Commands
    /\ disturbed \in BOOLEAN /\ slipped \in Nat /\ calm \in BOOLEAN

Init ==
    /\ rows = [i \in Slots |-> None] /\ mark = None /\ wl = FALSE
    /\ traffic = [s \in Servers |-> "quiet"] /\ score = [s \in Servers |-> FALSE]
    /\ todo = {} /\ at = "idle" /\ target \in Servers /\ left = 0
    /\ unblock = NoCall /\ reports = {} /\ report = NoCall
    /\ fails = 0 /\ refused = {}
    /\ disturbed = FALSE /\ slipped = 0 /\ calm = FALSE

Fail == fails < MaxFails /\ fails' = fails + 1

----------------------------------------------------------------------------
(* Signatures of commands.                                                 *)

\* signCommand and signHubCommand sign the code of the block type the map has.
SignedType(c) ==
    CASE c.type = "absent" -> 0 [] c.type = "blocklist" -> 1 [] c.type = "ratelimit" -> 2

\* StreamBlockCommands sends BLOCKLIST unless the map says something else.
SentType(c) == IF c.type = "ratelimit" THEN 2 ELSE 1

\* The agent verifies the signature over what it received.
Send(cs) == refused' = refused \cup {c \in cs : SignedType(c) # SentType(c)}

----------------------------------------------------------------------------
(* Statements on the tables.                                               *)

CreateBlock(i, s, d) == rows' = [rows EXCEPT ![i] = [server |-> s, left |-> d]]

UnblockIP(i) == rows' = [rows EXCEPT ![i] = None]

\* Permanent, whatever was reported; is_active is left alone.
UpdateBlockExpiry(i) ==
    rows' = IF rows[i] = None THEN rows ELSE [rows EXCEPT ![i].left = Forever]

ResetTrafficScoreForIP(s) == score' = [score EXCEPT ![s] = FALSE]

IsIPWhitelisted == wl
AddToWhitelist == wl' = TRUE
RemoveFromWhitelist == wl' = FALSE

----------------------------------------------------------------------------
(* Traffic and scores.                                                     *)

\* An ingested event adds to the counters and writes the score of the event.
Ingest(s) ==
    /\ traffic' \in {[traffic EXCEPT ![s] = t] : t \in {"mild", "harmful"}}
    /\ traffic[s] = "harmful" => traffic' = traffic
    /\ score' \in {[score EXCEPT ![s] = b] : b \in BOOLEAN}
    /\ calm' = FALSE
    /\ UNCHANGED <<table, wl, loop, calls, fails, refused, disturbed, slipped>>

\* Five minutes without an event.
Quiet(s) ==
    /\ traffic[s] # "quiet"
    /\ traffic' = [traffic EXCEPT ![s] = "quiet"]
    /\ score' = [score EXCEPT ![s] = FALSE]
    /\ UNCHANGED <<table, wl, loop, calls, fails, refused, history>>

\* The worker scores the counters of the window again, every thirty seconds.
WorkerScore(s) ==
    /\ traffic[s] # "quiet"
    /\ score' = [score EXCEPT ![s] = (traffic[s] = "harmful")]
    /\ UNCHANGED <<table, wl, traffic, loop, calls, fails, refused, history>>

----------------------------------------------------------------------------
(* evaluateAndBlock and cleanupExpiredBlocks, one goroutine.               *)

\* GetBlockableIPs, every CheckInterval.
Evaluate ==
    /\ at = "idle" /\ todo = {}
    /\ todo' = {s \in Servers : Candidate(s)}
    /\ UNCHANGED <<table, wl, traffic, score, at, target, left, calls, fails, refused, history>>

\* The map is keyed by the address alone: a mark of any server skips the row.
CheckMark(s) ==
    /\ at = "idle" /\ s \in todo
    /\ todo' = todo \ {s}
    /\ IF mark = None THEN at' = "whitelist" /\ target' = s ELSE UNCHANGED <<at, target>>
    /\ UNCHANGED <<table, wl, traffic, score, left, calls, fails, refused, history>>

\* Mutant: the whitelist is not consulted.
CheckWhitelistNever ==
    /\ at = "whitelist"
    /\ at' = "insert"
    /\ UNCHANGED <<table, wl, traffic, score, todo, target, left, calls, fails, refused, history>>

\* IsIPWhitelisted: a whitelisted address is skipped, and one it fails for.
CheckWhitelist ==
    /\ at = "whitelist"
    /\ \/ at' = (IF IsIPWhitelisted THEN "idle" ELSE "insert") /\ UNCHANGED fails
       \/ Fail /\ at' = "idle"
    /\ UNCHANGED <<table, wl, traffic, score, todo, target, left, calls, refused, history>>

\* CreateBlock inserts the row of the decision, or fails and nothing happens.
Insert ==
    /\ at = "insert"
    /\ \/ \E i \in FreeSlots, d \in 1 .. Forever :
             /\ CreateBlock(i, target, d)
             /\ left' = d
             /\ at' = "mark"
             /\ slipped' = IF wl THEN slipped + 1 ELSE slipped
             /\ calm' = FALSE
             /\ UNCHANGED fails
       \/ Fail /\ at' = "idle" /\ UNCHANGED <<rows, left, slipped, calm>>
    /\ UNCHANGED <<mark, wl, traffic, score, todo, target, calls, refused, disturbed>>

\* Mutant: the entry gets an expiry of its own, a tick before that of the row.
MarkExpiresEarly ==
    /\ at = "mark"
    /\ mark' = [server |-> target, left |-> left - 1]
    /\ at' = "send"
    /\ UNCHANGED <<rows, wl, traffic, score, todo, target, left, calls, fails, refused, history>>

\* The address enters activeBlocks, with the expiry of the row.
Mark ==
    /\ at = "mark"
    /\ mark' = [server |-> target, left |-> left]
    /\ at' = "send"
    /\ UNCHANGED <<rows, wl, traffic, score, todo, target, left, calls, fails, refused, history>>

\* sendBlockCommand: a permanent decision is never a rate limit.  The agent
\* obeys, and will report what it did.
SendBlock ==
    /\ at = "send"
    /\ \/ Send({[action |-> "block", type |-> "blocklist"]})
       \/ left # Forever /\ Send({[action |-> "ratelimit", type |-> "ratelimit"]})
    /\ reports' = reports \cup {target}
    /\ at' = "idle"
    /\ left' = 0
    /\ UNCHANGED <<table, wl, traffic, score, todo, target, unblock, report, fails, history>>

\* Mutant: marks of timed blocks are never removed.
CleanupPermanentOnly ==
    /\ at = "idle" /\ todo = {}
    /\ mark.left = Forever /\ mark' = None
    /\ UNCHANGED <<rows, wl, traffic, score, loop, calls, fails, refused, history>>

\* Every five minutes the mark of an expired block is removed.
Cleanup ==
    /\ at = "idle" /\ todo = {}
    /\ mark.left = 0
    /\ mark' = None
    /\ UNCHANGED <<rows, wl, traffic, score, loop, calls, fails, refused, history>>

----------------------------------------------------------------------------
(* HandleUnblockIP.                                                        *)

\* GetActiveBlockByIP returns any active row; expired ones are active too.
FindActive ==
    /\ "unblock" \in Operations
    /\ unblock = NoCall
    /\ \E i \in ActiveSlots :
          unblock' = [pc |-> "lift", slot |-> i]
    /\ disturbed' = TRUE
    /\ UNCHANGED <<table, wl, traffic, score, loop, reports, report, fails, refused, slipped, calm>>

\* UnblockIP deactivates the row; if it fails the request ends with an error.
Lift ==
    /\ unblock.pc = "lift"
    /\ \/ /\ UnblockIP(unblock.slot)
          /\ unblock' = [pc |-> "reset", server |-> rows[unblock.slot].server]
          /\ UNCHANGED fails
       \/ Fail /\ unblock' = NoCall /\ UNCHANGED rows
    /\ UNCHANGED <<mark, wl, traffic, score, loop, reports, report, refused, history>>

\* ResetTrafficScoreForIP; a failure is only logged.
ResetScore ==
    /\ unblock.pc = "reset"
    /\ \/ ResetTrafficScoreForIP(unblock.server) /\ UNCHANGED fails
       \/ Fail /\ UNCHANGED score
    /\ unblock' = [pc |-> "unmark"]
    /\ calm' = (at = "idle" /\ todo = {})
    /\ UNCHANGED <<table, wl, traffic, loop, reports, report, refused, disturbed, slipped>>

\* BlockManager.Unblock: command and mark under one lock, if there is a mark.
Unmark ==
    /\ unblock.pc = "unmark"
    /\ IF mark # None
       THEN Send({[action |-> "unblock", type |-> "absent"]}) /\ mark' = None
       ELSE UNCHANGED <<refused, mark>>
    /\ unblock' = NoCall
    /\ UNCHANGED <<rows, wl, traffic, score, loop, reports, report, fails, history>>

----------------------------------------------------------------------------
(* The whitelist handlers.  Neither touches rows or marks.                 *)

FanOut == Send({[action |-> "unblock", type |-> t] : t \in {"blocklist", "ratelimit"}})

HandleAddToWhitelist ==
    /\ "whitelist" \in Operations
    /\ ~wl
    /\ AddToWhitelist
    /\ FanOut
    /\ slipped' = 0
    /\ UNCHANGED <<table, traffic, score, loop, calls, fails, disturbed, calm>>

HandleRemoveFromWhitelist ==
    /\ wl
    /\ RemoveFromWhitelist
    /\ FanOut
    /\ UNCHANGED <<table, traffic, score, loop, calls, fails, history>>

----------------------------------------------------------------------------
(* Reports of agents.                                                      *)

\* The agent's reconciliation applies the block list, or the agent
\* blocks the address on its own, and the agent will report it.
AgentBlocks(s) ==
    /\ s \notin reports
    /\ OwnBlocks \/ GetActiveBlocksForServer(s) # {}
    /\ reports' = reports \cup {s}
    /\ UNCHANGED <<table, wl, traffic, score, loop, unblock, report, fails, refused, history>>

\* ReportBlockedIP looks for an active row of the address, of any server.
FindReported(s) ==
    /\ report = NoCall
    /\ s \in reports
    /\ reports' = reports \ {s}
    /\ IF ActiveSlots = {} THEN report' = [pc |-> "create", server |-> s]
       ELSE \E i \in ActiveSlots : report' = [pc |-> "update", slot |-> i]
    /\ disturbed' = TRUE
    /\ UNCHANGED <<table, wl, traffic, score, loop, unblock, fails, refused, slipped, calm>>

\* The row that was found becomes permanent.
UpdateReported ==
    /\ report.pc = "update"
    /\ \/ UpdateBlockExpiry(report.slot) /\ UNCHANGED fails
       \/ Fail /\ UNCHANGED rows
    /\ report' = NoCall
    /\ UNCHANGED <<mark, wl, traffic, score, loop, unblock, reports, refused, history>>

\* A permanent row, unknown to the block manager.
CreateReported ==
    /\ report.pc = "create"
    /\ \/ (\E i \in FreeSlots : CreateBlock(i, report.server, Forever)) /\ UNCHANGED fails
       \/ Fail /\ UNCHANGED rows
    /\ report' = NoCall
    /\ UNCHANGED <<mark, wl, traffic, score, loop, unblock, reports, refused, history>>

----------------------------------------------------------------------------
(* Time, and restarts of the backend.                                      *)

Aged(d) == IF d \in 1 .. MaxDuration THEN d - 1 ELSE d

Tick ==
    /\ rows' = [i \in Slots |-> [rows[i] EXCEPT !.left = Aged(@)]]
    /\ mark' = [mark EXCEPT !.left = Aged(@)]
    /\ left' = Aged(left)
    /\ UNCHANGED <<wl, traffic, score, todo, at, target, calls, fails, refused, history>>

\* Mutant: the map starts empty.
LoadNothing == mark' = None

\* loadActiveBlocks: of several live rows the one read last has the mark.
LoadActiveBlocks ==
    IF LiveSlots = {} THEN mark' = None ELSE \E i \in LiveSlots : mark' = rows[i]

Restart ==
    /\ Fail
    /\ \/ LoadActiveBlocks /\ UNCHANGED disturbed
       \/ mark' = None /\ disturbed' = TRUE
    /\ todo' = {} /\ at' = "idle" /\ left' = 0
    /\ unblock' = NoCall /\ report' = NoCall
    /\ UNCHANGED <<rows, wl, traffic, score, target, reports, refused, slipped, calm>>

Manager ==
    \/ Evaluate \/ CheckWhitelist \/ Insert \/ Mark \/ SendBlock
    \/ \E s \in Servers : CheckMark(s)

Next ==
    \/ Manager \/ Cleanup
    \/ FindActive \/ Lift \/ ResetScore \/ Unmark
    \/ HandleAddToWhitelist \/ HandleRemoveFromWhitelist
    \/ UpdateReported \/ CreateReported \/ Tick
    \/ \E s \in Servers : Ingest(s) \/ Quiet(s) \/ WorkerScore(s)
                          \/ AgentBlocks(s) \/ FindReported(s)
    \/ Restart

Spec == Init /\ [][Next]_vars

\* While the backend is up the goroutine of the block manager runs, and Go's
\* select takes each of its two tickers again and again.  Requests, reports,
\* traffic and failures are the environment's.
FairSpec ==
    /\ Spec
    /\ WF_vars(Manager) /\ SF_vars(Cleanup) /\ WF_vars(Tick)

----------------------------------------------------------------------------
\* The commands that block, and those of the whitelist handlers, verify at the
\* agent: only BlockManager.Unblock omits the block type that is signed.
EnforcementVerifies == \A c \in refused : c.action = "unblock" /\ c.type = "absent"

\* "BlockManager.Unblock sends a signed command to the agent via the Hub", and
\* the agent can verify it.
UnblockVerifies == \A c \in refused : c.action # "unblock"

\* Restarts, expiry and a second attacked server do not make the manager block
\* an address that it is blocking, until an unblock, a report or a failure.
OneLiveRow == ~disturbed => Cardinality(LiveSlots) <= 1

\* Once an address is whitelisted at most the decision in flight blocks it.
WhitelistSlipsOnce == wl => slipped <= 1

\* "Agent-reported XDP blocks are always classified as malicious ... so they are
\* permanent blocks": no block that the backend timed becomes permanent when no
\* agent blocks on its own.
TimedStaysTimed ==
    [][~OwnBlocks =>
          \A i \in LiveSlots : rows[i].left # Forever => rows[i]'.left # Forever]_vars

\* "The IP can still be re-blocked if new malicious traffic arrives": not without.
ReblockNeedsTraffic == [][at = "insert" /\ at' = "mark" => ~calm]_vars

\* "prevents stale entries from preventing re-blocks": a candidate gets a live
\* row at some moment, unless it is whitelisted or marked for ever (or the bound
\* Slots leaves no room for a row).
CandidateIsBlocked ==
    \A s \in Servers :
        Candidate(s) ~> ~Candidate(s) \/ wl \/ LiveSlots # {} \/ mark.left = Forever \/ FreeSlots = {}
=============================================================================
