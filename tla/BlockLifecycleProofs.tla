------------------------ MODULE BlockLifecycleProofs ------------------------
(***************************************************************************)
(* What holds of BlockLifecycle for any number of servers and of rows, and *)
(* for any length of a block.                                              *)
(*                                                                         *)
(* OneLiveRow is not inductive: a second row is impossible only because    *)
(* the mark, or the block still on its way to the mark, lasts exactly as   *)
(* long as the row.  Tracks says so for each place the block manager can   *)
(* be at; a state it calls disturbed is one the manager has lost track in. *)
(*                                                                         *)
(* The last part is about TrafficScoring, through the instance TS.         *)
(***************************************************************************)
EXTENDS BlockLifecycle, FiniteSetTheorems, TLAPS

\* What TrafficScoring is about: the constants and the state of the scoring of one
\* address, its rows named events here, which need not be of the same address.
CONSTANTS Keys, Events, Slot, Window, MinEvents, BlockThreshold, Retention, Keep,
          MaxEvents, MaxTroubles
VARIABLES events, chart, past, missed, archive, deleted, pending, pc, agg, judged, alert,
          mixed, submitted, troubles

TS == INSTANCE TrafficScoring WITH rows <- events

\* The entry of a live row, wherever the manager has got to with the block.
Tracks ==
    ~disturbed =>
        /\ unblock = NoCall /\ report = NoCall
        /\ \A i, j \in LiveSlots : i = j
        /\ at \in {"whitelist", "insert"} => LiveSlots = {}
        /\ at = "mark" => \A i \in LiveSlots : rows[i].left = left
        /\ at \in {"idle", "send"} => \A i \in LiveSlots : rows[i].left = mark.left

\* A decision in flight when the address is whitelisted has not been counted.
Slips ==
    /\ slipped \in Nat
    /\ wl => slipped <= 1 /\ (at = "insert" => slipped = 0)

\* The row HandleUnblockIP found stays until it lifts it.
LiftFindsRow == unblock.pc = "lift" => rows[unblock.slot] # None

IInv == TypeOK /\ LiftFindsRow /\ Tracks /\ Slips /\ EnforcementVerifies

----------------------------------------------------------------------------
\* Aging an entry ages the time it has left and keeps its form.
LEMMA AgedEntry ==
    ASSUME NEW e \in Entries
    PROVE  /\ [e EXCEPT !.left = Aged(@)] \in Entries
           /\ [e EXCEPT !.left = Aged(@)].left = Aged(e.left)
<1>1. CASE e = None
    <2>1. Aged(e.left) = -1
        BY <1>1, BoundsAssumption DEF None, Aged
    <2>2. [e EXCEPT !.left = Aged(@)] = None
        BY <1>1, <2>1 DEF None
    <2> QED
        BY <2>1, <2>2 DEF Entries, None
<1>2. CASE e \in [server : Servers, left : Times]
    <2>1. Aged(e.left) \in Times
        BY <1>2, BoundsAssumption DEF Aged, Times, Forever
    <2>2. [e EXCEPT !.left = Aged(@)] = [server |-> e.server, left |-> Aged(e.left)]
        BY <1>2
    <2> QED
        BY <1>2, <2>1, <2>2 DEF Entries
<1> QED
    BY <1>1, <1>2 DEF Entries

\* What TypeOK says of the entries, and of the time that is left.
LEMMA EntryFacts ==
    ASSUME NEW e \in Entries
    PROVE  /\ e.left \in Int
           /\ Alive(e) => e # None /\ e.left \in Times
           /\ e # None => e.server \in Servers /\ e.left \in Times
BY BoundsAssumption DEF Entries, None, Alive, Times, Forever

\* Everything starts well formed.
LEMMA TypeInit == Init => TypeOK /\ LiftFindsRow
<1> SUFFICES ASSUME Init PROVE TypeOK /\ LiftFindsRow
    OBVIOUS
<1>1. None \in Entries
    BY DEF Entries
<1>2. 0 \in Times /\ 0 \in 0 .. MaxFails
    BY BoundsAssumption DEF Times, Forever
<1>3. rows \in [Slots -> Entries] /\ mark \in Entries
    BY <1>1 DEF Init
<1>4. traffic \in [Servers -> {"quiet", "mild", "harmful"}] /\ score \in [Servers -> BOOLEAN]
    BY DEF Init
<1> QED
    BY <1>2, <1>3, <1>4 DEF Init, TypeOK, LiftFindsRow, NoCall

\* No step, failure or restart leaves a variable outside its type.
LEMMA TypeStep == TypeOK /\ LiftFindsRow /\ [Next]_vars => TypeOK'
<1> SUFFICES ASSUME TypeOK, LiftFindsRow, [Next]_vars PROVE TypeOK'
    OBVIOUS
<1> USE DEF TypeOK, table, loop, calls, history
<1>1. CASE \E s \in Servers : Ingest(s) \/ Quiet(s) \/ WorkerScore(s)
    <2>1. PICK s \in Servers : Ingest(s) \/ Quiet(s) \/ WorkerScore(s)
        BY <1>1
    <2>2. traffic' \in [Servers -> {"quiet", "mild", "harmful"}] /\ score' \in [Servers ->
    BOOLEAN]
        BY <2>1 DEF Ingest, Quiet, WorkerScore
    <2> QED
        BY <2>1, <2>2 DEF Ingest, Quiet, WorkerScore
<1>2. CASE Evaluate
    BY <1>2 DEF Evaluate
<1>3. CASE \E s \in Servers : CheckMark(s)
    BY <1>3 DEF CheckMark
<1>4. CASE CheckWhitelist
    BY <1>4, BoundsAssumption DEF CheckWhitelist, Fail
<1>5. CASE Insert
    <2>1. rows' \in [Slots -> Entries] /\ left' \in Times
        BY <1>5, BoundsAssumption DEF Insert, FreeSlots, Entries, Times, Forever, CreateBlock
    <2>2. slipped' = (IF wl THEN slipped + 1 ELSE slipped) \/ slipped' = slipped
        BY <1>5, Zenon DEF Insert, CreateBlock
    <2>4. calm' = FALSE \/ calm' = calm
        BY <1>5, Zenon DEF Insert, CreateBlock
    <2>5. fails' \in 0 .. MaxFails
        BY <1>5, BoundsAssumption DEF Insert, Fail, CreateBlock
    <2>6. slipped' \in Nat
        BY <2>2
    <2>7. calm' \in BOOLEAN
        BY <2>4
    <2>3. at' \in {"mark", "idle"}
        BY <1>5 DEF Insert, CreateBlock
    <2> QED
        BY <1>5, <2>1, <2>3, <2>5, <2>6, <2>7 DEF Insert, CreateBlock
<1>6. CASE Mark
    BY <1>6 DEF Mark, Entries
<1>7. CASE SendBlock
    <2>1. refused' \subseteq Commands
        BY <1>7 DEF SendBlock, Send, Commands
    <2> QED
        BY <1>7, <2>1, BoundsAssumption DEF SendBlock, Times, Forever
<1>8. CASE Cleanup
    BY <1>8 DEF Cleanup, Entries
<1>9. CASE FindActive
    BY <1>9 DEF FindActive, ActiveSlots
<1>10. CASE Lift
    <2>1. unblock \in [pc : {"lift"}, slot : Slots]
        BY <1>10 DEF Lift, NoCall, UnblockIP
    <2>2. rows[unblock.slot] \in Entries
        BY <2>1
    <2>3. rows' \in [Slots -> Entries] /\ fails' \in 0 .. MaxFails
        BY <1>10, <2>1, BoundsAssumption DEF Lift, Fail, Entries, UnblockIP
    <2>4. unblock' \in {NoCall} \cup [pc : {"reset"}, server : Servers]
        <3>1. rows[unblock.slot].server \in Servers
            BY <1>10, <2>1, EntryFacts DEF Lift, LiftFindsRow, UnblockIP
        <3> QED
            BY <1>10, <3>1 DEF Lift, UnblockIP
    <2> QED
        BY <1>10, <2>3, <2>4 DEF Lift, UnblockIP
<1>11. CASE ResetScore
    <2>1. unblock \in [pc : {"reset"}, server : Servers]
        BY <1>11 DEF ResetScore, NoCall, ResetTrafficScoreForIP
    <2>2. score' \in [Servers -> BOOLEAN] /\ fails' \in 0 .. MaxFails
        <3>1. \/ score' = [score EXCEPT ![unblock.server] = FALSE] /\ UNCHANGED fails
              \/ Fail /\ UNCHANGED score
            BY <1>11, Zenon DEF ResetScore, ResetTrafficScoreForIP
        <3>2. fails' \in 0 .. MaxFails
            BY <3>1, BoundsAssumption DEF Fail
        <3>3. score' \in [Servers -> BOOLEAN]
            BY <2>1, <3>1
        <3> QED
            BY <3>2, <3>3
    <2>3. calm' \in BOOLEAN
        BY <1>11, Zenon DEF ResetScore, ResetTrafficScoreForIP
    <2> QED
        BY <1>11, <2>2, <2>3 DEF ResetScore, ResetTrafficScoreForIP
<1>12. CASE Unmark
    <2>1. refused' \subseteq Commands
        BY <1>12 DEF Unmark, Send, Commands
    <2> QED
        BY <1>12, <2>1 DEF Unmark, Entries
<1>13. CASE HandleAddToWhitelist \/ HandleRemoveFromWhitelist
    <2>1. refused' \subseteq Commands
        BY <1>13 DEF HandleAddToWhitelist, HandleRemoveFromWhitelist,
            AddToWhitelist, RemoveFromWhitelist, FanOut, Send, Commands
    <2>2. wl' \in BOOLEAN
        BY <1>13, Zenon DEF HandleAddToWhitelist, HandleRemoveFromWhitelist,
            AddToWhitelist, RemoveFromWhitelist
    <2>4. slipped' = 0 \/ slipped' = slipped
        BY <1>13, Zenon DEF HandleAddToWhitelist, HandleRemoveFromWhitelist,
            AddToWhitelist, RemoveFromWhitelist
    <2>3. UNCHANGED <<table, traffic, score, loop, calls, fails, disturbed, calm>>
        BY <1>13 DEF HandleAddToWhitelist, HandleRemoveFromWhitelist,
            AddToWhitelist, RemoveFromWhitelist
    <2> QED
        BY <2>1, <2>2, <2>3, <2>4
<1>14. CASE \E s \in Servers : AgentBlocks(s)
    BY <1>14 DEF AgentBlocks, GetActiveBlocksForServer
<1>15. CASE \E s \in Servers : FindReported(s)
    BY <1>15 DEF FindReported, ActiveSlots
<1>16. CASE UpdateReported
    <2>1. report \in [pc : {"update"}, slot : Slots]
        BY <1>16 DEF UpdateReported, NoCall, UpdateBlockExpiry
    <2>2. rows[report.slot] # None =>
              [rows[report.slot] EXCEPT !.left = Forever] \in Entries
        BY <2>1, BoundsAssumption DEF Entries, Times, Forever
    <2>3. rows' \in [Slots -> Entries]
        BY <1>16, <2>1, <2>2 DEF UpdateReported, UpdateBlockExpiry
    <2> QED
        BY <1>16, <2>3, BoundsAssumption DEF UpdateReported, Fail, UpdateBlockExpiry
<1>17. CASE CreateReported
    <2>1. report \in [pc : {"create"}, server : Servers]
        BY <1>17 DEF CreateReported, NoCall, CreateBlock
    <2>2. [server |-> report.server, left |-> Forever] \in Entries
        BY <2>1, BoundsAssumption DEF Entries, Times, Forever
    <2>3. rows' \in [Slots -> Entries]
        BY <1>17, <2>2 DEF CreateReported, FreeSlots, CreateBlock
    <2> QED
        BY <1>17, <2>3, BoundsAssumption DEF CreateReported, Fail, CreateBlock
<1>18. CASE Tick
    <2>1. rows' \in [Slots -> Entries] /\ mark' \in Entries
        BY <1>18, AgedEntry DEF Tick
    <2>2. left' \in Times
        BY <1>18, BoundsAssumption DEF Tick, Aged, Times, Forever
    <2> QED
        BY <1>18, <2>1, <2>2 DEF Tick
<1>19. CASE Restart
    <2>1. mark' \in Entries
        BY <1>19 DEF Restart, LoadActiveBlocks, LiveSlots, Entries
    <2>2. disturbed' \in BOOLEAN
        BY <1>19 DEF Restart
    <2>3. left' \in Times /\ fails' \in 0 .. MaxFails
        BY <1>19, BoundsAssumption DEF Restart, Fail, Times, Forever
    <2> QED
        BY <1>19, <2>1, <2>2, <2>3 DEF Restart
<1>20. CASE UNCHANGED vars
    BY <1>20 DEF vars
<1> QED
    BY <1>1, <1>2, <1>3, <1>4, <1>5, <1>6, <1>7, <1>8, <1>9, <1>10, <1>11, <1>12, <1>13,
       <1>14, <1>15, <1>16, <1>17, <1>18, <1>19, <1>20 DEF Next, Manager

----------------------------------------------------------------------------
\* HandleUnblockIP: no step between finding the row and lifting it forgets the
\* row, whatever the manager and the agents do.
LEMMA LiftStep == TypeOK /\ LiftFindsRow /\ [Next]_vars => LiftFindsRow'
<1> SUFFICES ASSUME TypeOK, LiftFindsRow, [Next]_vars, unblock'.pc = "lift"
             PROVE  rows'[unblock'.slot] # None
    BY DEF LiftFindsRow
<1> USE DEF table, loop, calls, history
<1>1. CASE FindActive
    <2>1. PICK i \in Slots : rows[i] # None /\ unblock' = [pc |-> "lift", slot |-> i]
        BY <1>1 DEF FindActive, ActiveSlots
    <2> QED
        BY <1>1, <2>1 DEF FindActive
<1>2. CASE Lift \/ ResetScore \/ Unmark \/ Restart
    BY <1>2 DEF Lift, ResetScore, Unmark, Restart, NoCall, UnblockIP, ResetTrafficScoreForIP
<1>3. CASE /\ unblock' = unblock
           /\ \A i \in Slots : i \in Held /\ rows[i] # None => rows'[i] # None
    <2>1. unblock.slot \in Slots /\ unblock.slot \in Held
        BY <1>3 DEF TypeOK, NoCall, Held
    <2> QED
        BY <1>3, <2>1 DEF LiftFindsRow
<1>4. CASE Insert
    BY <1>4, <1>3 DEF Insert, FreeSlots, TypeOK, CreateBlock
<1>5. CASE CreateReported
    BY <1>5, <1>3 DEF CreateReported, FreeSlots, TypeOK, CreateBlock
<1>6. CASE UpdateReported
    <2>1. report.slot \in Slots
        BY <1>6 DEF UpdateReported, TypeOK, NoCall, UpdateBlockExpiry
    <2>2. rows[report.slot] # None => [rows[report.slot] EXCEPT !.left = Forever] # None
        BY <2>1, BoundsAssumption DEF TypeOK, Entries, None, Forever
    <2> QED
        BY <1>6, <2>1, <2>2, <1>3 DEF UpdateReported, TypeOK, UpdateBlockExpiry
<1>7. CASE Tick
    <2>1. \A i \in Slots : rows[i] # None => rows'[i] # None
        BY <1>7, EntryFacts, AgedEntry, BoundsAssumption DEF Tick, TypeOK, None, Aged, Times, Forever
    <2> QED
        BY <1>7, <2>1, <1>3 DEF Tick
<1>8. CASE UNCHANGED <<rows, unblock>>
    BY <1>8, <1>3
<1> QED
    BY <1>1, <1>2, <1>4, <1>5, <1>6, <1>7, <1>8
    DEF Next, Manager, Ingest, Quiet, WorkerScore, Evaluate, CheckMark, CheckWhitelist, Mark,
        SendBlock, Cleanup, HandleAddToWhitelist, HandleRemoveFromWhitelist, AgentBlocks, FindReported,
        vars, GetActiveBlocksForServer

----------------------------------------------------------------------------
\* At the start no row is alive.
LEMMA TracksInit == Init => Tracks
BY DEF Init, Tracks, LiveSlots, Alive, None

\* A tick leaves an entry with time left only if it had some, and two entries
\* that had as much have as much.
LEMMA TickIsMonotone ==
    ASSUME TypeOK, Tick
    PROVE  /\ LiveSlots' \subseteq LiveSlots
           /\ \A i \in Slots : rows'[i].left = Aged(rows[i].left)
           /\ mark'.left = Aged(mark.left)
           /\ left' = Aged(left)
<1>1. \A i \in Slots : rows'[i].left = Aged(rows[i].left)
    BY AgedEntry DEF Tick, TypeOK
<1>2. mark'.left = Aged(mark.left) /\ left' = Aged(left)
    BY AgedEntry DEF Tick, TypeOK
<1>3. ASSUME NEW i \in Slots, Aged(rows[i].left) > 0 PROVE rows[i].left > 0
    BY <1>3, EntryFacts DEF Aged, TypeOK
<1> QED
    BY <1>1, <1>2, <1>3 DEF LiveSlots, Alive

\* Every action keeps the mark, or the block on its way to the mark, as long as
\* the one live row.
LEMMA TracksStep == TypeOK /\ Tracks /\ [Next]_vars => Tracks'
<1> SUFFICES ASSUME TypeOK, Tracks, [Next]_vars, ~disturbed'
             PROVE  Tracks'
    BY DEF Tracks
<1> USE DEF table, loop, calls, history
<1>1. ~disturbed
    BY DEF TypeOK, Next, Manager, Ingest, Quiet, WorkerScore, Evaluate, CheckMark,
        CheckWhitelist,
       Insert, Mark, SendBlock, Cleanup, FindActive, Lift, ResetScore, Unmark, HandleAddToWhitelist,
       HandleRemoveFromWhitelist, AgentBlocks, FindReported, UpdateReported, CreateReported, Tick,
       Restart, vars, CreateBlock, UnblockIP, ResetTrafficScoreForIP,
       GetActiveBlocksForServer, UpdateBlockExpiry
<1>2. /\ unblock = NoCall /\ report = NoCall
      /\ \A i, j \in LiveSlots : i = j
      /\ at \in {"whitelist", "insert"} => LiveSlots = {}
      /\ at = "mark" => \A i \in LiveSlots : rows[i].left = left
      /\ at \in {"idle", "send"} => \A i \in LiveSlots : rows[i].left = mark.left
    BY <1>1 DEF Tracks
<1>3. rows' = rows => LiveSlots' = LiveSlots
    BY DEF LiveSlots, Alive
<1>4. \A i \in LiveSlots : i \in Slots /\ rows[i].left > 0
    BY DEF LiveSlots, Alive
<1>5. CASE UNCHANGED <<rows, mark, left, at, unblock, report>>
    BY <1>2, <1>3, <1>5 DEF Tracks
<1>6. CASE \E s \in Servers : CheckMark(s)
    <2>1. mark = None /\ at = "idle" => LiveSlots = {}
        BY <1>2, <1>4 DEF None
    <2>2. /\ at = "idle"
          /\ UNCHANGED <<rows, mark, left, unblock, report>>
          /\ at' = at \/ (mark = None /\ at' = "whitelist")
        <3>1. PICK s \in Servers : CheckMark(s)
            BY <1>6
        <3> QED
            BY <3>1 DEF CheckMark
    <2> QED
        BY <1>2, <1>3, <2>1, <2>2 DEF Tracks
<1>7. CASE CheckWhitelist
    <2>1. LiveSlots' = {} /\ UNCHANGED <<unblock, report>>
        BY <1>2, <1>3, <1>7 DEF CheckWhitelist
    <2> QED
        BY <1>2, <2>1 DEF Tracks
<1>8. CASE Insert
    <2>1. LiveSlots = {} /\ UNCHANGED <<unblock, report>>
        BY <1>2, <1>8 DEF Insert, CreateBlock
    <2>2. CASE UNCHANGED rows
        <3>1. LiveSlots' = {}
            BY <1>3, <2>1, <2>2
        <3> QED
            BY <1>2, <2>1, <3>1 DEF Tracks
    <2>3. CASE \E i \in Slots, d \in 1 .. Forever :
                  rows' = [rows EXCEPT ![i] = [server |-> target, left |-> d]]
                  /\ left' = d /\ at' = "mark"
        <3>1. PICK i \in Slots, d \in 1 .. Forever :
                  rows' = [rows EXCEPT ![i] = [server |-> target, left |-> d]]
                  /\ left' = d /\ at' = "mark"
            BY <2>3
        <3>2. LiveSlots' \subseteq {i} /\ rows'[i].left = d
            BY <2>1, <3>1 DEF LiveSlots, Alive, TypeOK
        <3> QED
            BY <1>2, <2>1, <3>1, <3>2 DEF Tracks
    <2> QED
        BY <1>8, <2>2, <2>3 DEF Insert, FreeSlots, CreateBlock
<1>9. CASE Mark
    <2>1. mark'.left = left /\ at = "mark" /\ at' = "send" /\ UNCHANGED <<rows, unblock,
    report>>
        BY <1>9 DEF Mark
    <2> QED
        BY <1>2, <1>3, <2>1 DEF Tracks
<1>10. CASE SendBlock
    <2>1. at = "send" /\ at' = "idle" /\ UNCHANGED <<rows, mark, unblock, report>>
        BY <1>10 DEF SendBlock
    <2> QED
        BY <1>2, <1>3, <2>1 DEF Tracks
<1>11. CASE Cleanup
    <2>1. LiveSlots = {}
        BY <1>2, <1>4, <1>11 DEF Cleanup
    <2> QED
        BY <1>2, <1>3, <1>11, <2>1 DEF Cleanup, Tracks
<1>12. CASE FindActive \/ Lift \/ ResetScore \/ Unmark \/ UpdateReported \/ CreateReported
    BY <1>2, <1>12 DEF FindActive, Lift, ResetScore, Unmark, UpdateReported, CreateReported,
        NoCall, UnblockIP, ResetTrafficScoreForIP, UpdateBlockExpiry, CreateBlock
<1>13. CASE \E s \in Servers : FindReported(s)
    BY <1>13 DEF FindReported
<1>14. CASE Tick
    <2>1. UNCHANGED <<at, unblock, report>>
        BY <1>14 DEF Tick
    <2> QED
        BY <1>2, <1>4, <1>14, <2>1, TickIsMonotone DEF Tracks
<1>15. CASE Restart
    <2>1. /\ UNCHANGED rows /\ at' = "idle"
          /\ unblock' = NoCall /\ report' = NoCall
        BY <1>15 DEF Restart
    <2>2. LoadActiveBlocks
        BY <1>15 DEF Restart
    <2>3. \A i \in LiveSlots' : rows'[i].left = mark'.left
        BY <1>2, <1>3, <2>1, <2>2 DEF LoadActiveBlocks
    <2> QED
        BY <1>2, <1>3, <2>1, <2>3 DEF Tracks
<1> QED
    BY <1>5, <1>6, <1>7, <1>8, <1>9, <1>10, <1>11, <1>12, <1>13, <1>14, <1>15
    DEF Next, Manager, Ingest, Quiet, WorkerScore, Evaluate,
        HandleAddToWhitelist, HandleRemoveFromWhitelist, AgentBlocks, vars, GetActiveBlocksForServer

----------------------------------------------------------------------------
\* At the start nothing has been inserted.
LEMMA SlipsInit == Init => Slips
BY DEF Init, Slips

\* Between CheckWhitelist and Insert the address is not whitelisted, or it was
\* whitelisted meanwhile and nothing has been inserted since.
LEMMA SlipsStep == TypeOK /\ Slips /\ [Next]_vars => Slips'
<1> SUFFICES ASSUME TypeOK, Slips, [Next]_vars PROVE Slips'
    OBVIOUS
<1> USE DEF table, loop, calls, history
<1>1. CASE UNCHANGED <<slipped, wl>> /\ (at' # "insert" \/ UNCHANGED at)
    BY <1>1 DEF Slips
<1>2. CASE CheckWhitelist
    BY <1>2 DEF CheckWhitelist, IsIPWhitelisted, Slips
<1>3. CASE Insert
    BY <1>3 DEF Insert, Slips, CreateBlock
<1>4. CASE HandleAddToWhitelist
    BY <1>4 DEF HandleAddToWhitelist, AddToWhitelist, Slips
<1>5. CASE HandleRemoveFromWhitelist
    BY <1>5 DEF HandleRemoveFromWhitelist, RemoveFromWhitelist, Slips
<1> QED
    BY <1>1, <1>2, <1>3, <1>4, <1>5
    DEF Next, Manager, Ingest, Quiet, WorkerScore, Evaluate, CheckMark, Mark, SendBlock,
    Cleanup,
        FindActive, Lift, ResetScore, Unmark, AgentBlocks, FindReported, UpdateReported,
        CreateReported, Tick, Restart, vars, UnblockIP, ResetTrafficScoreForIP,
        GetActiveBlocksForServer, UpdateBlockExpiry, CreateBlock

----------------------------------------------------------------------------
\* Of the commands the backend signs, the signature of the unblock that names no
\* type alone covers another type than the one that is sent.
LEMMA SentIsSigned ==
    ASSUME NEW c \in Commands, SignedType(c) # SentType(c)
    PROVE  c.type = "absent"
BY DEF Commands, SignedType, SentType

\* No step sends a block or a rate limit the agent cannot verify.
LEMMA VerifiesStep == EnforcementVerifies /\ [Next]_vars => EnforcementVerifies'
<1> SUFFICES ASSUME EnforcementVerifies, [Next]_vars PROVE EnforcementVerifies'
    OBVIOUS
<1> USE DEF table, loop, calls, history
<1>1. ASSUME NEW C \in SUBSET Commands, Send(C),
             \A c \in C : c.type = "absent" => c.action = "unblock"
      PROVE  EnforcementVerifies'
    BY <1>1, SentIsSigned DEF Send, EnforcementVerifies
<1>2. CASE UNCHANGED refused
    BY <1>2 DEF EnforcementVerifies
<1>3. CASE SendBlock
    <2> DEFINE B == {[action |-> "block", type |-> "blocklist"]}
               R == {[action |-> "ratelimit", type |-> "ratelimit"]}
    <2>1. B \in SUBSET Commands /\ \A c \in B : c.type # "absent"
        BY DEF Commands
    <2>2. R \in SUBSET Commands /\ \A c \in R : c.type # "absent"
        BY DEF Commands
    <2>3. Send(B) \/ Send(R)
        BY <1>3 DEF SendBlock
    <2> HIDE DEF B, R
    <2> QED
        BY <1>1, <2>1, <2>2, <2>3
<1>4. CASE Unmark
    <2> DEFINE U == {[action |-> "unblock", type |-> "absent"]}
    <2>1. U \in SUBSET Commands /\ \A c \in U : c.action = "unblock"
        BY DEF Commands
    <2>2. Send(U) \/ UNCHANGED refused
        BY <1>4 DEF Unmark
    <2> HIDE DEF U
    <2> QED
        BY <1>1, <1>2, <2>1, <2>2
<1>5. CASE HandleAddToWhitelist \/ HandleRemoveFromWhitelist
    <2> DEFINE W == {[action |-> "unblock", type |-> t] : t \in {"blocklist", "ratelimit"}}
    <2>1. W \in SUBSET Commands /\ \A c \in W : c.type # "absent"
        BY DEF Commands
    <2>2. Send(W)
        BY <1>5 DEF HandleAddToWhitelist, HandleRemoveFromWhitelist,
            AddToWhitelist, RemoveFromWhitelist, FanOut
    <2> HIDE DEF W
    <2> QED
        BY <1>1, <2>1, <2>2
<1> QED
    BY <1>2, <1>3, <1>4, <1>5
    DEF Next, Manager, Ingest, Quiet, WorkerScore, Evaluate, CheckMark, CheckWhitelist, Insert,
        Mark, Cleanup, FindActive, Lift, ResetScore, AgentBlocks, FindReported, UpdateReported,
        CreateReported, Tick, Restart, vars, CreateBlock, UnblockIP, ResetTrafficScoreForIP,
        GetActiveBlocksForServer, UpdateBlockExpiry

----------------------------------------------------------------------------
\* The inductive invariant holds in every reachable state.
LEMMA Invariance == Spec => []IInv
<1>1. Init => IInv
    BY TypeInit, TracksInit, SlipsInit DEF Init, IInv, EnforcementVerifies
<1>2. IInv /\ [Next]_vars => IInv'
    BY TypeStep, LiftStep, TracksStep, SlipsStep, VerifiesStep DEF IInv
<1> QED
    BY <1>1, <1>2, PTL DEF Spec

\* Rows, mark, requests and the loop of the block manager stay well formed through
\* failures and restarts; so HandleUnblockIP never lifts a row that is not there.
THEOREM TypeCorrect == Spec => [](TypeOK /\ LiftFindsRow)
<1>1. IInv => TypeOK /\ LiftFindsRow
    BY DEF IInv
<1> QED
    BY <1>1, Invariance, PTL

\* evaluateAndBlock never inserts a second live row for an address, through expiry,
\* cleanup and restarts, until an unblock or a report interferes or a restart
\* cannot load the rows: however many servers see the attacker.
THEOREM OneRow == Spec => []OneLiveRow
<1>1. IInv => OneLiveRow
    <2> SUFFICES ASSUME IInv, ~disturbed PROVE Cardinality(LiveSlots) <= 1
        BY DEF OneLiveRow
    <2>1. \A i, j \in LiveSlots : i = j
        BY DEF IInv, Tracks
    <2>2. CASE LiveSlots = {}
        BY <2>2, FS_EmptySet
    <2>3. CASE LiveSlots # {}
        <3>1. PICK i \in LiveSlots : LiveSlots = {i}
            BY <2>1, <2>3
        <3> QED
            BY <3>1, FS_Singleton
    <2> QED
        BY <2>2, <2>3
<1> QED
    BY <1>1, Invariance, PTL

\* evaluateAndBlock asks for the whitelist before it inserts, in two calls: of an
\* address whitelisted in between it inserts one row, and no more while it stays.
THEOREM OneSlip == Spec => []WhitelistSlipsOnce
<1>1. IInv => WhitelistSlipsOnce
    BY DEF IInv, Slips, WhitelistSlipsOnce
<1> QED
    BY <1>1, Invariance, PTL

\* Of all the commands sent, sendBlockCommand's and the whitelist handlers' verify
\* at the agent; only an unblock without a type does not.
THEOREM BlocksVerify == Spec => []EnforcementVerifies
<1>1. IInv => EnforcementVerifies
    BY DEF IInv
<1> QED
    BY <1>1, Invariance, PTL

----------------------------------------------------------------------------
(* TrafficScoring: the rows of an address, and what the worker makes of them. *)

\* What the theorems on the rows of an address assume of the constants of TrafficScoring.
TrafficConstants ==
    /\ {Window, BlockThreshold, Retention} \subseteq Nat \ {0} /\ Window < Retention
    /\ Events \subseteq [key : Keys, syn : Nat, ack : Nat, failed : Nat, ports : Nat,
                         services : Nat, window : Nat, agent : 0 .. 100, level : TS!Levels]

\* A row of traffic_events with this score, whatever it is.
Scored(s) ==
    [syn : Nat, ack : Nat, failed : Nat, hits : Nat, first : Nat, score : {s},
     level : TS!Levels, quiet : 0 .. Retention + 1, age : 0 .. TS!Oldest]

\* Every row has its counters, its score and its ages, and so has what is sent again.
RowsFormed ==
    /\ events = [k \in Keys |-> events[k]]
    /\ \A k \in Keys : events[k] = TS!None \/ events[k] \in Scored(events[k].score)

Formed ==
    /\ RowsFormed
    /\ pending \subseteq [event : Events, late : 0 .. Retention]

\* Where the worker stands tells what the score of its pass is worth.
Standing ==
    /\ pc = "update" => judged = 0
    /\ pc = "announce" /\ judged # 0 => \E k \in TS!InWindow : events[k].score = judged
    /\ TS!VerdictIsAnnounced

\* The cap of ages.
LEMMA AtMostIs ==
    ASSUME NEW x \in Int, NEW high \in Int
    PROVE  TS!AtMost(x, high) = IF x <= high THEN x ELSE high
BY DEF TS!AtMost, TS!Min

\* An absent row is not a row.
LEMMA NoneIsNoRow == \A s : TS!None \notin Scored(s)
<1> SUFFICES ASSUME NEW s, TS!None \in Scored(s) PROVE FALSE
    OBVIOUS
<1>1. DOMAIN TS!None = {"hits"}
    BY DEF TS!None
<1>2. "score" \in DOMAIN TS!None
    BY DEF Scored
<1> QED BY <1>1, <1>2

\* What SubmitTraffic stores of an event is a row with the score it has given it.
LEMMA StoredRow ==
    ASSUME TrafficConstants, Formed, NEW e \in Events, NEW s, NEW late \in 0 .. Retention,
           s.level \in TS!Levels
    PROVE  TS!UpsertTrafficEvent(e, s, late) \in Scored(s.score)
<1> DEFINE r == IF events[e.key] = TS!None THEN TS!Unseen(e, late) ELSE events[e.key]
<1>1. /\ e.key \in Keys /\ e.syn \in Nat /\ e.ack \in Nat /\ e.failed \in Nat
      /\ e.window \in Nat
    BY DEF TrafficConstants
<1>2. TS!AtMost(late, TS!Oldest) \in 0 .. TS!Oldest
    BY AtMostIs DEF TrafficConstants, TS!Oldest
<1>3. /\ r.syn \in Nat /\ r.ack \in Nat /\ r.failed \in Nat /\ r.hits \in Nat
      /\ r.first \in Nat /\ r.age \in 0 .. TS!Oldest
    <2>1. CASE events[e.key] = TS!None
        BY <1>1, <1>2, <2>1 DEF TS!Unseen
    <2>2. CASE events[e.key] # TS!None
        <3>1. events[e.key] \in Scored(events[e.key].score)
            BY <1>1, <2>2 DEF Formed, RowsFormed
        <3> QED BY <2>2, <3>1 DEF Scored
    <2> QED BY <2>1, <2>2
<1>4. late \in 0 .. Retention + 1
    BY DEF TrafficConstants
<1>5. TS!UpsertTrafficEvent(e, s, late)
          = [syn |-> r.syn + e.syn, ack |-> r.ack + e.ack, failed |-> r.failed + e.failed,
             hits |-> r.hits + 1, first |-> r.first, age |-> r.age,
             quiet |-> late, score |-> s.score, level |-> s.level]
    BY DEF TS!UpsertTrafficEvent
<1> HIDE DEF r
<1> QED BY <1>1, <1>3, <1>4, <1>5 DEF Scored

\* Whatever the score is, it has a level.
LEMMA LevelOfScore == \A n : TS!classifyThreat(n) \in TS!Levels
BY DEF TS!classifyThreat, TS!Levels

LEMMA ScoreIsLevelled == \A m : TS!CalculateScore(m).level \in TS!Levels
BY LevelOfScore DEF TS!CalculateScore

\* The level of an event is the agent's or the backend's.
LEMMA EventIsLevelled ==
    ASSUME TrafficConstants, NEW e \in Events
    PROVE  TS!scoreFromAgentEvent(e).level \in TS!Levels
<1> DEFINE own == TS!CalculateScore(TS!buildMetricsFromEvent(e))
           hasScore == e.agent > 0 \/ e.level # "normal"
<1>1. e.level \in TS!Levels /\ own.level \in TS!Levels
    BY ScoreIsLevelled DEF TrafficConstants
<1>2. TS!scoreFromAgentEvent(e)
          = IF hasScore /\ e.agent >= own.score
            THEN [score |-> e.agent, level |-> e.level]
            ELSE [score |-> own.score, level |-> own.level]
    BY DEF TS!scoreFromAgentEvent
<1> HIDE DEF own, hasScore
<1> QED BY <1>1, <1>2

\* An event is stored in its row; until the next update the rows may differ.
LEMMA IngestKeeps ==
    ASSUME TrafficConstants, Formed, NEW e \in Events, NEW late \in 0 .. Retention,
           NEW charted \in BOOLEAN, TS!Ingest(e, late, charted)
    PROVE  /\ RowsFormed'
           /\ mixed' = TRUE /\ judged' = 0
<1> DEFINE s == TS!scoreFromAgentEvent(e)
           new == TS!UpsertTrafficEvent(e, s, late)
<1>1. events' = [events EXCEPT ![e.key] = new] /\ mixed' = TRUE /\ judged' = 0
    BY DEF TS!Ingest
<1>2. new \in Scored(s.score)
    <2>1. s.level \in TS!Levels
        BY EventIsLevelled
    <2> QED BY <2>1, StoredRow
<1> HIDE DEF new
<1>3. new \in Scored(new.score)
    BY <1>2 DEF Scored
<1>4. /\ events = [k \in Keys |-> events[k]]
      /\ \A k \in Keys : events[k] = TS!None \/ events[k] \in Scored(events[k].score)
    BY DEF Formed, RowsFormed
<1>5. events' = [k \in Keys |-> IF k = e.key THEN new ELSE events[k]]
    BY <1>1, <1>4
<1>6. \A k \in Keys : events'[k] = IF k = e.key THEN new ELSE events[k]
    BY <1>5
<1>7. events' = [k \in Keys |-> events'[k]]
    BY <1>5, <1>6
<1> QED BY <1>1, <1>3, <1>4, <1>6, <1>7 DEF RowsFormed

\* The rows when some of them are given a score and a level.
Rescoring(S, s, level) ==
    [k \in Keys |->
        IF k \in S THEN [events[k] EXCEPT !.score = s, !.level = level] ELSE events[k]]

\* Rescoring keeps a row a row, and an absent one absent.
LEMMA RescoreKeeps ==
    ASSUME Formed, NEW S \in SUBSET Keys, NEW s, NEW level \in TS!Levels,
           \A k \in S : events[k] # TS!None,
           events' = Rescoring(S, s, level)
    PROVE  /\ RowsFormed'
           /\ \A k \in Keys : (events'[k] = TS!None) = (events[k] = TS!None)
           /\ \A k \in S : events'[k].score = s /\ events'[k].quiet = events[k].quiet
<1>1. \A k \in Keys : events'[k] = IF k \in S
                        THEN [events[k] EXCEPT !.score = s, !.level = level] ELSE events[k]
    BY DEF Rescoring
<1>2. ASSUME NEW k \in S
      PROVE  /\ events'[k] \in Scored(s) /\ events'[k].score = s
             /\ events'[k].quiet = events[k].quiet
    <2>1. events[k] \in Scored(events[k].score) /\ k \in Keys
        BY DEF Formed, RowsFormed
    <2>2. events'[k] = [events[k] EXCEPT !.score = s, !.level = level]
        BY <1>1, <2>1
    <2> DEFINE r == events[k]
    <2>3. r \in Scored(r.score)
        BY <2>1
    <2> HIDE DEF r
    <2>4. /\ [r EXCEPT !.score = s, !.level = level] \in Scored(s)
          /\ [r EXCEPT !.score = s, !.level = level].score = s
          /\ [r EXCEPT !.score = s, !.level = level].quiet = r.quiet
        BY <2>3 DEF Scored
    <2> QED BY <2>2, <2>4 DEF r
<1>3. \A k \in S : events'[k] # TS!None
    BY <1>2, NoneIsNoRow
<1>4. \A k \in Keys \ S : events'[k] = events[k]
    BY <1>1
<1>5. \A k \in Keys : events'[k] = TS!None \/ events'[k] \in Scored(events'[k].score)
    BY <1>2, <1>4 DEF Formed, RowsFormed
<1>6. events' = [k \in Keys |-> events'[k]]
    BY DEF Rescoring
<1> QED BY <1>2, <1>3, <1>4, <1>5, <1>6 DEF RowsFormed

\* The steps that store an event, and those that change no row.
Storing ==
    \/ \E e \in Events, charted, answered \in BOOLEAN : TS!Submit(e, charted, answered)
    \/ \E p \in pending, charted \in BOOLEAN : TS!Resubmit(p, charted)
Resting ==
    \/ \E e \in Events : TS!SubmitFails(e)
    \/ TS!Aggregate \/ TS!UpdateFails
    \/ TS!Announce \/ TS!PassFails \/ TS!Cleanup

\* What an update writes: one score into all inbound rows.
LEMMA UpdateKeeps ==
    ASSUME Formed, TS!Update
    PROVE  /\ RowsFormed'
           /\ \A k \in Keys : (events'[k] = TS!None) = (events[k] = TS!None)
           /\ \E s : /\ \A k \in TS!Inbound :
                            events'[k].score = s /\ events'[k].quiet = events[k].quiet
                     /\ judged' = IF TS!InWindow # {} THEN s ELSE 0
<1> DEFINE s == TS!CalculateScore(TS!buildMetrics)
<1>1. /\ events' = Rescoring(TS!Inbound, s.score, s.level)
      /\ judged' = IF TS!InWindow # {} THEN s.score ELSE 0
    BY DEF TS!Update, TS!Rescored, Rescoring
<1>2. s.level \in TS!Levels
    BY ScoreIsLevelled
<1> HIDE DEF s
<1>3. TS!Inbound \in SUBSET Keys /\ \A k \in TS!Inbound : events[k] # TS!None
    BY DEF TS!Inbound
<1> QED BY <1>1, <1>2, <1>3, RescoreKeeps

\* What an unblock writes: no score into any row.
LEMMA ResetKeeps ==
    ASSUME Formed, TS!ResetTrafficScoreForIP
    PROVE  /\ RowsFormed'
           /\ \A k \in Keys : (events'[k] = TS!None) = (events[k] = TS!None)
           /\ \A k \in Keys : events'[k] # TS!None => events'[k].score = 0
<1> DEFINE S == {k \in Keys : events[k] # TS!None}
<1>1. events' = Rescoring(S, 0, "normal")
    BY DEF TS!ResetTrafficScoreForIP, Rescoring
<1>2. S \in SUBSET Keys /\ (\A k \in S : events[k] # TS!None) /\ "normal" \in TS!Levels
    BY DEF TS!Levels
<1>3. /\ RowsFormed'
      /\ \A k \in Keys : (events'[k] = TS!None) = (events[k] = TS!None)
      /\ \A k \in S : events'[k].score = 0
    <2> HIDE DEF S
    <2> QED BY <1>1, <1>2, RescoreKeeps
<1> QED BY <1>3

\* A slot ends: ages grow, scores stay.
LEMMA TickKeeps ==
    ASSUME TrafficConstants, Formed, NEW hour \in BOOLEAN, TS!Tick(hour)
    PROVE  /\ Formed'
           /\ \A k \in Keys : (events'[k] = TS!None) = (events[k] = TS!None)
           /\ \A k \in Keys : events[k] # TS!None => events'[k].score = events[k].score
<1> DEFINE older(r) == [r EXCEPT !.quiet = TS!AtMost(@ + 1, Retention + 1),
                                 !.age = TS!AtMost(@ + 1, TS!Oldest)]
<1>1. /\ \A n \in 0 .. Retention + 1 : TS!AtMost(n + 1, Retention + 1) \in 0 .. Retention + 1
      /\ \A n \in 0 .. TS!Oldest :
            TS!AtMost(n + 1, TS!Oldest) \in 0 .. TS!Oldest
      /\ \A n \in 0 .. Retention : TS!AtMost(n + 1, Retention) \in 0 .. Retention
    BY AtMostIs DEF TrafficConstants, TS!Oldest
<1>2. ASSUME NEW s, NEW r \in Scored(s)
      PROVE  older(r) \in Scored(s) /\ older(r).score = s /\ r.score = s
    BY <1>1 DEF Scored
<1>3. \A k \in Keys :
          events'[k] = IF events[k] = TS!None THEN TS!None ELSE older(events[k])
    BY DEF TS!Tick
<1> HIDE DEF older
<1>4. ASSUME NEW k \in Keys, events[k] # TS!None
      PROVE  /\ events'[k] \in Scored(events[k].score) /\ events'[k].score = events[k].score
             /\ events'[k] # TS!None
    <2>1. events[k] \in Scored(events[k].score)
        BY <1>4 DEF Formed, RowsFormed
    <2>2. events'[k] = older(events[k])
        BY <1>3, <1>4
    <2> QED BY <1>2, <2>1, <2>2, NoneIsNoRow
<1>5. events' = [k \in Keys |-> events'[k]]
    BY DEF TS!Tick
<1>6. \A k \in Keys : events'[k] = TS!None \/ events'[k] \in Scored(events'[k].score)
    BY <1>3, <1>4
<1>7. pending' \subseteq [event : Events, late : 0 .. Retention]
    <2>1. \A p \in pending : p \in [event : Events, late : 0 .. Retention]
        BY DEF Formed, RowsFormed
    <2>2. ASSUME NEW p \in pending
          PROVE  [p EXCEPT !.late = TS!AtMost(@ + 1, Retention)]
                     \in [event : Events, late : 0 .. Retention]
        BY <1>1, <2>1
    <2> QED BY <2>2 DEF TS!Tick
<1> QED BY <1>3, <1>4, <1>5, <1>6, <1>7 DEF Formed, RowsFormed

\* Archiving takes rows away and leaves the others as they are.
LEMMA ArchiveKeeps ==
    ASSUME TS!Archive
    PROVE  /\ events' = [k \in Keys |-> events'[k]]
           /\ \A k \in Keys :
                events'[k] = IF TS!Archivable(events[k]) THEN TS!None ELSE events[k]
BY DEF TS!Archive

\* Every row has its shape, and every event that is sent again its lateness.
LEMMA FormedStep ==
    ASSUME TrafficConstants
    PROVE  Formed /\ [TS!Next]_(TS!vars) => Formed'
<1> SUFFICES ASSUME Formed, [TS!Next]_(TS!vars) PROVE Formed'
    OBVIOUS
<1> DEFINE Again == [event : Events, late : 0 .. Retention]
<1>1. 0 \in 0 .. Retention /\ pending \subseteq Again
    BY DEF TrafficConstants, Formed, RowsFormed
<1>2. ASSUME NEW e \in Events, NEW charted \in BOOLEAN, NEW answered \in BOOLEAN,
             TS!Submit(e, charted, answered)
      PROVE  Formed'
    <2>1. /\ TS!Ingest(e, 0, charted)
          /\ pending' \subseteq pending \cup {[event |-> e, late |-> 0]}
        BY <1>2 DEF TS!Submit
    <2>2. pending' \subseteq Again
        BY <1>1, <2>1
    <2> QED BY <1>1, <2>1, <2>2, IngestKeeps DEF Formed, RowsFormed
<1>3. ASSUME NEW e \in Events, TS!SubmitFails(e) PROVE Formed'
    <2>1. pending' = pending \cup {[event |-> e, late |-> 0]} /\ events' = events
        BY <1>3 DEF TS!SubmitFails
    <2>2. pending' \subseteq Again
        BY <1>1, <2>1
    <2> QED BY <2>1, <2>2 DEF Formed, RowsFormed
<1>4. ASSUME NEW p \in pending, NEW charted \in BOOLEAN, TS!Resubmit(p, charted) PROVE Formed'
    <2>1. TS!Ingest(p.event, p.late, charted) /\ pending' = pending \ {p}
        BY <1>4 DEF TS!Resubmit
    <2>2. p.event \in Events /\ p.late \in 0 .. Retention
        BY <1>1
    <2> QED BY <1>1, <2>1, <2>2, IngestKeeps DEF Formed, RowsFormed
<1>5. CASE TS!Update
    BY <1>5, UpdateKeeps DEF TS!Update, Formed, RowsFormed
<1>6. CASE TS!ResetTrafficScoreForIP
    BY <1>6, ResetKeeps DEF TS!ResetTrafficScoreForIP, Formed, RowsFormed
<1>7. CASE TS!Archive
    <2>1. pending' = pending
        BY <1>7 DEF TS!Archive
    <2> QED BY <1>7, <2>1, ArchiveKeeps DEF Formed, RowsFormed
<1>8. ASSUME NEW hour \in BOOLEAN, TS!Tick(hour) PROVE Formed'
    BY <1>8, TickKeeps
<1>9. CASE \/ TS!Aggregate \/ TS!UpdateFails \/ TS!Announce
           \/ TS!PassFails \/ TS!Cleanup \/ UNCHANGED TS!vars
    <2>1. events' = events /\ pending' = pending
        BY <1>9
        DEF TS!Aggregate, TS!UpdateFails, TS!Announce, TS!PassFails, TS!Cleanup, TS!vars, TS!traffic
    <2> QED BY <2>1 DEF Formed, RowsFormed
<1> QED
    BY <1>2, <1>3, <1>4, <1>5, <1>6, <1>7, <1>8, <1>9
    DEF TS!Next, TS!Ingestion, TS!Worker, Storing

\* At first there is no row.
LEMMA FormedInit == TS!Init => Formed
<1> SUFFICES ASSUME TS!Init PROVE Formed
    OBVIOUS
<1>1. events = [k \in Keys |-> TS!None] /\ pending = {}
    BY DEF TS!Init
<1> QED BY <1>1 DEF Formed, RowsFormed

\* The steps that neither touch a row nor store an event.
LEMMA RowsRest == Resting \/ UNCHANGED TS!vars => events' = events /\ mixed' = mixed
BY DEF Resting, TS!SubmitFails, TS!Aggregate, TS!UpdateFails, TS!Announce,
       TS!PassFails, TS!Cleanup,
       TS!vars, TS!traffic

\* The steps that store an event.
LEMMA StoringMixes == Storing => mixed' = TRUE /\ judged' = 0
BY DEF Storing, TS!Submit, TS!Resubmit, TS!Ingest

\* A step that does not store an event either keeps the scores or writes one into all rows.
LEMMA VerdictStep ==
    ASSUME TrafficConstants
    PROVE  Formed /\ TS!OneVerdict /\ [TS!Next]_(TS!vars) => TS!OneVerdict'
<1> SUFFICES ASSUME Formed, TS!OneVerdict, [TS!Next]_(TS!vars)
             PROVE  TS!OneVerdict'
    OBVIOUS
<1>1. ASSUME \A k \in Keys : events[k] = TS!None => events'[k] = TS!None,
             ~mixed' => /\ ~mixed
                        /\ \A k \in Keys :
                              events'[k] # TS!None => events'[k].score = events[k].score
      PROVE  TS!OneVerdict'
    BY <1>1 DEF TS!OneVerdict, TS!Inbound
<1>2. CASE Storing
    BY <1>2, StoringMixes DEF TS!OneVerdict
<1>3. CASE TS!Update
    <2>1. PICK s : \A k \in TS!Inbound : events'[k].score = s
        BY <1>3, UpdateKeeps
    <2>2. \A k \in Keys : (events'[k] = TS!None) = (events[k] = TS!None)
        BY <1>3, UpdateKeeps
    <2> QED BY <2>1, <2>2 DEF TS!OneVerdict, TS!Inbound
<1>4. CASE TS!ResetTrafficScoreForIP
    BY <1>4, ResetKeeps DEF TS!OneVerdict, TS!Inbound
<1>5. CASE TS!Archive
    <2>1. mixed' = mixed
        BY <1>5 DEF TS!Archive
    <2>2. \A k \in Keys : events'[k] = TS!None \/ events'[k] = events[k]
        BY <1>5, ArchiveKeeps
    <2> QED BY <1>1, <2>1, <2>2
<1>6. ASSUME NEW hour \in BOOLEAN, TS!Tick(hour) PROVE TS!OneVerdict'
    <2>1. mixed' = mixed
        BY <1>6 DEF TS!Tick
    <2> QED BY <1>1, <1>6, <2>1, TickKeeps
<1>7. CASE Resting \/ UNCHANGED TS!vars
    BY <1>1, <1>7, RowsRest
<1> QED BY <1>2, <1>3, <1>4, <1>5, <1>6, <1>7
    DEF TS!Next, TS!Ingestion, TS!Worker, Storing, Resting

\* Nothing else happens to the rows between the update and the announcement of a pass
\* whose score still stands.
LEMMA StandingStep ==
    ASSUME TrafficConstants
    PROVE  Formed /\ Standing /\ [TS!Next]_(TS!vars) => Standing'
<1> SUFFICES ASSUME Formed, Standing, [TS!Next]_(TS!vars) PROVE Standing'
    OBVIOUS
<1>1. BlockThreshold \in Nat \ {0} /\ Window < Retention /\ Window \in Nat /\ Retention \in Nat
    BY DEF TrafficConstants
<1>2. judged' = 0 => Standing'
    BY <1>1 DEF Standing, TS!VerdictIsAnnounced
<1>3. CASE Storing
    BY <1>2, <1>3, StoringMixes
<1>4. CASE \/ TS!Aggregate \/ TS!PassFails \/ TS!ResetTrafficScoreForIP
           \/ \E hour \in BOOLEAN : TS!Tick(hour)
    BY <1>2, <1>4
    DEF TS!Aggregate, TS!PassFails, TS!ResetTrafficScoreForIP, TS!Tick
<1>5. CASE TS!Update
    <2>1. PICK s : /\ \A k \in TS!Inbound :
                         events'[k].score = s /\ events'[k].quiet = events[k].quiet
                   /\ judged' = IF TS!InWindow # {} THEN s ELSE 0
        BY <1>5, UpdateKeeps
    <2>2. \A k \in Keys : (events'[k] = TS!None) = (events[k] = TS!None)
        BY <1>5, UpdateKeeps
    <2>3. pc' = "announce"
        BY <1>5 DEF TS!Update
    <2>4. ASSUME NEW k \in TS!InWindow
          PROVE  k \in TS!InWindow' /\ events'[k].score = s
        BY <2>1, <2>2 DEF TS!InWindow, TS!Inbound
    <2>5. judged' # 0 => \E k \in TS!InWindow' : events'[k].score = judged'
        BY <2>1, <2>4
    <2> QED BY <2>3, <2>5 DEF Standing, TS!VerdictIsAnnounced
<1>6. CASE TS!UpdateFails
    <2>1. judged' = 0
        BY <1>6 DEF TS!UpdateFails, Standing
    <2> QED BY <1>2, <2>1
<1>7. CASE TS!Announce
    <2>1. /\ pc = "announce" /\ pc' = "idle" /\ events' = events /\ judged' = judged
          /\ alert' = (TS!GetBlockableIPs # {})
        BY <1>7 DEF TS!Announce, TS!traffic
    <2>2. CASE judged = 0
        BY <1>2, <2>1, <2>2
    <2>3. CASE judged # 0
        <3>1. PICK k \in TS!InWindow : events[k].score = judged
            BY <2>1, <2>3 DEF Standing
        <3>2. judged >= BlockThreshold => k \in TS!GetBlockableIPs
            BY <3>1 DEF TS!GetBlockableIPs
        <3> QED BY <2>1, <3>2 DEF Standing, TS!VerdictIsAnnounced
    <2> QED BY <2>2, <2>3
<1>8. CASE TS!Archive
    <2>1. pc' = pc /\ judged' = judged /\ alert' = alert
        BY <1>8 DEF TS!Archive, TS!worker
    <2>2. ASSUME NEW k \in TS!InWindow
          PROVE  k \in TS!InWindow' /\ events'[k] = events[k]
        <3>1. k \in Keys /\ events[k] # TS!None /\ events[k].quiet <= Window
            BY DEF TS!InWindow, TS!Inbound
        <3>2. events[k].quiet \in 0 .. Retention + 1
            BY <3>1 DEF Formed, RowsFormed, Scored
        <3>3. ~TS!Archivable(events[k])
            BY <1>1, <3>1, <3>2 DEF TS!Archivable
        <3>4. events'[k] = events[k]
            BY <1>8, <3>1, <3>3, ArchiveKeeps
        <3> QED BY <3>1, <3>4 DEF TS!InWindow, TS!Inbound
    <2> QED BY <2>1, <2>2 DEF Standing, TS!VerdictIsAnnounced
<1>9. CASE (\E e \in Events : TS!SubmitFails(e)) \/ TS!Cleanup \/ UNCHANGED TS!vars
    <2>1. UNCHANGED <<events, pc, judged, alert>>
        BY <1>9
        DEF TS!SubmitFails, TS!Cleanup, TS!vars, TS!traffic, TS!worker
    <2> QED BY <2>1 DEF Standing, TS!VerdictIsAnnounced, TS!InWindow, TS!Inbound
<1> QED
    BY <1>3, <1>4, <1>5, <1>6, <1>7, <1>8, <1>9
    DEF TS!Next, TS!Ingestion, TS!Worker, Storing

\* A row leaves the table by archiving only.
LEMMA ThreatStep ==
    ASSUME TrafficConstants, Formed, TS!Next, NEW k \in Keys,
           events[k] # TS!None, events[k].level # "normal"
    PROVE  events'[k] # TS!None
<1>1. CASE Storing
    <2>1. PICK e \in Events, late \in 0 .. Retention, charted \in BOOLEAN :
              TS!Ingest(e, late, charted)
        BY <1>1 DEF Storing, TS!Submit, TS!Resubmit, Formed, RowsFormed, TrafficConstants
    <2> DEFINE s == TS!scoreFromAgentEvent(e)
    <2>2. TS!UpsertTrafficEvent(e, s, late) # TS!None
        BY StoredRow, NoneIsNoRow, EventIsLevelled
    <2>3. events' = [events EXCEPT ![e.key] = TS!UpsertTrafficEvent(e, s, late)]
        BY <2>1 DEF TS!Ingest
    <2> QED BY <2>2, <2>3
<1>2. CASE TS!Update
    BY <1>2, UpdateKeeps
<1>3. CASE TS!ResetTrafficScoreForIP
    BY <1>3, ResetKeeps
<1>4. CASE TS!Archive
    BY <1>4, ArchiveKeeps DEF TS!Archivable
<1>5. ASSUME NEW hour \in BOOLEAN, TS!Tick(hour) PROVE events'[k] # TS!None
    BY <1>5, TickKeeps
<1>6. CASE Resting
    BY <1>6, RowsRest
<1> QED BY <1>1, <1>2, <1>3, <1>4, <1>5, <1>6
    DEF TS!Next, TS!Ingestion, TS!Worker, Storing, Resting

\* UpdateTrafficScore writes its score into every inbound row of the address, however old, so
\* that between events the rows of an address carry one score.
THEOREM SameVerdict ==
    ASSUME TrafficConstants
    PROVE  TS!Spec => []TS!OneVerdict
<1>1. TS!Init => TS!OneVerdict
    <2> SUFFICES ASSUME TS!Init PROVE TS!OneVerdict
        OBVIOUS
    <2>1. \A k \in Keys : events[k] = TS!None
        BY DEF TS!Init
    <2> QED BY <2>1 DEF TS!OneVerdict, TS!Inbound
<1> QED BY <1>1, FormedInit, FormedStep, VerdictStep, PTL DEF TS!Spec

\* A pass that has judged the address a threat finds it again in GetBlockableIPs, unless an
\* event, an unblock, the end of the slot or a failure came in between; archiving may come.
THEOREM VerdictAnnounced ==
    ASSUME TrafficConstants
    PROVE  TS!Spec => []TS!VerdictIsAnnounced
<1>1. TS!Init => Standing
    BY DEF TS!Init, Standing, TS!VerdictIsAnnounced, TrafficConstants
<1>2. Standing => TS!VerdictIsAnnounced
    BY DEF Standing
<1> QED BY <1>1, <1>2, FormedInit, FormedStep, StandingStep, PTL DEF TS!Spec

\* runArchival takes no row that is not normal, and nothing else takes a row at all.
THEOREM ThreatsAreKept ==
    ASSUME TrafficConstants
    PROVE  TS!Spec => TS!ThreatsStay
<1>1. Formed /\ [TS!Next]_(TS!vars) =>
          [\A k \in Keys :
              events[k] # TS!None /\ events[k].level # "normal" => events'[k] # TS!None
          ]_(TS!vars)
    BY ThreatStep
<1> QED BY <1>1, FormedInit, FormedStep, PTL DEF TS!Spec, TS!ThreatsStay
=============================================================================
