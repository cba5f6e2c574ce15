----------------------------- MODULE Escalation -----------------------------
(***************************************************************************)
(* How the backend decides what to do to an address that scores too high:  *)
(*   backend/internal/analysis/block_manager.go  candidateScoreThreshold,  *)
(*                        evaluateAndBlock, determineEnforcement           *)
(*   backend/internal/database/queries/blocks.sql  GetIPEnforcementHistory *)
(*   backend/internal/api/grpc_handlers.go  ReportBlockedIP                *)
(*                                                                         *)
(* A decision depends on the score and on how many rows of each type the   *)
(* address has, expired and lifted ones included.  Each decision adds a    *)
(* row, and a report of the agent makes a row permanent or adds one.       *)
(***************************************************************************)
EXTENDS Integers

CONSTANTS Scores,           \* the scores an address may reach
          BlockThreshold,   \* BlockManagerConfig.BlockThreshold
          BaseMinutes,      \* BlockManagerConfig.BaseBlockDuration, in minutes
          MaxRows           \* bound: rows of one address

ASSUME ScoresAssumption == Scores \subseteq Int
ASSUME ThresholdAssumption == BlockThreshold \in Int
\* main.go configures one hour; two hours are the mildest block of a repeat offender.
ASSUME BaseAssumption == BaseMinutes \in 1 .. 120
ASSUME RowsAssumption == MaxRows \in Nat

VARIABLES
    ratelimits,   \* rows of the address with enforcement_type 'ratelimit'
    blocks,       \* with 'block'
    permanents,   \* with 'permanent'
    past,         \* the decisions taken so far, each with the score it was taken for
    temporary,    \* how many times an address of 50 and more was not blocked for good
    blind         \* how many of those times its history could not be read

vars == <<ratelimits, blocks, permanents, past, temporary, blind>>

RateLimited(m) == [type |-> "ratelimit", minutes |-> m]
BlockedFor(m) == [type |-> "block", minutes |-> m]
Permanent == [type |-> "permanent", minutes |-> 0]

Decisions == [type : {"ratelimit", "block", "permanent"}, minutes : Nat]

MinScore == 30

CandidateThreshold ==
    IF BlockThreshold <= 0 \/ BlockThreshold > MinScore THEN MinScore ELSE BlockThreshold

\* Mutant: rows that were made permanent are not looked at.
DecisionForgetsPermanent(s, r, b, p) ==
    IF s >= 90 THEN Permanent
    ELSE IF s >= 50 THEN IF b >= 3 THEN Permanent ELSE BlockedFor(BaseMinutes)
    ELSE IF b >= 1 \/ r >= 2 THEN BlockedFor(120) ELSE RateLimited(30)

\* Mutant: a block more is needed before a moderate score is permanent.
DecisionOneMoreChance(s, r, b, p) ==
    IF s >= 90 \/ p > 0 \/ (s >= 70 /\ b > 2) \/ (s >= 50 /\ b > 3) THEN Permanent
    ELSE BlockedFor(1440)

\* determineEnforcement: score s, and r, b, p earlier rows of the three types.
Decision(s, r, b, p) ==
    CASE s >= 90 \/ p > 0 -> Permanent
      [] s < 90 /\ s >= 70 /\ p <= 0 ->
            IF b >= 2 THEN Permanent ELSE IF b = 1 THEN BlockedFor(1440) ELSE BlockedFor(360)
      [] s < 70 /\ s >= 50 /\ p <= 0 ->
            IF b >= 3 THEN Permanent ELSE IF b = 2 THEN BlockedFor(1440)
            ELSE IF b = 1 THEN BlockedFor(360) ELSE BlockedFor(BaseMinutes)
      [] s < 50 /\ p <= 0 ->
            IF b >= 1 \/ r >= 2 THEN BlockedFor(120)
            ELSE IF r = 1 THEN RateLimited(60) ELSE RateLimited(30)

\* When the history cannot be read the address is blocked for the base duration.
Fallback(s) == IF s >= 90 THEN Permanent ELSE BlockedFor(BaseMinutes)

Harshness(d) ==
    CASE d.type = "permanent" -> 2000
      [] d.type = "block" -> 100 + d.minutes
      [] d.type = "ratelimit" -> d.minutes

TypeOK ==
    /\ ratelimits \in Nat /\ blocks \in Nat /\ permanents \in Nat
    /\ past \subseteq [score : Scores, decision : Decisions, informed : BOOLEAN]
    /\ temporary \in Nat /\ blind \in Nat

Init == ratelimits = 0 /\ blocks = 0 /\ permanents = 0 /\ past = {}
        /\ temporary = 0 /\ blind = 0

Rows == ratelimits + blocks + permanents

\* CreateBlock stores the decision as a row.
Insert(d) ==
    /\ ratelimits' = IF d.type = "ratelimit" THEN ratelimits + 1 ELSE ratelimits
    /\ blocks' = IF d.type = "block" THEN blocks + 1 ELSE blocks
    /\ permanents' = IF d.type = "permanent" THEN permanents + 1 ELSE permanents

\* evaluateAndBlock meets the address with score s and no active block.
Decide(s) ==
    /\ Rows < MaxRows
    /\ s >= CandidateThreshold
    /\ LET d == Decision(s, ratelimits, blocks, permanents) IN
          /\ Insert(d)
          /\ past' = past \cup {[score |-> s, decision |-> d, informed |-> TRUE]}
          /\ temporary' = IF s >= 50 /\ d # Permanent THEN temporary + 1 ELSE temporary
    /\ UNCHANGED blind

\* The same when the history query fails.
DecideBlind(s) ==
    /\ Rows < MaxRows
    /\ s >= CandidateThreshold
    /\ Insert(Fallback(s))
    /\ past' = past \cup {[score |-> s, decision |-> Fallback(s), informed |-> FALSE]}
    /\ IF s >= 50 /\ Fallback(s) # Permanent
       THEN temporary' = temporary + 1 /\ blind' = blind + 1
       ELSE UNCHANGED <<temporary, blind>>

\* Mutant: the upgrade does not need a row.
UpgradeAlways ==
    /\ ratelimits' = ratelimits - 1
    /\ permanents' = permanents + 1
    /\ UNCHANGED <<blocks, past, temporary, blind>>

\* ReportBlockedIP: an active row of the address becomes permanent.
ReportUpgrades ==
    /\ \/ ratelimits > 0 /\ ratelimits' = ratelimits - 1 /\ UNCHANGED blocks
       \/ blocks > 0 /\ blocks' = blocks - 1 /\ UNCHANGED ratelimits
    /\ permanents' = permanents + 1
    /\ UNCHANGED <<past, temporary, blind>>

\* ReportBlockedIP: none is active, and a permanent row is added.
ReportAdds ==
    /\ Rows < MaxRows
    /\ permanents' = permanents + 1
    /\ UNCHANGED <<ratelimits, blocks, past, temporary, blind>>

Next ==
    \/ \E s \in Scores : Decide(s) \/ DecideBlind(s)
    \/ ReportUpgrades \/ ReportAdds

Spec == Init /\ [][Next]_vars

----------------------------------------------------------------------------
\* An address is never treated more mildly than before at the same or a higher
\* score, unless its history could not be read: what the escalation is for,
\* although reports change the types of rows that the next decision counts.
NeverMilder ==
    [][\A e \in past : \A f \in past' \ past :
          f.informed /\ f.score >= e.score
              => Harshness(f.decision) >= Harshness(e.decision)]_vars

\* determineEnforcement gives an address of 50 and more another temporary block only
\* as one of its first three.  Those given while its history could not be read count
\* as well, and are the only ones that may come after the third.
AtMostThreeChances == [][temporary' > temporary => temporary' <= 3 \/ blind' > blind]_vars
============================================================================
