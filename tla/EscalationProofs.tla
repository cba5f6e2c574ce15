-------------------------- MODULE EscalationProofs --------------------------
(***************************************************************************)
(* The two places that escalate against an address, the block manager of   *)
(* the backend and the auto-blocker of the agent.                          *)
(*                                                                         *)
(* Escalation, for every set of scores, every threshold and any number of  *)
(* rows: the decision depends on a history that each decision and each     *)
(* report changes, so the theorems rest on a relation between the          *)
(* decisions taken so far and the one the history now gives.               *)
(*                                                                         *)
(* AutoBlocking, as Agent, for any number of flushes, failures, restarts   *)
(* and commands: what a decision was based on when it is carried out, and  *)
(* what the history holds when it is read.                                 *)
(***************************************************************************)
EXTENDS Escalation, NaturalsInduction, WellFoundedInduction, TLAPS

H(s, r, b, p) == Harshness(Decision(s, r, b, p))

\* The matrix of determineEnforcement, one number per cell.
Matrix(s, r, b, p) ==
    IF s >= 90 \/ p > 0 THEN 2000
    ELSE IF s >= 70 THEN IF b >= 2 THEN 2000 ELSE IF b = 1 THEN 1540 ELSE 460
    ELSE IF s >= 50
         THEN IF b >= 3 THEN 2000 ELSE IF b = 2 THEN 1540 ELSE IF b = 1 THEN 460
              ELSE 100 + BaseMinutes
    ELSE IF b >= 1 \/ r >= 2 THEN 220 ELSE IF r = 1 THEN 60 ELSE 30

----------------------------------------------------------------------------
\* determineEnforcement returns one of the decisions, of the harshness Matrix says;
\* a ratelimit only below 50, and below 90 no permanent one without three rows.
LEMMA DecisionFacts ==
    ASSUME NEW s \in Int, NEW r \in Nat, NEW b \in Nat, NEW p \in Nat
    PROVE  /\ Decision(s, r, b, p) \in Decisions
           /\ H(s, r, b, p) = Matrix(s, r, b, p)
           /\ Decision(s, r, b, p).type = "ratelimit" => s < 50 /\ b = 0
           /\ Decision(s, r, b, p).type = "block" => p = 0 /\ (s >= 50 => b <= 2)
           /\ Decision(s, r, b, p).type = "permanent" => Decision(s, r, b, p) = Permanent
<1>1. CASE s >= 90 \/ p > 0
    <2>1. Decision(s, r, b, p) = Permanent
        BY <1>1 DEF Decision
    <2> QED
        BY <1>1, <2>1 DEF H, Matrix, Harshness, Permanent, Decisions
<1>2. CASE s < 90 /\ s >= 70 /\ p <= 0
    <2>1. Decision(s, r, b, p) = IF b >= 2 THEN Permanent
                                 ELSE IF b = 1 THEN BlockedFor(1440) ELSE BlockedFor(360)
        BY <1>2 DEF Decision
    <2> QED
        BY <1>2, <2>1 DEF H, Matrix, Harshness, Permanent, BlockedFor, Decisions
<1>3. CASE s < 70 /\ s >= 50 /\ p <= 0
    <2>1. Decision(s, r, b, p) =
              IF b >= 3 THEN Permanent ELSE IF b = 2 THEN BlockedFor(1440)
              ELSE IF b = 1 THEN BlockedFor(360) ELSE BlockedFor(BaseMinutes)
        BY <1>3 DEF Decision
    <2> QED
        BY <1>3, <2>1, BaseAssumption
        DEF H, Matrix, Harshness, Permanent, BlockedFor, Decisions
<1>4. CASE s < 50 /\ p <= 0
    <2>1. Decision(s, r, b, p) = IF b >= 1 \/ r >= 2 THEN BlockedFor(120)
                                 ELSE IF r = 1 THEN RateLimited(60) ELSE RateLimited(30)
        BY <1>4 DEF Decision
    <2> QED
        BY <1>4, <2>1 DEF H, Matrix, Harshness, BlockedFor, RateLimited, Decisions
<1> QED
    BY <1>1, <1>2, <1>3, <1>4

\* Harshness is a number, as the cells of the matrix are.
LEMMA HarshnessNat ==
    ASSUME NEW s \in Int, NEW r \in Nat, NEW b \in Nat, NEW p \in Nat
    PROVE  H(s, r, b, p) \in Nat /\ Matrix(s, r, b, p) \in Nat
<1>1. Matrix(s, r, b, p) \in Nat
    BY BaseAssumption DEF Matrix
<1> QED
    BY <1>1, DecisionFacts

\* More rows never make the decision milder.
LEMMA HistoryMonotone ==
    ASSUME NEW s \in Int, NEW r \in Nat, NEW b \in Nat, NEW p \in Nat,
           NEW rr \in Nat, NEW bb \in Nat, NEW pp \in Nat,
           r <= rr, b <= bb, p <= pp
    PROVE  H(s, r, b, p) <= H(s, rr, bb, pp)
<1>1. H(s, r, b, p) = Matrix(s, r, b, p) /\ H(s, rr, bb, pp) = Matrix(s, rr, bb, pp)
    BY DecisionFacts
<1> QED
    BY <1>1, BaseAssumption DEF Matrix

\* A permanent row makes every later decision the harshest there is.
LEMMA PermanentIsHarshest ==
    ASSUME NEW s \in Int, NEW r \in Nat, NEW b \in Nat, NEW p \in Nat
    PROVE  /\ p > 0 => H(s, r, b, p) = 2000
           /\ H(s, r, b, p) <= 2000
<1>1. H(s, r, b, p) = Matrix(s, r, b, p)
    BY DecisionFacts
<1> QED
    BY <1>1, BaseAssumption DEF Matrix

\* With the row of a decision in the history, an equal or a higher score gets at
\* least that decision.
LEMMA RowEscalates ==
    ASSUME NEW s \in Int, NEW t \in Int, s <= t,
           NEW r \in Nat, NEW b \in Nat, NEW p \in Nat,
           NEW d, d = Decision(s, r, b, p)
    PROVE  H(t, IF d.type = "ratelimit" THEN r + 1 ELSE r,
                IF d.type = "block" THEN b + 1 ELSE b,
                IF d.type = "permanent" THEN p + 1 ELSE p) >= Harshness(d)
<1> DEFINE R == IF d.type = "ratelimit" THEN r + 1 ELSE r
           B == IF d.type = "block" THEN b + 1 ELSE b
           P == IF d.type = "permanent" THEN p + 1 ELSE p
<1>1. /\ d \in Decisions
      /\ Harshness(d) = Matrix(s, r, b, p)
      /\ d.type = "ratelimit" => s < 50 /\ b = 0
      /\ d.type = "block" => p = 0 /\ (s >= 50 => b <= 2)
      /\ d.type = "permanent" => d = Permanent
    BY DecisionFacts DEF H
<1>2. CASE d.type = "ratelimit"
    <2>1. H(t, r + 1, b, p) = Matrix(t, r + 1, b, p)
        BY DecisionFacts
    <2>2. Matrix(s, r, b, p) <= 60
        <3>1. s < 90 /\ p = 0
            <4>1. ~(s >= 90 \/ p > 0)
                BY <1>2 DEF Decision, Permanent
            <4> QED BY <4>1
        <3>2. r < 2
            <4>1. r >= 2 => d = BlockedFor(120)
                BY <1>1, <1>2, <3>1 DEF Decision
            <4> QED BY <4>1, <1>2 DEF BlockedFor
        <3> QED BY <1>1, <1>2, <3>1, <3>2 DEF Matrix
    <2>3. Matrix(t, r + 1, b, p) >= 60 /\ Matrix(t, r + 1, b, p) \in Int
        BY BaseAssumption DEF Matrix
    <2>4. R = r + 1 /\ B = b /\ P = p
        BY <1>2
    <2>5. Matrix(s, r, b, p) \in Nat
        BY HarshnessNat
    <2>6. H(t, r + 1, b, p) >= Harshness(d)
        BY <1>1, <2>1, <2>2, <2>3, <2>5
    <2> QED BY <2>4, <2>6
<1>3. CASE d.type = "block"
    <2>1. H(t, r, b + 1, p) = Matrix(t, r, b + 1, p)
        BY DecisionFacts
    <2>2. Matrix(t, r, b + 1, p) >= Matrix(s, r, b, p)
        <3>1. ~(s >= 90 \/ p > 0)
            BY <1>3 DEF Decision, Permanent
        <3>2. ~(s >= 70 /\ b >= 2)
            BY <1>3, <3>1 DEF Decision, Permanent
        <3> QED BY <1>1, <1>3, <3>1, <3>2, BaseAssumption DEF Matrix
    <2>3. R = r /\ B = b + 1 /\ P = p
        BY <1>3
    <2>4. H(t, r, b + 1, p) >= Harshness(d)
        BY <1>1, <2>1, <2>2
    <2> QED BY <2>3, <2>4
<1>4. CASE d.type = "permanent"
    <2>1. H(t, r, b, p + 1) = 2000
        BY PermanentIsHarshest
    <2>2. Harshness(d) = 2000
        BY <1>1, <1>4 DEF Harshness, Permanent
    <2>3. R = r /\ B = b /\ P = p + 1
        BY <1>4
    <2>4. H(t, r, b, p + 1) >= Harshness(d)
        BY <2>1, <2>2
    <2> QED BY <2>3, <2>4
<1> QED BY <1>1, <1>2, <1>3, <1>4 DEF Decisions

----------------------------------------------------------------------------
(* The inductive invariant.                                                *)

\* At every score at or above that of an earlier decision, the history now gives
\* a decision at least as harsh.
Covers ==
    \A e \in past : \A s \in Scores :
        s >= e.score => H(s, ratelimits, blocks, permanents) >= Harshness(e.decision)

\* Each temporary decision for 50 and more has left a block row, unless a row
\* was made permanent.
Chances == permanents > 0 \/ temporary <= blocks

IInv == TypeOK /\ Covers /\ Chances

\* The state after a decision d: typed, and d covered as well as what came before.
LEMMA InsertKeepsCovers ==
    ASSUME TypeOK, Covers, NEW d \in Decisions, Insert(d),
           NEW s \in Scores, NEW i \in BOOLEAN,
           past' = past \cup {[score |-> s, decision |-> d, informed |-> i]},
           \A t \in Scores : t >= s =>
               H(t, ratelimits', blocks', permanents') >= Harshness(d)
    PROVE  Covers'
<1>1. /\ ratelimits \in Nat /\ blocks \in Nat /\ permanents \in Nat
      /\ ratelimits' \in Nat /\ blocks' \in Nat /\ permanents' \in Nat
      /\ ratelimits <= ratelimits' /\ blocks <= blocks' /\ permanents <= permanents'
    BY DEF TypeOK, Insert
<1>2. ASSUME NEW e \in past, NEW t \in Scores, t >= e.score
      PROVE  H(t, ratelimits', blocks', permanents') >= Harshness(e.decision)
    <2>1. t \in Int
        BY ScoresAssumption
    <2>2. H(t, ratelimits, blocks, permanents) >= Harshness(e.decision)
        BY <1>2 DEF Covers
    <2>3. H(t, ratelimits, blocks, permanents) <= H(t, ratelimits', blocks', permanents')
        BY <1>1, <2>1, HistoryMonotone
    <2>4. H(t, ratelimits, blocks, permanents) \in Nat
        BY <1>1, <2>1, HarshnessNat
    <2>6. H(t, ratelimits', blocks', permanents') \in Nat
        BY <1>1, <2>1, HarshnessNat
    <2>5. Harshness(e.decision) \in Int
        <3>1. e.decision \in Decisions
            BY DEF TypeOK
        <3> QED BY <3>1 DEF Harshness, Decisions
    <2> QED BY <2>2, <2>3, <2>4, <2>5, <2>6
<1> QED BY <1>2 DEF Covers

\* Without decisions and rows there is nothing to compare.
LEMMA Initially == Init => IInv
BY DEF Init, IInv, TypeOK, Covers, Chances

\* A decision for a history that was read.
LEMMA DecideKeeps ==
    ASSUME IInv, NEW s \in Scores, Decide(s)
    PROVE  IInv'
<1> DEFINE d == Decision(s, ratelimits, blocks, permanents)
<1>1. /\ ratelimits \in Nat /\ blocks \in Nat /\ permanents \in Nat
      /\ temporary \in Nat /\ blind \in Nat
      /\ past \subseteq [score : Scores, decision : Decisions, informed : BOOLEAN]
      /\ s \in Int
    BY ScoresAssumption DEF IInv, TypeOK
<1>2. /\ d \in Decisions
      /\ d.type = "ratelimit" => s < 50 /\ blocks = 0
      /\ d.type = "block" => permanents = 0 /\ (s >= 50 => blocks <= 2)
      /\ d.type = "permanent" => d = Permanent
    BY <1>1, DecisionFacts
<1>3. /\ Insert(d)
      /\ past' = past \cup {[score |-> s, decision |-> d, informed |-> TRUE]}
      /\ temporary' = IF s >= 50 /\ d # Permanent THEN temporary + 1 ELSE temporary
      /\ blind' = blind
    BY DEF Decide
<1> HIDE DEF d
<1>4. TypeOK'
    <2>1. ratelimits' \in Nat /\ blocks' \in Nat /\ permanents' \in Nat /\ temporary' \in Nat
          /\ blind' \in Nat
        BY <1>1, <1>3 DEF Insert
    <2>2. past' \subseteq [score : Scores, decision : Decisions, informed : BOOLEAN]
        <3>1. [score |-> s, decision |-> d, informed |-> TRUE]
                  \in [score : Scores, decision : Decisions, informed : BOOLEAN]
            BY <1>2
        <3> QED BY <1>1, <1>3, <3>1
    <2> QED BY <2>1, <2>2 DEF TypeOK
<1>5. Covers'
    <2>1. ASSUME NEW t \in Scores, t >= s
          PROVE  H(t, ratelimits', blocks', permanents') >= Harshness(d)
        <3>1. t \in Int /\ s <= t
            BY <1>1, <2>1, ScoresAssumption
        <3> QED
            BY <1>1, <1>3, <3>1, RowEscalates DEF Insert, d
    <2>2. TypeOK /\ Covers
        BY DEF IInv
    <2> QED BY <1>2, <1>3, <2>1, <2>2, InsertKeepsCovers
<1>6. Chances'
    <2>1. permanents > 0 \/ temporary <= blocks
        BY DEF IInv, Chances
    <2>2. CASE d.type = "block"
        BY <1>1, <1>2, <1>3, <2>1, <2>2 DEF Chances, Insert
    <2>3. CASE d.type = "permanent"
        BY <1>1, <1>2, <1>3, <2>1, <2>3 DEF Chances, Insert
    <2>4. CASE d.type = "ratelimit"
        BY <1>1, <1>2, <1>3, <2>1, <2>4 DEF Chances, Insert
    <2> QED BY <1>2, <2>2, <2>3, <2>4 DEF Decisions
<1> QED BY <1>4, <1>5, <1>6 DEF IInv

\* A decision for a history that could not be read: mild enough to be covered.
LEMMA DecideBlindKeeps ==
    ASSUME IInv, NEW s \in Scores, DecideBlind(s)
    PROVE  IInv'
<1> DEFINE d == Fallback(s)
<1>1. /\ ratelimits \in Nat /\ blocks \in Nat /\ permanents \in Nat
      /\ temporary \in Nat /\ blind \in Nat
      /\ past \subseteq [score : Scores, decision : Decisions, informed : BOOLEAN]
      /\ s \in Int
    BY ScoresAssumption DEF IInv, TypeOK
<1>2. /\ d \in Decisions
      /\ d.type = "permanent" \/ d.type = "block"
      /\ d.type = "permanent" => d = Permanent /\ Harshness(d) = 2000
      /\ d.type = "block" => Harshness(d) <= 220
    BY BaseAssumption DEF Fallback, Permanent, BlockedFor, Decisions, Harshness
<1>3. /\ Insert(d)
      /\ past' = past \cup {[score |-> s, decision |-> d, informed |-> FALSE]}
      /\ temporary' \in {temporary, temporary + 1}
      /\ d = Permanent => temporary' = temporary
      /\ blind' \in {blind, blind + 1}
    BY DEF DecideBlind
<1> HIDE DEF d
<1>4. TypeOK'
    <2>1. ratelimits' \in Nat /\ blocks' \in Nat /\ permanents' \in Nat /\ temporary' \in Nat
          /\ blind' \in Nat
        BY <1>1, <1>3 DEF Insert
    <2>2. past' \subseteq [score : Scores, decision : Decisions, informed : BOOLEAN]
        <3>1. [score |-> s, decision |-> d, informed |-> FALSE]
                  \in [score : Scores, decision : Decisions, informed : BOOLEAN]
            BY <1>2
        <3> QED BY <1>1, <1>3, <3>1
    <2> QED BY <2>1, <2>2 DEF TypeOK
<1>5. Covers'
    <2>1. ASSUME NEW t \in Scores, t >= s
          PROVE  H(t, ratelimits', blocks', permanents') >= Harshness(d)
        <3>1. t \in Int
            BY ScoresAssumption
        <3>2. CASE d.type = "permanent"
            <4>1. permanents' \in Nat /\ permanents' > 0
                  /\ ratelimits' \in Nat /\ blocks' \in Nat
                BY <1>1, <1>3, <3>2 DEF Insert
            <4>2. H(t, ratelimits', blocks', permanents') = 2000
                BY <3>1, <4>1, PermanentIsHarshest
            <4> QED BY <1>2, <3>2, <4>2
        <3>3. CASE d.type = "block"
            <4>1. permanents' \in Nat /\ ratelimits' \in Nat
                  /\ blocks' \in Nat /\ blocks' >= 1
                BY <1>1, <1>3, <3>3 DEF Insert
            <4>2. H(t, ratelimits', blocks', permanents')
                      = Matrix(t, ratelimits', blocks', permanents')
                BY <3>1, <4>1, DecisionFacts
            <4>3. Matrix(t, ratelimits', blocks', permanents') >= 220
                BY <3>1, <4>1, BaseAssumption DEF Matrix
            <4>4. Harshness(d) <= 220 /\ Harshness(d) \in Int
                BY <1>2, <3>3 DEF Harshness, Decisions
            <4>5. Matrix(t, ratelimits', blocks', permanents') \in Int
                BY <3>1, <4>1, HarshnessNat
            <4> QED BY <4>2, <4>3, <4>4, <4>5
        <3> QED BY <1>2, <3>2, <3>3
    <2>2. TypeOK /\ Covers
        BY DEF IInv
    <2>3. PICK i \in BOOLEAN :
              past' = past \cup {[score |-> s, decision |-> d, informed |-> i]}
        BY <1>3
    <2>4. d \in Decisions /\ Insert(d)
        BY <1>2, <1>3
    <2> QED BY <2>1, <2>2, <2>3, <2>4, InsertKeepsCovers
<1>6. Chances'
    BY <1>1, <1>2, <1>3 DEF IInv, Chances, Insert
<1> QED BY <1>4, <1>5, <1>6 DEF IInv

\* A report makes a row permanent: every later decision is the harshest there is.
LEMMA ReportKeeps ==
    ASSUME IInv, ReportUpgrades \/ ReportAdds
    PROVE  IInv'
<1>1. /\ ratelimits \in Nat /\ blocks \in Nat /\ permanents \in Nat
      /\ temporary \in Nat /\ blind \in Nat
      /\ past \subseteq [score : Scores, decision : Decisions, informed : BOOLEAN]
    BY DEF IInv, TypeOK
<1>2. /\ ratelimits' \in Nat /\ blocks' \in Nat
      /\ permanents' \in Nat /\ permanents' > 0
      /\ past' = past /\ temporary' = temporary /\ blind' = blind
    BY <1>1 DEF ReportUpgrades, ReportAdds
<1>3. TypeOK'
    BY <1>1, <1>2 DEF TypeOK
<1>4. Covers'
    <2>1. ASSUME NEW e \in past, NEW t \in Scores, t >= e.score
          PROVE  H(t, ratelimits', blocks', permanents') >= Harshness(e.decision)
        <3>1. H(t, ratelimits', blocks', permanents') = 2000
            BY <1>2, ScoresAssumption, PermanentIsHarshest
        <3>2. H(t, ratelimits, blocks, permanents) >= Harshness(e.decision)
            BY <2>1 DEF IInv, Covers
        <3>3. /\ H(t, ratelimits, blocks, permanents) <= 2000
              /\ H(t, ratelimits, blocks, permanents) \in Nat
            BY <1>1, ScoresAssumption, PermanentIsHarshest, HarshnessNat
        <3>4. Harshness(e.decision) \in Int
            <4>1. e.decision \in Decisions
                BY <1>1
            <4> QED BY <4>1 DEF Harshness, Decisions
        <3> QED BY <3>1, <3>2, <3>3, <3>4
    <2> QED BY <1>2, <2>1 DEF Covers
<1>5. Chances'
    BY <1>2 DEF IInv, Chances
<1> QED BY <1>3, <1>4, <1>5 DEF IInv

\* No decision or report breaks the relation between decisions and history.
LEMMA Inductive == IInv /\ [Next]_vars => IInv'
<1> SUFFICES ASSUME IInv, [Next]_vars PROVE IInv'
    OBVIOUS
<1>1. CASE \E s \in Scores : Decide(s)
    BY <1>1, DecideKeeps
<1>2. CASE \E s \in Scores : DecideBlind(s)
    BY <1>2, DecideBlindKeeps
<1>3. CASE ReportUpgrades \/ ReportAdds
    BY <1>3, ReportKeeps
<1>4. CASE UNCHANGED vars
    BY <1>4 DEF IInv, TypeOK, Covers, Chances, vars
<1> QED BY <1>1, <1>2, <1>3, <1>4 DEF Next

\* The inductive invariant holds in every reachable state.
LEMMA Invariance == Spec => []IInv
BY Initially, Inductive, PTL DEF Spec

----------------------------------------------------------------------------
\* Every variable keeps its type.
THEOREM TypeCorrect == Spec => []TypeOK
<1>1. IInv => TypeOK
    BY DEF IInv
<1> QED BY <1>1, Invariance, PTL

\* Counting every temporary block an address of 50 and more was given, blindly or not,
\* a decision whose history was read gives no more than the third, however rows are
\* upgraded in between (determineEnforcement).
THEOREM ThreeChances == Spec => AtMostThreeChances
<1> DEFINE Chance == temporary' > temporary => temporary' <= 3 \/ blind' > blind
<1>1. IInv /\ [Next]_vars => [Chance]_vars
    <2> SUFFICES ASSUME IInv, Next PROVE Chance
        OBVIOUS
    <2>1. /\ ratelimits \in Nat /\ blocks \in Nat /\ permanents \in Nat
          /\ temporary \in Nat /\ blind \in Nat
          /\ permanents > 0 \/ temporary <= blocks
        BY DEF IInv, TypeOK, Chances
    <2>2. ASSUME NEW s \in Scores, Decide(s) PROVE Chance
        <3> DEFINE d == Decision(s, ratelimits, blocks, permanents)
        <3>1. /\ d \in Decisions
              /\ d.type = "ratelimit" => s < 50
              /\ d.type = "block" => permanents = 0 /\ (s >= 50 => blocks <= 2)
              /\ d.type = "permanent" => d = Permanent
            BY <2>1, ScoresAssumption, DecisionFacts
        <3>2. temporary' = IF s >= 50 /\ d # Permanent THEN temporary + 1 ELSE temporary
            BY <2>2 DEF Decide
        <3> HIDE DEF d
        <3>3. s \in Int
            BY ScoresAssumption
        <3>4. CASE d.type = "block"
            BY <2>1, <3>1, <3>2, <3>3, <3>4
        <3>5. CASE d.type # "block"
            BY <2>1, <3>1, <3>2, <3>3, <3>5 DEF Decisions
        <3> QED BY <3>4, <3>5
    <2>3. ASSUME NEW s \in Scores, DecideBlind(s) PROVE Chance
        <3>1. temporary' = temporary \/ blind' = blind + 1
            BY <2>3 DEF DecideBlind
        <3> QED BY <2>1, <3>1
    <2>4. ASSUME ReportUpgrades \/ ReportAdds PROVE Chance
        BY <2>1, <2>4 DEF ReportUpgrades, ReportAdds
    <2> QED BY <2>2, <2>3, <2>4 DEF Next
<1> QED BY <1>1, Invariance, PTL DEF Spec, AtMostThreeChances

\* A decision for a history that was read is at least as harsh as every earlier
\* one for the same or a lower score (determineEnforcement).
THEOREM Escalates == Spec => NeverMilder
<1>1. IInv /\ [Next]_vars =>
          [\A e \in past : \A f \in past' \ past :
              f.informed /\ f.score >= e.score
                  => Harshness(f.decision) >= Harshness(e.decision)]_vars
    <2> SUFFICES ASSUME IInv, Next, NEW e \in past, NEW f \in past' \ past,
                        f.informed, f.score >= e.score
                 PROVE  Harshness(f.decision) >= Harshness(e.decision)
        BY DEF vars
    <2>1. PICK s \in Scores : Decide(s)
        BY DEF Next, DecideBlind, ReportUpgrades, ReportAdds
    <2>2. f.score = s /\ f.decision = Decision(s, ratelimits, blocks, permanents)
        BY <2>1 DEF Decide
    <2> QED BY <2>2 DEF IInv, Covers, H
<1> QED BY <1>1, Invariance, PTL DEF Spec, NeverMilder

----------------------------------------------------------------------------
\* The agent's auto-blocker has its own threshold.
CONSTANTS Arrivals, Lookback, AgentThreshold, MaxBlocksPerMinute, Base, Cap, Multiplier,
          Overflow, MaxHits
VARIABLES stats, rows, chain, away, pc, verdict, plan, spent, others, minute, count,
          marked, whitelisted, tracked, kernel, limited, racers

Agent == INSTANCE AutoBlocking WITH BlockThreshold <- AgentThreshold

\* What the theorem on the memory of an address assumes of the agent's constants.
AgentConstants ==
    /\ Lookback \in Nat \ {0}
    /\ Arrivals \subseteq Agent!Directions \X
           [syn : Nat, ack : Nat, failed : Nat, ports : Nat, hits : Nat, window : Nat]

\* A block that ProcessScore has decided on was decided for an address neither marked
\* nor whitelisted; if it is by now, then since, and nothing has raced it yet.
Racing ==
    /\ racers \in {0, 1} /\ marked \in BOOLEAN /\ whitelisted \in BOOLEAN
    /\ pc = "act" /\ plan.action = "block" /\ (marked \/ whitelisted) => racers = 0

\* Every step of the agent and its environment keeps that so.
LEMMA RacingStep == Racing /\ [Agent!Next]_(Agent!vars) => Racing'
<1> SUFFICES ASSUME Racing, [Agent!Next]_(Agent!vars) PROVE Racing'
    OBVIOUS
<1> USE DEF Racing, Agent!flush, Agent!budget, Agent!blocker, Agent!enforced
<1>1. CASE Agent!Skip
    BY <1>1 DEF Agent!Skip
<1>2. ASSUME NEW new \in BOOLEAN, Agent!Judge(new) PROVE Racing'
    BY <1>2 DEF Agent!Judge, Agent!Passes, Agent!Enforcement
<1>3. ASSUME NEW new \in BOOLEAN, Agent!OverBudget(new) PROVE Racing'
    BY <1>3 DEF Agent!OverBudget
<1>4. CASE Agent!Block
    BY <1>4 DEF Agent!Block, Agent!recordBlock
<1>5. CASE Agent!Limit
    BY <1>5 DEF Agent!Limit
<1>6. CASE Agent!ActFails
    BY <1>6 DEF Agent!ActFails
<1>7. ASSUME NEW keeps \in BOOLEAN, Agent!Deliver(keeps) PROVE Racing'
    BY <1>7 DEF Agent!Deliver
<1>8. ASSUME NEW loads \in BOOLEAN, NEW persists \in BOOLEAN, Agent!Score(loads, persists)
      PROVE  Racing'
    BY <1>8 DEF Agent!Score
<1>9. ASSUME NEW a \in Arrivals, Agent!Arrive(a[1], a[2]) PROVE Racing'
    BY <1>9 DEF Agent!Arrive
<1>10. ASSUME NEW new \in BOOLEAN, Agent!Other(new) PROVE Racing'
    BY <1>10 DEF Agent!Other
<1>11. CASE Agent!Tick \/ Agent!Forget \/ Agent!Expire \/ Agent!LimitExpires
    BY <1>11 DEF Agent!Tick, Agent!Forget, Agent!Expire, Agent!LimitExpires
<1>12. CASE Agent!RateLimitCommand
    BY <1>12 DEF Agent!RateLimitCommand
<1>13. ASSUME NEW d \in {0, Base}, Agent!BlockCommand(d) PROVE Racing'
    BY <1>13 DEF Agent!BlockCommand
<1>14. CASE Agent!Unlist
    BY <1>14 DEF Agent!Unlist
<1>15. ASSUME NEW type \in {"blocklist", "ratelimit"}, NEW white \in BOOLEAN,
              Agent!UnblockCommand(type, white)
       PROVE  Racing'
    BY <1>15 DEF Agent!UnblockCommand
<1>16. CASE Agent!Restart
    BY <1>16 DEF Agent!Restart
<1>17. CASE UNCHANGED Agent!vars
    BY <1>17 DEF Agent!vars
<1> QED
    BY <1>1, <1>2, <1>3, <1>4, <1>5, <1>6, <1>7, <1>8, <1>9, <1>10, <1>11, <1>12, <1>13, <1>14,
       <1>15, <1>16, <1>17
    DEF Agent!Next, Agent!Flush, Agent!Process, Agent!Traffic, Agent!Time, Agent!Commands

\* Once the backend has asked for a rate limit, or has whitelisted the address, the
\* auto-blocker blocks it at most once more: what ProcessScore had decided before.
THEOREM AtMostOneRacer == Agent!Spec => []Agent!OneRacer
<1>1. Agent!Init => Racing
    BY DEF Agent!Init, Racing
<1>2. Racing => Agent!OneRacer
    BY DEF Racing, Agent!OneRacer
<1> QED BY <1>1, <1>2, RacingStep, PTL DEF Agent!Spec

\* A set of numbers with an upper bound has a greatest member.
LEMMA MaxIsMember ==
    ASSUME NEW S \in SUBSET Nat, S # {}, NEW b \in Nat, \A x \in S : x <= b
    PROVE  Agent!Max(S) \in S /\ \A x \in S : x <= Agent!Max(S)
<1> DEFINE T == {b - x : x \in S}
<1>1. T \subseteq Nat /\ T # {}
    <2>1. \A x \in S : b - x \in Nat
        OBVIOUS
    <2> QED BY <2>1
<1> DEFINE R == OpToRel(<, Nat)
<1>0. IsWellFoundedOn(R, Nat)
    BY NatLessThanWellFounded
<1>2. PICK m \in T : \A y \in T : ~(<<y, m>> \in R)
    <2> HIDE DEF T, R
    <2> QED BY <1>0, <1>1, WFMin
<1>3. \A y \in T : y >= m
    <2> SUFFICES ASSUME NEW y \in T, y < m PROVE FALSE
        BY <1>1
    <2>1. <<y, m>> \in R
        BY <1>1 DEF OpToRel
    <2> QED BY <2>1, <1>2
<1>4. PICK x \in S : m = b - x
    OBVIOUS
<1>5. \A y \in S : x >= y
    <2> SUFFICES ASSUME NEW y \in S PROVE x >= y
        OBVIOUS
    <2>1. b - y \in T /\ x \in Nat /\ y \in Nat
        OBVIOUS
    <2>2. b - y >= b - x
        BY <1>3, <1>4, <2>1
    <2> HIDE DEF T
    <2> QED BY <2>1, <2>2
<1>6. \E z \in S : \A y \in S : z >= y
    BY <1>5
<1> HIDE DEF T
<1> QED BY <1>6 DEF Agent!Max

\* The maximum and the minimum of two numbers.
LEMMA AtLeastFacts ==
    ASSUME NEW x \in Nat, NEW low \in Nat
    PROVE  Agent!AtLeast(x, low) = IF x >= low THEN x ELSE low
<1> DEFINE S == {x, low}
<1>1. \E z \in S : \A y \in S : z >= y
    OBVIOUS
<1>2. Agent!Max(S) \in S /\ \A y \in S : Agent!Max(S) >= y
    BY <1>1 DEF Agent!Max
<1> QED BY <1>2 DEF Agent!AtLeast

LEMMA AtMostFacts ==
    ASSUME NEW x \in Nat, NEW high \in Nat
    PROVE  Agent!AtMost(x, high) = IF x <= high THEN x ELSE high
<1> DEFINE S == {x, high}
<1>1. \E z \in S : \A y \in S : z =< y
    OBVIOUS
<1>2. Agent!Min(S) \in S /\ \A y \in S : Agent!Min(S) =< y
    BY <1>1 DEF Agent!Min
<1> QED BY <1>2 DEF Agent!AtMost

\* What the history holds of inbound traffic is within what was seen since the address
\* was last away for a whole window, and nothing is younger than it has been away.
Remembered ==
    /\ stats = Agent!None \/ stats \in Agent!IPStats
    /\ rows \in Agent!Buckets /\ chain \in Nat /\ away \in 0 .. Lookback + 1
    /\ \E most \in Nat : \A d \in Agent!Directions, a \in 0 .. Lookback : rows[d][a] <= most
    /\ \A a \in 0 .. Lookback :
          /\ rows["inbound"][a] <= chain
          /\ a < away => rows["inbound"][a] = 0

\* The buckets that LoadSignals reads are buckets.
LEMMA BoundsFacts ==
    ASSUME AgentConstants
    PROVE  /\ Lookback \in Nat \ {0}
           /\ 0 \in 0 .. Lookback /\ 0 \in 0 .. Lookback + 1
           /\ 1 \in 1 .. Lookback /\ 1 .. Lookback \subseteq 0 .. Lookback
BY DEF AgentConstants

\* ProcessEvent adds to the entry and leaves the history alone.
LEMMA ArriveRemembers ==
    ASSUME AgentConstants, Remembered, NEW a \in Arrivals, Agent!Arrive(a[1], a[2])
    PROVE  Remembered'
<1> DEFINE p == a[2]
<1>1. /\ a[1] \in Agent!Directions
      /\ p.syn \in Nat /\ p.ack \in Nat /\ p.failed \in Nat /\ p.ports \in Nat
      /\ p.hits \in Nat /\ p.window \in Nat
    BY DEF AgentConstants
<1>2. UNCHANGED <<rows, chain, away>>
    BY DEF Agent!Arrive
<1>3. CASE stats = Agent!None
    <2>1. stats' \in Agent!IPStats
        BY <1>1, <1>3, BoundsFacts DEF Agent!Arrive, Agent!IPStats
    <2> QED BY <1>2, <2>1 DEF Remembered
<1>4. CASE stats # Agent!None
    <2>1. stats \in Agent!IPStats
        BY <1>4 DEF Remembered
    <2>2. Agent!AtLeast(stats.ports, p.ports) \in Nat
        BY <1>1, <2>1, AtLeastFacts DEF Agent!IPStats
    <2>3. stats' = [stats EXCEPT !.syn = @ + p.syn, !.ack = @ + p.ack,
                             !.failed = @ + p.failed, !.ports = Agent!AtLeast(@, p.ports),
                             !.hits = @ + p.hits, !.window = @ + p.window]
        BY <1>4 DEF Agent!Arrive
    <2> HIDE DEF p
    <2>4. stats' = [direction |-> stats.direction, syn |-> stats.syn + p.syn,
                    ack |-> stats.ack + p.ack, failed |-> stats.failed + p.failed,
                    ports |-> Agent!AtLeast(stats.ports, p.ports), hits |-> stats.hits + p.hits,
                    window |-> stats.window + p.window]
        BY <2>1, <2>3, Zenon DEF Agent!IPStats
    <2>5. stats' \in Agent!IPStats
        BY <1>1, <2>1, <2>2, <2>4 DEF Agent!IPStats
    <2> QED BY <1>2, <2>5 DEF Remembered
<1> QED BY <1>3, <1>4

\* The most hits of the lookback window are those of one of its buckets.
LEMMA LoadedIsSeen ==
    ASSUME AgentConstants, Remembered, NEW d \in Agent!Directions
    PROVE  \E a \in 1 .. Lookback : Agent!LoadSignals(d) = rows[d][a]
<1> DEFINE S == {rows[d][a] : a \in 1 .. Lookback}
<1>1. S \in SUBSET Nat /\ S # {}
    <2>1. 1 \in 1 .. Lookback
        BY BoundsFacts
    <2>2. \A a \in 1 .. Lookback : a \in 0 .. Lookback /\ rows[d][a] \in Nat
        BY BoundsFacts DEF Remembered, Agent!Buckets
    <2> QED BY <2>1, <2>2
<1>2. PICK most \in Nat : \A x \in S : x <= most
    <2>1. PICK most \in Nat : \A a \in 0 .. Lookback : rows[d][a] <= most
        BY DEF Remembered
    <2>2. \A a \in 1 .. Lookback : a \in 0 .. Lookback
        BY BoundsFacts
    <2> QED BY <2>1, <2>2
<1> HIDE DEF S
<1>3. Agent!Max(S) \in S
    BY <1>1, <1>2, MaxIsMember
<1> QED BY <1>3 DEF S, Agent!LoadSignals

\* For inbound traffic they were seen since the address was last away.
LEMMA LoadSignalsFacts ==
    ASSUME AgentConstants, Remembered, NEW d \in Agent!Directions
    PROVE  Agent!LoadSignals(d) \in Nat /\ (d = "inbound" => Agent!LoadSignals(d) <= chain)
<1>1. PICK a \in 1 .. Lookback : Agent!LoadSignals(d) = rows[d][a]
    BY LoadedIsSeen
<1>2. a \in 0 .. Lookback
    BY BoundsFacts
<1>3. rows \in [Agent!Directions -> [0 .. Lookback -> Nat]]
    BY DEF Remembered, Agent!Buckets
<1>4. rows[d][a] \in Nat
    BY <1>2, <1>3
<1>5. d = "inbound" => rows[d][a] <= chain
    BY <1>2 DEF Remembered
<1> QED BY <1>1, <1>4, <1>5

\* calculateScoreContexts: what is scored, and what of it goes to the history.
LEMMA ScoreRemembers ==
    ASSUME AgentConstants, Remembered, NEW loads \in BOOLEAN, NEW persists \in BOOLEAN,
           Agent!Score(loads, persists)
    PROVE  Remembered' /\ (verdict'.direction = "inbound" => verdict'.hits <= chain')
<1> DEFINE d == stats.direction
           hits == IF loads THEN Agent!AtLeast(stats.hits, Agent!LoadSignals(d)) ELSE stats.hits
<1>1. stats \in Agent!IPStats /\ stats' = stats /\ stats.hits \in Nat /\ d \in Agent!Directions
    BY DEF Remembered, Agent!Score, Agent!IPStats
<1>2. verdict'.direction = d /\ verdict'.hits = hits
    BY DEF Agent!Score
<1>3. rows' = rows \/ rows' = [rows EXCEPT ![d][0] = Agent!AtLeast(hits, @)]
    BY DEF Agent!Score, Agent!PersistBucket
<1>7. hits \in Nat
    BY <1>1, LoadSignalsFacts, AtLeastFacts
<1>6. \E most \in Nat : \A e \in Agent!Directions, a \in 0 .. Lookback : rows'[e][a] <= most
    <2>1. PICK most \in Nat : \A e \in Agent!Directions, a \in 0 .. Lookback : rows[e][a] <= most
        BY DEF Remembered
    <2>2. 0 \in 0 .. Lookback /\ rows[d][0] \in Nat /\ rows[d][0] <= most
        BY <1>1, <2>1, BoundsFacts DEF Remembered, Agent!Buckets
    <2> DEFINE top == Agent!AtLeast(hits, rows[d][0])
    <2>3. top \in Nat /\ top <= hits + most
        <3> HIDE DEF hits
        <3> QED BY <1>7, <2>2, AtLeastFacts
    <2>4. rows' = rows \/ rows' = [rows EXCEPT ![d][0] = top]
        BY <1>3
    <2> HIDE DEF top, hits
    <2>5. \A e \in Agent!Directions, a \in 0 .. Lookback : rows'[e][a] <= hits + most
        <3> SUFFICES ASSUME NEW e \in Agent!Directions, NEW a \in 0 .. Lookback
                     PROVE  rows'[e][a] <= hits + most
            OBVIOUS
        <3>1. rows \in [Agent!Directions -> [0 .. Lookback -> Nat]] /\ rows[e][a] <= most
            BY <2>1 DEF Remembered, Agent!Buckets
        <3>2. rows[e][a] \in Nat
            BY <3>1
        <3>3. rows[e][a] <= hits + most
            BY <1>7, <3>1, <3>2
        <3> HIDE DEF d
        <3>4. rows'[e][a] \in {rows[e][a], top}
            BY <1>1, <2>2, <2>4, <3>1
        <3> QED BY <2>3, <3>3, <3>4
    <2> QED BY <1>7, <2>5
<1>4. CASE d = "outbound"
    <2>1. UNCHANGED <<chain, away>>
        BY <1>4 DEF Agent!Score
    <2>2. rows' \in Agent!Buckets /\ rows'["inbound"] = rows["inbound"]
        <3>1. CASE rows' = rows
            BY <3>1 DEF Remembered
        <3>2. CASE rows' # rows
            <4>1. rows' = [rows EXCEPT !["outbound"][0] = Agent!AtLeast(hits, @)]
                BY <1>3, <1>4, <3>2
            <4>2. hits \in Nat
                BY <1>1, <1>4, LoadSignalsFacts, AtLeastFacts
            <4>3. 0 \in 0 .. Lookback /\ rows["outbound"][0] \in Nat
                BY BoundsFacts DEF Remembered, Agent!Buckets, Agent!Directions
            <4>4. Agent!AtLeast(hits, rows["outbound"][0]) \in Nat
                BY <4>2, <4>3, AtLeastFacts
            <4> HIDE DEF hits
            <4> QED BY <4>1, <4>3, <4>4 DEF Remembered, Agent!Buckets, Agent!Directions
        <3> QED BY <3>1, <3>2
    <2>3. \E most \in Nat : \A e \in Agent!Directions, a \in 0 .. Lookback : rows'[e][a] <= most
        BY <1>6
    <2> QED BY <1>1, <1>2, <1>4, <2>1, <2>2, <2>3 DEF Remembered
<1>5. CASE d = "inbound"
    <2>1. away' = 0 /\ chain' = Agent!AtLeast(stats.hits, chain)
        BY <1>5 DEF Agent!Score
    <2>2. chain' \in Nat /\ chain' >= stats.hits /\ chain' >= chain
        BY <1>1, <2>1, AtLeastFacts DEF Remembered
    <2>3. hits \in Nat /\ hits <= chain'
        <3>1. Agent!LoadSignals(d) \in Nat /\ Agent!LoadSignals(d) <= chain /\ chain \in Nat
            BY <1>1, <1>5, LoadSignalsFacts DEF Remembered
        <3>2. Agent!AtLeast(stats.hits, Agent!LoadSignals(d)) \in {stats.hits, Agent!LoadSignals(d)}
            BY <1>1, <3>1, AtLeastFacts
        <3> HIDE DEF d
        <3>3. hits \in {stats.hits, Agent!LoadSignals(d)}
            BY <3>2
        <3> QED BY <1>7, <2>2, <3>1, <3>3
    <2>4. 0 \in 0 .. Lookback /\ 0 \in 0 .. Lookback + 1
        BY BoundsFacts
    <2>5. \A a \in 0 .. Lookback : rows["inbound"][a] \in Nat /\ rows["inbound"][a] <= chain'
        <3> SUFFICES ASSUME NEW a \in 0 .. Lookback
                     PROVE  rows["inbound"][a] \in Nat /\ rows["inbound"][a] <= chain'
            OBVIOUS
        <3>1. rows["inbound"][a] \in Nat
            BY DEF Remembered, Agent!Buckets, Agent!Directions
        <3>2. rows["inbound"][a] <= chain /\ chain \in Nat
            BY DEF Remembered
        <3> QED BY <2>2, <3>1, <3>2
    <2>6. /\ rows' \in Agent!Buckets
          /\ \A a \in 0 .. Lookback : rows'["inbound"][a] <= chain'
        <3>1. CASE rows' = rows
            BY <2>5, <3>1 DEF Remembered
        <3>2. CASE rows' # rows
            <4> DEFINE top == Agent!AtLeast(hits, rows["inbound"][0])
            <4>1. rows' = [rows EXCEPT !["inbound"][0] = top]
                BY <1>3, <1>5, <3>2
            <4>2. top \in Nat /\ top <= chain'
                <5> HIDE DEF hits
                <5> QED BY <2>3, <2>4, <2>5, AtLeastFacts
            <4> HIDE DEF top
            <4> QED BY <2>4, <2>5, <4>1, <4>2 DEF Remembered, Agent!Buckets, Agent!Directions
        <3> QED BY <3>1, <3>2
    <2>7. \A a \in 0 .. Lookback : ~(a < away')
        BY <2>1, BoundsFacts
    <2> HIDE DEF hits
    <2>8. Remembered'
        BY <1>1, <2>1, <2>2, <2>4, <2>6, <2>7, <1>6 DEF Remembered
    <2> QED BY <1>2, <2>3, <2>8
<1> QED BY <1>1, <1>4, <1>5 DEF Agent!Directions

\* A bucket ends: every row grows older, and the chain is broken by a whole window away.
LEMMA TickRemembers ==
    ASSUME AgentConstants
    PROVE  Remembered /\ Agent!Tick => Remembered'
<1> SUFFICES ASSUME Remembered, Agent!Tick PROVE Remembered'
    OBVIOUS
<1>1. /\ rows \in [Agent!Directions -> [0 .. Lookback -> Nat]]
      /\ chain \in Nat /\ away \in 0 .. Lookback + 1
    BY DEF Remembered, Agent!Buckets
<1>2. PICK most \in Nat : \A d \in Agent!Directions, a \in 0 .. Lookback : rows[d][a] <= most
    BY DEF Remembered
<1>3. \A a \in 1 .. Lookback : a - 1 \in 0 .. Lookback
    BY BoundsFacts
<1>4. rows' = [d \in Agent!Directions |->
                   [a \in 0 .. Lookback |-> IF a = 0 THEN 0 ELSE rows[d][a - 1]]]
    BY DEF Agent!Tick
<1>5. \A d \in Agent!Directions, a \in 0 .. Lookback :
          rows'[d][a] = IF a = 0 THEN 0 ELSE rows[d][a - 1]
    BY <1>4
<1>6. \A a \in 0 .. Lookback : a = 0 \/ a \in 1 .. Lookback
    BY BoundsFacts
<1>7. rows' \in Agent!Buckets
    BY <1>1, <1>3, <1>4, <1>6 DEF Agent!Buckets
<1>8. \A d \in Agent!Directions, a \in 0 .. Lookback : rows'[d][a] <= most
    BY <1>2, <1>3, <1>5, <1>6
<1>9. away' = IF away + 1 <= Lookback + 1 THEN away + 1 ELSE Lookback + 1
    BY <1>1, BoundsFacts, AtMostFacts DEF Agent!Tick
<1>10. away' \in 0 .. Lookback + 1
    BY <1>1, <1>9, BoundsFacts
<1>11. chain' = IF away >= Lookback THEN 0 ELSE chain
    BY DEF Agent!Tick
<1>12. ASSUME NEW a \in 0 .. Lookback
       PROVE  rows'["inbound"][a] <= chain' /\ (a < away' => rows'["inbound"][a] = 0)
    <2>1. CASE a = 0
        <3>1. rows'["inbound"][a] = 0 /\ chain' \in Nat
            BY <2>1, <1>1, <1>5, <1>11 DEF Agent!Directions
        <3> QED BY <3>1
    <2>2. CASE a \in 1 .. Lookback
        <3>1. rows'["inbound"][a] = rows["inbound"][a - 1]
            BY <1>5, <2>2, BoundsFacts DEF Agent!Directions
        <3>2. /\ rows["inbound"][a - 1] <= chain
              /\ a - 1 < away => rows["inbound"][a - 1] = 0
            BY <1>3, <2>2 DEF Remembered
        <3>3. a - 1 < Lookback /\ (a < away' => a - 1 < away)
            BY <1>1, <1>9, <2>2, BoundsFacts
        <3>4. away >= Lookback => a - 1 < away
            BY <1>1, <2>2, <3>3, BoundsFacts
        <3> QED BY <3>1, <3>2, <3>3, <3>4, <1>11
    <2> QED BY <1>6, <2>1, <2>2
<1>13. stats' = Agent!None \/ stats' \in Agent!IPStats
    BY DEF Remembered, Agent!Tick
<1>14. chain' \in Nat
    BY <1>1, <1>11
<1>15. \E b \in Nat : \A d \in Agent!Directions, a \in 0 .. Lookback : rows'[d][a] <= b
    BY <1>2, <1>8
<1> QED
    BY <1>7, <1>10, <1>12, <1>13, <1>14, <1>15 DEF Remembered

\* The hits scored in this step are the address's own.
Own ==
    verdict = Agent!None /\ verdict' # Agent!None /\ verdict'.direction = "inbound"
        => verdict'.hits <= chain'

\* Every step keeps the memory, and scores only what belongs to it.
LEMMA MemoryStep ==
    ASSUME AgentConstants
    PROVE  Remembered /\ [Agent!Next]_(Agent!vars) => Remembered' /\ (Own \/ UNCHANGED Agent!vars)
<1> SUFFICES ASSUME Remembered, [Agent!Next]_(Agent!vars)
             PROVE  Remembered' /\ (Own \/ UNCHANGED Agent!vars)
    OBVIOUS
<1>1. ASSUME NEW a \in Arrivals, Agent!Arrive(a[1], a[2]) PROVE Remembered' /\ Own
    <2>1. Remembered'
        BY <1>1, ArriveRemembers
    <2> QED BY <1>1, <2>1 DEF Agent!Arrive, Own
<1>2. ASSUME NEW loads \in BOOLEAN, NEW persists \in BOOLEAN, Agent!Score(loads, persists)
      PROVE  Remembered' /\ Own
    BY <1>2, ScoreRemembers DEF Own
<1>3. CASE Agent!Tick
    BY <1>3, TickRemembers DEF Agent!Tick, Own
<1>4. ASSUME NEW keeps \in BOOLEAN, Agent!Deliver(keeps) PROVE Remembered' /\ Own
    BY <1>4 DEF Agent!Deliver, Remembered, Own
<1>5. CASE Agent!Restart
    BY <1>5 DEF Agent!Restart, Remembered, Own
<1>6. UNCHANGED <<stats, rows, chain, away>> /\ (verdict' = verdict \/ verdict' = Agent!None)
          => Remembered' /\ Own
    BY DEF Remembered, Own
<1>7. UNCHANGED Agent!vars => UNCHANGED <<stats, rows, chain, away>> /\ verdict' = verdict
    BY DEF Agent!vars, Agent!flush
<1>8. ASSUME \/ Agent!Skip
             \/ \E new \in BOOLEAN :
                   Agent!Judge(new) \/ Agent!OverBudget(new) \/ Agent!Other(new)
             \/ Agent!Block \/ Agent!Limit \/ Agent!ActFails
             \/ Agent!Forget \/ Agent!Expire \/ Agent!LimitExpires \/ Agent!Commands
      PROVE  UNCHANGED <<stats, rows, chain, away>> /\ (verdict' = verdict \/ verdict' = Agent!None)
    BY <1>8
    DEF Agent!Skip, Agent!Judge, Agent!OverBudget, Agent!Other, Agent!Block, Agent!Limit,
        Agent!ActFails, Agent!Forget, Agent!Expire, Agent!LimitExpires, Agent!Commands,
        Agent!RateLimitCommand, Agent!BlockCommand, Agent!Unlist, Agent!UnblockCommand,
        Agent!flush
<1> QED
    BY <1>1, <1>2, <1>3, <1>4, <1>5, <1>6, <1>7, <1>8
    DEF Agent!Next, Agent!Flush, Agent!Process, Agent!Traffic, Agent!Time

\* The hits that calculateScoreContexts scores of inbound traffic are the address's own,
\* inbound, and of a time in which it was never away for the whole lookback window.
THEOREM MemoryOfItsOwn ==
    ASSUME AgentConstants
    PROVE  Agent!Spec => Agent!MemoryIsOwn
<1>1. Agent!Init => Remembered
    <2> SUFFICES ASSUME Agent!Init PROVE Remembered
        OBVIOUS
    <2>1. rows = [d \in Agent!Directions |-> [a \in 0 .. Lookback |-> 0]]
        BY DEF Agent!Init, Agent!NoRows
    <2>2. rows \in Agent!Buckets /\ \A d \in Agent!Directions, a \in 0 .. Lookback : rows[d][a] = 0
        BY <2>1 DEF Agent!Buckets
    <2>3. Lookback + 1 \in 0 .. Lookback + 1
        BY BoundsFacts
    <2>4. \E most \in Nat : \A d \in Agent!Directions, a \in 0 .. Lookback : rows[d][a] <= most
        BY <2>2
    <2> QED BY <2>2, <2>3, <2>4 DEF Agent!Init, Remembered, Agent!Directions
<1>2. Remembered /\ [Agent!Next]_(Agent!vars) => [Own]_(Agent!vars)
    BY MemoryStep
<1> QED BY <1>1, <1>2, MemoryStep, PTL DEF Agent!Spec, Agent!MemoryIsOwn, Own
=============================================================================
