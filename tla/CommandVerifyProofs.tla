------------------------ MODULE CommandVerifyProofs ------------------------
(***************************************************************************)
(* Proofs about CommandVerify, for any set of goroutines, any messages and *)
(* any number of starts.                                                   *)
(*                                                                         *)
(* NoReplay alone is not inductive: it needs that a message under          *)
(* verification lies above everything its caller accepted (InFlightAbove), *)
(* which the later Check relies on AcceptedCovered for, which in turn      *)
(* needs that a recorded nonce is still covered when it is persisted.      *)
(***************************************************************************)
EXTENDS CommandVerify, TLAPS

Busy == {"checked", "verified", "recorded", "truncated"}

\* The newest accepted nonce of a caller bounds what it accepted.
NewestIsBound ==
    \A c \in Callers :
        /\ newest[c] <= lastSeen
        /\ \A m \in accepted[c] : Nonce[m] <= newest[c]

InFlightAbove ==
    \A c \in Callers : pc[c] \in Busy => Nonce[msg[c]] > newest[c]

InFlightGenuine ==
    \A c \in Callers : pc[c] \in {"verified", "recorded", "truncated"} => msg[c] \in Genuine

InFlightCovered ==
    \A c \in Callers : pc[c] \in {"recorded", "truncated"} => Nonce[msg[c]] <= lastSeen

IInv ==
    /\ TypeOK
    /\ NewestIsBound
    /\ InFlightAbove
    /\ InFlightGenuine
    /\ InFlightCovered
    /\ OnlyGenuineAdvance
    /\ DiskBehindMemory

\* The initial state satisfies the inductive invariant.
LEMMA InitIInv == Init => IInv
<1> SUFFICES ASSUME Init PROVE IInv
  OBVIOUS
<1>1. TypeOK
  BY DEF Init, TypeOK
<1>2. NewestIsBound /\ OnlyGenuineAdvance /\ DiskBehindMemory
  BY DEF Init, NewestIsBound, OnlyGenuineAdvance, DiskBehindMemory
<1>3. InFlightAbove /\ InFlightGenuine /\ InFlightCovered
  BY DEF Init, InFlightAbove, InFlightGenuine, InFlightCovered, Busy
<1>4. QED
  BY <1>1, <1>2, <1>3 DEF IInv

\* A caller that gives up its message disturbs no part of the invariant.
LEMMA RejectIInv ==
  ASSUME IInv, NEW c \in Callers, Reject(c),
         UNCHANGED <<lastSeen, disk, expired, accepted, newest, boots>>
  PROVE  IInv'
  BY MessagesAssumption
  DEF Reject, IInv, TypeOK, NewestIsBound, InFlightAbove, InFlightGenuine,
      InFlightCovered, OnlyGenuineAdvance, DiskBehindMemory, Busy, Inbox, Commands

\* NonceTracker.Check lets through only what lies above lastSeen, hence above
\* everything this caller accepted.
LEMMA CheckIInv ==
  ASSUME IInv, NEW c \in Callers, NEW m \in Messages, Check(c, m)
  PROVE  IInv'
<1> USE MessagesAssumption DEF Check, IInv, Busy, Inbox, Commands
<1>1. TypeOK'
  BY DEF TypeOK
<1>2. NewestIsBound' /\ OnlyGenuineAdvance' /\ DiskBehindMemory'
  BY DEF NewestIsBound, OnlyGenuineAdvance, DiskBehindMemory
<1>3. InFlightAbove'
  BY DEF TypeOK, NewestIsBound, InFlightAbove, CheckOK
<1>4. InFlightGenuine' /\ InFlightCovered'
  BY DEF TypeOK, InFlightGenuine, InFlightCovered
<1>5. QED
  BY <1>1, <1>2, <1>3, <1>4

\* A message passes Verify only if its HMAC does.
LEMMA VerifyIInv ==
  ASSUME IInv, NEW c \in Callers, Verify(c)
  PROVE  IInv'
<1>1. CASE Authentic(msg[c])
  BY <1>1, MessagesAssumption
  DEF Verify, Authentic, IInv, TypeOK, NewestIsBound, InFlightAbove, InFlightGenuine,
      InFlightCovered, OnlyGenuineAdvance, DiskBehindMemory, Busy, Inbox, Commands
<1>2. CASE ~Authentic(msg[c])
  BY <1>2, RejectIInv DEF Verify
<1>3. QED
  BY <1>1, <1>2

\* Record only raises lastSeen, so what was covered stays covered.
LEMMA RecordIInv ==
  ASSUME IInv, NEW c \in Callers, Record(c)
  PROVE  IInv'
<1> USE MessagesAssumption DEF Record, RecordNonce, Max2, IInv
<1>1. /\ msg[c] \in Messages
      /\ Nonce[msg[c]] \in Int
      /\ lastSeen \in Nat /\ disk \in Nat
      /\ newest \in [Callers -> Nat]
      /\ Nonce[msg[c]] > newest[c]
  BY DEF TypeOK, Inbox, Commands, InFlightAbove, Busy
<1>2. lastSeen' \in Nat /\ lastSeen' >= lastSeen /\ lastSeen' >= Nonce[msg[c]]
  BY <1>1
<1>3. TypeOK'
  BY <1>2 DEF TypeOK, Inbox, Commands
<1>4. NewestIsBound'
  BY <1>1, <1>2 DEF NewestIsBound, TypeOK
<1>5. InFlightAbove' /\ InFlightGenuine'
  BY DEF InFlightAbove, InFlightGenuine, TypeOK, Busy
<1>6. InFlightCovered'
  <2>1. ASSUME NEW d \in Callers, pc'[d] \in {"recorded", "truncated"}
        PROVE  Nonce[msg'[d]] <= lastSeen'
    <3>1. CASE d = c
      BY <1>1, <1>2, <3>1
    <3>2. CASE d # c
      <4>1. pc[d] \in {"recorded", "truncated"} /\ msg'[d] = msg[d]
        BY <2>1, <3>2 DEF TypeOK
      <4>2. Nonce[msg[d]] \in Int /\ Nonce[msg[d]] <= lastSeen
        BY <4>1 DEF TypeOK, Inbox, Commands, InFlightCovered
      <4>3. QED
        BY <1>1, <1>2, <4>1, <4>2
    <3>3. QED
      BY <3>1, <3>2
  <2>2. QED
    BY <2>1 DEF InFlightCovered
<1>7. OnlyGenuineAdvance'
  BY <1>1 DEF OnlyGenuineAdvance, InFlightGenuine
<1>8. DiskBehindMemory'
  BY <1>1, <1>2 DEF DiskBehindMemory
<1>9. QED
  BY <1>3, <1>4, <1>5, <1>6, <1>7, <1>8

\* The file is emptied.
LEMMA TruncateIInv ==
  ASSUME IInv, NEW c \in Callers, Truncate(c)
  PROVE  IInv'
<1> USE DEF Truncate, IInv
<1>1. TypeOK'
  BY DEF TypeOK, Inbox, Commands
<1>2. NewestIsBound' /\ OnlyGenuineAdvance' /\ DiskBehindMemory'
  BY DEF NewestIsBound, OnlyGenuineAdvance, DiskBehindMemory, TypeOK
<1>3. InFlightAbove' /\ InFlightGenuine' /\ InFlightCovered'
  BY DEF InFlightAbove, InFlightGenuine, InFlightCovered, Busy, TypeOK
<1>4. QED
  BY <1>1, <1>2, <1>3

\* The file takes a nonce that is genuine and covered, whatever other callers
\* recorded meanwhile, or a smaller number.
LEMMA PersistIInv ==
  ASSUME IInv, NEW c \in Callers, Persist(c)
  PROVE  IInv'
<1> USE MessagesAssumption DEF Persist, Reject, IInv, Busy
<1>1. /\ msg[c] \in Genuine /\ msg[c] \in Messages
      /\ Nonce[msg[c]] \in Int
      /\ Nonce[msg[c]] > newest[c]
      /\ Nonce[msg[c]] <= lastSeen
      /\ lastSeen \in Nat /\ disk \in Nat
      /\ newest[c] \in Nat
  BY DEF TypeOK, InFlightGenuine, InFlightAbove, InFlightCovered
<1>2. Nonce[msg[c]] \in Nat
  BY <1>1
<1>3. disk' \in Nat /\ disk' <= lastSeen /\ (disk' = disk \/ disk' <= Nonce[msg[c]])
  BY <1>1, <1>2 DEF DiskBehindMemory, Written
<1>4. TypeOK'
  BY <1>1, <1>2, <1>3 DEF TypeOK, Inbox, Commands
<1>5. NewestIsBound'
  <2>1. ASSUME NEW d \in Callers
        PROVE  /\ newest'[d] <= lastSeen'
               /\ \A m \in accepted'[d] : Nonce[m] <= newest'[d]
    <3>1. CASE d = c
      <4>1. newest'[d] = Nonce[msg[c]] /\ accepted'[d] = accepted[c] \cup {msg[c]}
        BY <3>1 DEF TypeOK
      <4>2. ASSUME NEW m \in accepted[c]
            PROVE  Nonce[m] <= Nonce[msg[c]]
        <5>1. Nonce[m] \in Int /\ Nonce[m] <= newest[c]
          BY DEF TypeOK, NewestIsBound
        <5>2. QED
          BY <1>1, <5>1
      <4>3. QED
        BY <1>1, <4>1, <4>2
    <3>2. CASE d # c
      BY <3>2 DEF TypeOK, NewestIsBound
    <3>3. QED
      BY <3>1, <3>2
  <2>2. QED
    BY <2>1 DEF NewestIsBound
<1>6. InFlightAbove' /\ InFlightGenuine' /\ InFlightCovered'
  BY DEF TypeOK, InFlightAbove, InFlightGenuine, InFlightCovered
<1>7. OnlyGenuineAdvance'
  BY <1>1, <1>3 DEF OnlyGenuineAdvance
<1>8. DiskBehindMemory'
  BY <1>3 DEF DiskBehindMemory
<1>9. QED
  BY <1>4, <1>5, <1>6, <1>7, <1>8

\* A restart empties the tracker down to the file, and forgets what was accepted.
LEMMA RestartIInv ==
  ASSUME IInv, Restart
  PROVE  IInv'
  BY MessagesAssumption
  DEF Restart, IInv, TypeOK, NewestIsBound, InFlightAbove, InFlightGenuine,
      InFlightCovered, OnlyGenuineAdvance, DiskBehindMemory, Busy, Inbox, Commands

\* Every step preserves the inductive invariant.
LEMMA NextIInv == IInv /\ [Next]_vars => IInv'
<1> SUFFICES ASSUME IInv, [Next]_vars
             PROVE  IInv'
  OBVIOUS
<1>1. ASSUME NEW c \in Callers, NEW m \in Messages, Check(c, m)
      PROVE  IInv'
  BY <1>1, CheckIInv
<1>2. ASSUME NEW c \in Callers, Verify(c)
      PROVE  IInv'
  BY <1>2, VerifyIInv
<1>3. ASSUME NEW c \in Callers, Record(c)
      PROVE  IInv'
  BY <1>3, RecordIInv
<1>4. ASSUME NEW c \in Callers, Truncate(c) \/ Persist(c)
      PROVE  IInv'
  BY <1>4, TruncateIInv, PersistIInv
<1>5. ASSUME NEW m \in Commands, Expire(m)
      PROVE  IInv'
  BY <1>5
  DEF Expire, IInv, TypeOK, NewestIsBound, InFlightAbove, InFlightGenuine,
      InFlightCovered, OnlyGenuineAdvance, DiskBehindMemory, Inbox
<1>6. CASE Restart
  BY <1>6, RestartIInv
<1>7. CASE UNCHANGED vars
  BY <1>7
  DEF vars, IInv, TypeOK, NewestIsBound, InFlightAbove, InFlightGenuine,
      InFlightCovered, OnlyGenuineAdvance, DiskBehindMemory, Inbox
<1>8. QED
  BY <1>1, <1>2, <1>3, <1>4, <1>5, <1>6, <1>7 DEF Next

\* The inductive invariant holds throughout.
LEMMA Invariance == Spec => []IInv
<1>1. QED
  BY InitIInv, NextIInv, PTL DEF Spec

\* Type correctness of the verification state.
THEOREM TypeCorrect == Spec => []TypeOK
<1>1. IInv => TypeOK
  BY DEF IInv
<1>2. QED
  BY <1>1, Invariance, PTL

\* No message is accepted twice by the goroutine that verifies it, for any
\* interleaving of any number of goroutines (NonceTracker: "Prevents replay
\* attacks").
THEOREM ReplayFreedom == Spec => []NoReplay
<1>1. IInv => NoReplay
  BY MessagesAssumption
  DEF IInv, TypeOK, NoReplay, InFlightAbove, NewestIsBound, Busy, Inbox, Commands
<1>2. QED
  BY <1>1, Invariance, PTL

\* Every later check refuses what any goroutine accepted.
THEOREM CoverageHolds == Spec => []AcceptedCovered
<1>1. IInv => AcceptedCovered
  BY MessagesAssumption DEF IInv, TypeOK, NewestIsBound, AcceptedCovered
<1>2. QED
  BY <1>1, Invariance, PTL

\* A message that does not verify moves neither the tracker nor the file.
THEOREM ForgeriesPowerless == Spec => []OnlyGenuineAdvance
<1>1. IInv => OnlyGenuineAdvance
  BY DEF IInv
<1>2. QED
  BY <1>1, Invariance, PTL

\* The file never runs ahead of the tracker.
THEOREM DiskNeverAhead == Spec => []DiskBehindMemory
<1>1. IInv => DiskBehindMemory
  BY DEF IInv
<1>2. QED
  BY <1>1, Invariance, PTL

\* The tracker falls only at a restart, and to the value of the file.
THEOREM TrackerMonotone == Spec => MonotoneTracker
<1>1. IInv /\ [Next]_vars => [lastSeen' < lastSeen => boots' > boots /\ lastSeen' = disk]_vars
  <2> SUFFICES ASSUME IInv, [Next]_vars, ~UNCHANGED vars, lastSeen' < lastSeen
               PROVE  boots' > boots /\ lastSeen' = disk
    OBVIOUS
  <2>1. lastSeen \in Nat /\ boots \in Nat
    BY DEF IInv, TypeOK
  <2>2. ASSUME NEW c \in Callers, Record(c)
        PROVE  FALSE
    <3>1. Nonce[msg[c]] \in Int
      BY <2>2, MessagesAssumption DEF Record, IInv, TypeOK, Inbox, Commands
    <3>2. QED
      BY <2>1, <2>2, <3>1 DEF Record, RecordNonce, Max2
  <2>3. CASE Restart
    BY <2>1, <2>3 DEF Restart
  <2>4. CASE lastSeen' = lastSeen
    BY <2>1, <2>4
  <2>5. QED
    BY <2>2, <2>3, <2>4 DEF Next, Check, Verify, Truncate, Persist, Expire
<1>2. QED
  BY <1>1, Invariance, PTL DEF Spec, MonotoneTracker

\* The receive loop implements the atomic guard: every step of the three-phase
\* verification is an acceptance above the last, a restart, or a stutter of it.
THEOREM Implementation == Spec => ReceiveLoopGuarded
<1>1. Init => Guard!Init
  BY CallersAssumption DEF Init, Guard!Init
<1>2. IInv /\ [Next]_vars => [Guard!Next]_(newest[ReceiveLoop])
  <2> SUFFICES ASSUME IInv, [Next]_vars
               PROVE  [Guard!Next]_(newest[ReceiveLoop])
    OBVIOUS
  <2> USE CallersAssumption DEF Guard!Next
  <2>1. ASSUME NEW c \in Callers, Persist(c)
        PROVE  [Guard!Next]_(newest[ReceiveLoop])
    <3>1. /\ Nonce[msg[c]] \in Int /\ Nonce[msg[c]] > newest[c]
          /\ newest \in [Callers -> Nat]
      BY <2>1, MessagesAssumption
      DEF Persist, IInv, TypeOK, InFlightAbove, Busy, Inbox, Commands
    <3>2. newest' = [newest EXCEPT ![c] = Nonce[msg[c]]]
      BY <2>1 DEF Persist
    <3>3. QED
      BY <3>1, <3>2 DEF Guard!Accept
  <2>2. CASE Restart
    BY <2>2 DEF Restart, Guard!Restart
  <2>3. CASE newest' = newest
    BY <2>3
  <2>4. QED
    BY <2>1, <2>2, <2>3 DEF Next, Check, Verify, Record, Truncate, Expire, vars
<1>3. QED
  BY <1>1, <1>2, Invariance, PTL DEF Spec, ReceiveLoopGuarded, Guard!Spec
============================================================================
