------------------------ MODULE TelemetryFlushProofs ------------------------
(***************************************************************************)
(* What holds of TelemetryFlush for any set of events and addresses, any   *)
(* limits and any number of failures.                                      *)
(*                                                                         *)
(* Neither property is inductive.  That nothing vanishes rests on what the *)
(* batch in flight and the rows that a retry pass has sent have to do with *)
(* the table and the buffer; that nothing is counted twice on an event     *)
(* being in one row at most, and on which rows the pass has sent.          *)
(***************************************************************************)
EXTENDS TelemetryFlush, FiniteSetTheorems, SequenceTheorems, TLAPS

\* At most one event is between its lookup and its update.
OneHeld == held = {} \/ \E e \in Events : held = {e}

\* What is counted, stored or lost was seen.
OnlySeen ==
    /\ EventsOf(batch) \subseteq seen /\ InTable \subseteq seen
    /\ InRows(buffer) \subseteq seen /\ InRows(pending) \subseteq seen
    /\ Received \subseteq seen

\* FlushToAPI and the event loop share the table: what has come in since the snapshot is
\* a racer, and what is in the snapshot is in the table unless it was dropped.
BatchOfTable ==
    /\ pc \in {"submit", "save", "clear"} => InTable \subseteq EventsOf(batch) \cup racers
    /\ pc \in {"submit", "save"} => EventsOf(batch) \subseteq InTable \cup dropped
    /\ pc = "clear" => EventsOf(batch) \subseteq Received \cup InRows(buffer) \cup dropped
    /\ pc \in {"submit", "save", "clear"} => held \subseteq racers
    /\ phase = "final" /\ pc = "idle" =>
           InTable \cup held \subseteq Received \cup InRows(buffer) \cup dropped \cup racers

\* ... and the entry that was looked up, which only Clear takes out of the table.
EntryOfHeld ==
    /\ attached => \A e \in held : Entries(Address[e]) # {}
    /\ ~attached => held \subseteq racers

\* A retry pass goes through what it loaded, and leaves nothing of it behind.
RetryPass ==
    /\ pc = "retry" <=> pending # <<>>
    /\ pc \in {"retry", "delete"} => InRows(buffer) \subseteq Received \cup InRows(pending)

\* A process that has exited has no goroutines and no memory.
Exited == phase = "exited" => pc = "idle" /\ table = <<>> /\ held = {}

\* Rows hold different events.
Disjoint(rows) ==
    \A i, j \in DOMAIN rows :
        i # j => EventsOf(rows[i]) \cap EventsOf(rows[j]) = {}

\* The shorter of two queues is the end of the other: one goroutine takes from the
\* front of what is pending and another from the front of the buffer.
SameEnd(p, q) ==
    \A k \in Nat : k < Len(p) /\ k < Len(q) => p[Len(p) - k] = q[Len(q) - k]

\* Nothing is in two of the table, the batch, the buffer and the backend, except what is
\* about to be cleared or deleted.
OnePlace ==
    /\ \A e \in Events : received[e] <= 1
    /\ Disjoint(buffer) /\ Disjoint(pending) /\ SameEnd(pending, buffer)
    /\ held \cap (Received \cup InRows(buffer) \cup InRows(pending) \cup EventsOf(batch)
                  \cup InTable) = {}
    /\ pc # "clear" =>
           InTable \cap (Received \cup InRows(buffer) \cup InRows(pending)) = {}
    /\ pc \in {"submit", "save"} =>
           EventsOf(batch) \cap (Received \cup InRows(buffer)) = {}
    /\ pc \notin {"retry", "delete"} => InRows(buffer) \cap Received = {}
    /\ InRows(pending) \cap Received = {}

IInv ==
    /\ TypeOK /\ OneHeld /\ OnlySeen /\ BatchOfTable /\ EntryOfHeld /\ RetryPass
    /\ Exited /\ OnlyRacersVanish
    /\ ~ambiguous /\ ~midway => OnePlace

----------------------------------------------------------------------------
(* Batches and rows.                                                       *)

LEMMA EventsOfIs ==
    ASSUME NEW b, NEW e
    PROVE  e \in EventsOf(b) <=> \E a \in DOMAIN b : e \in b[a]
BY Zenon DEF EventsOf, Range

LEMMA NoBatchIsEmpty == NoBatch \in Batches /\ EventsOf(NoBatch) = {}
<1>1. NoBatch \in [{} -> SUBSET Events] /\ DOMAIN NoBatch = {}
    BY DEF NoBatch
<1>2. NoBatch \in Batches
    BY <1>1 DEF Batches
<1>3. \A e : e \notin EventsOf(NoBatch)
    BY <1>1, EventsOfIs
<1> QED
    BY <1>2, <1>3

LEMMA BatchEvents == \A b \in Batches : EventsOf(b) \subseteq Events
<1> SUFFICES ASSUME NEW b \in Batches, NEW e \in EventsOf(b) PROVE e \in Events
    OBVIOUS
<1>1. PICK A \in SUBSET Addresses : b \in [A -> SUBSET Events]
    BY DEF Batches
<1>2. PICK a \in DOMAIN b : e \in b[a]
    BY EventsOfIs
<1> QED
    BY <1>1, <1>2

LEMMA InRowsIs ==
    ASSUME NEW rows, NEW e
    PROVE  e \in InRows(rows) <=> \E i \in DOMAIN rows : e \in EventsOf(rows[i])
BY Zenon DEF InRows

LEMMA NoRows == InRows(<<>>) = {}
<1>1. \A e : e \notin InRows(<<>>)
    BY InRowsIs
<1> QED
    BY <1>1

\* The row at the front and those behind it.
LEMMA RowsTail ==
    ASSUME NEW rows \in Seq(Batches), rows # <<>>
    PROVE  /\ Head(rows) \in Batches /\ Tail(rows) \in Seq(Batches)
           /\ InRows(rows) = EventsOf(Head(rows)) \cup InRows(Tail(rows))
<1>1. /\ Head(rows) \in Batches /\ Tail(rows) \in Seq(Batches)
      /\ Len(rows) \in Nat /\ Len(rows) > 0 /\ Head(rows) = rows[1]
      /\ DOMAIN rows = 1..Len(rows) /\ DOMAIN Tail(rows) = 1..(Len(rows) - 1)
      /\ \A i \in 1..(Len(rows) - 1) : Tail(rows)[i] = rows[i + 1]
    OBVIOUS
<1>2. ASSUME NEW e \in InRows(rows) PROVE e \in EventsOf(Head(rows)) \cup InRows(Tail(rows))
    <2>1. PICK i \in 1..Len(rows) : e \in EventsOf(rows[i])
        BY <1>1, InRowsIs
    <2>2. CASE i = 1
        BY <2>1, <2>2, <1>1
    <2>3. CASE i # 1
        <3>1. i - 1 \in 1..(Len(rows) - 1) /\ (i - 1) + 1 = i
            BY <2>3, <1>1
        <3>2. e \in EventsOf(Tail(rows)[i - 1])
            BY <3>1, <2>1, <1>1
        <3> QED
            BY <3>1, <3>2, <1>1, InRowsIs
    <2> QED
        BY <2>2, <2>3
<1>3. ASSUME NEW e \in EventsOf(Head(rows)) PROVE e \in InRows(rows)
    <2>1. 1 \in DOMAIN rows /\ e \in EventsOf(rows[1])
        BY <1>1
    <2> QED
        BY <2>1, InRowsIs
<1>4. ASSUME NEW e \in InRows(Tail(rows)) PROVE e \in InRows(rows)
    <2>1. PICK i \in 1..(Len(rows) - 1) : e \in EventsOf(Tail(rows)[i])
        BY <1>1, InRowsIs
    <2>2. i + 1 \in DOMAIN rows /\ e \in EventsOf(rows[i + 1])
        BY <2>1, <1>1
    <2> QED
        BY <2>2, InRowsIs
<1> QED
    BY <1>1, <1>2, <1>3, <1>4

LEMMA RowsAppend ==
    ASSUME NEW rows \in Seq(Batches), NEW b \in Batches
    PROVE  /\ Append(rows, b) \in Seq(Batches)
           /\ InRows(Append(rows, b)) = InRows(rows) \cup EventsOf(b)
<1> DEFINE q == Append(rows, b)
<1>1. /\ q \in Seq(Batches) /\ Len(rows) \in Nat
      /\ DOMAIN rows = 1..Len(rows) /\ DOMAIN q = 1..(Len(rows) + 1)
      /\ \A i \in 1..Len(rows) : q[i] = rows[i]
      /\ q[Len(rows) + 1] = b
    OBVIOUS
<1> HIDE DEF q
<1>2. ASSUME NEW e \in InRows(q) PROVE e \in InRows(rows) \cup EventsOf(b)
    <2>1. PICK i \in 1..(Len(rows) + 1) : e \in EventsOf(q[i])
        BY <1>1, InRowsIs
    <2>2. CASE i = Len(rows) + 1
        BY <2>1, <2>2, <1>1
    <2>3. CASE i # Len(rows) + 1
        <3>1. i \in 1..Len(rows)
            BY <2>3, <1>1
        <3> QED
            BY <3>1, <2>1, <1>1, InRowsIs
    <2> QED
        BY <2>2, <2>3
<1>3. ASSUME NEW e \in InRows(rows) PROVE e \in InRows(q)
    <2>1. PICK i \in 1..Len(rows) : e \in EventsOf(rows[i])
        BY <1>1, InRowsIs
    <2>2. i \in DOMAIN q /\ e \in EventsOf(q[i])
        BY <2>1, <1>1
    <2> QED
        BY <2>2, InRowsIs
<1>4. ASSUME NEW e \in EventsOf(b) PROVE e \in InRows(q)
    <2>1. Len(rows) + 1 \in DOMAIN q /\ e \in EventsOf(q[Len(rows) + 1])
        BY <1>1
    <2> QED
        BY <2>1, InRowsIs
<1> QED
    BY <1>1, <1>2, <1>3, <1>4 DEF q

\* Rows that are different stay so when the front is taken, and the front is in none of
\* those behind it.
LEMMA DisjointTail ==
    ASSUME NEW rows \in Seq(Batches), rows # <<>>, Disjoint(rows)
    PROVE  /\ Disjoint(Tail(rows))
           /\ EventsOf(Head(rows)) \cap InRows(Tail(rows)) = {}
<1>1. /\ Len(rows) \in Nat /\ Len(rows) > 0 /\ Head(rows) = rows[1]
      /\ DOMAIN rows = 1..Len(rows) /\ DOMAIN Tail(rows) = 1..(Len(rows) - 1)
      /\ \A i \in 1..(Len(rows) - 1) : Tail(rows)[i] = rows[i + 1]
    OBVIOUS
<1>2. Disjoint(Tail(rows))
    <2> SUFFICES ASSUME NEW i \in 1..(Len(rows) - 1), NEW j \in 1..(Len(rows) - 1), i # j
                 PROVE  EventsOf(Tail(rows)[i]) \cap EventsOf(Tail(rows)[j]) = {}
        BY <1>1 DEF Disjoint
    <2>1. i + 1 \in DOMAIN rows /\ j + 1 \in DOMAIN rows /\ i + 1 # j + 1
        BY <1>1
    <2>2. EventsOf(rows[i + 1]) \cap EventsOf(rows[j + 1]) = {}
        BY <2>1 DEF Disjoint
    <2> QED
        BY <2>2, <1>1
<1>3. ASSUME NEW e \in EventsOf(Head(rows)), e \in InRows(Tail(rows)) PROVE FALSE
    <2>1. PICK i \in 1..(Len(rows) - 1) : e \in EventsOf(Tail(rows)[i])
        BY <1>1, <1>3, InRowsIs
    <2>2. e \in EventsOf(rows[1]) /\ e \in EventsOf(rows[i + 1])
        BY <1>1, <1>3, <2>1
    <2>3. 1 \in DOMAIN rows /\ i + 1 \in DOMAIN rows /\ 1 # i + 1
        BY <1>1
    <2> QED
        BY <2>2, <2>3 DEF Disjoint
<1> QED
    BY <1>2, <1>3

LEMMA DisjointAppend ==
    ASSUME NEW rows \in Seq(Batches), Disjoint(rows), NEW b \in Batches,
           EventsOf(b) \cap InRows(rows) = {}
    PROVE  Disjoint(Append(rows, b))
<1> DEFINE q == Append(rows, b)
<1>1. /\ q \in Seq(Batches) /\ Len(rows) \in Nat
      /\ DOMAIN rows = 1..Len(rows) /\ DOMAIN q = 1..(Len(rows) + 1)
      /\ \A i \in 1..Len(rows) : q[i] = rows[i]
      /\ q[Len(rows) + 1] = b
    OBVIOUS
<1> HIDE DEF q
<1>2. \A i \in 1..Len(rows) : EventsOf(rows[i]) \subseteq InRows(rows)
    BY <1>1, InRowsIs
<1>3. ASSUME NEW i \in 1..(Len(rows) + 1), NEW j \in 1..(Len(rows) + 1), i # j
      PROVE  EventsOf(q[i]) \cap EventsOf(q[j]) = {}
    <2>1. CASE i \in 1..Len(rows) /\ j \in 1..Len(rows)
        <3>1. EventsOf(rows[i]) \cap EventsOf(rows[j]) = {}
            BY <1>3, <2>1, <1>1, Zenon DEF Disjoint
        <3> QED
            BY <3>1, <2>1, <1>1
    <2>2. CASE i = Len(rows) + 1 /\ j \in 1..Len(rows)
        BY <2>2, <1>1, <1>2
    <2>3. CASE i \in 1..Len(rows) /\ j = Len(rows) + 1
        BY <2>3, <1>1, <1>2
    <2> QED
        BY <1>3, <1>1, <2>1, <2>2, <2>3
<1>4. Disjoint(q)
    BY <1>1, <1>3, Zenon DEF Disjoint
<1> QED
    BY <1>4 DEF q

\* Two queues keep their common end when one loses its front.
LEMMA SameEnds ==
    ASSUME NEW p \in Seq(Batches), NEW q \in Seq(Batches)
    PROVE  /\ SameEnd(q, q) /\ SameEnd(<<>>, q)
           /\ SameEnd(p, q) /\ p # <<>> => SameEnd(Tail(p), q)
           /\ SameEnd(p, q) /\ q # <<>> => SameEnd(p, Tail(q))
           /\ SameEnd(p, q) /\ Len(q) <= Len(p) => InRows(q) \subseteq InRows(p)
<1>1. Len(p) \in Nat /\ Len(q) \in Nat /\ DOMAIN p = 1..Len(p) /\ DOMAIN q = 1..Len(q)
    OBVIOUS
<1>2. SameEnd(q, q) /\ SameEnd(<<>>, q)
    BY DEF SameEnd
<1>t. ASSUME NEW r \in Seq(Batches), r # <<>>
      PROVE  /\ Len(Tail(r)) = Len(r) - 1 /\ Len(r) \in Nat
             /\ \A k \in Nat : k < Len(Tail(r)) =>
                    k < Len(r) /\ Tail(r)[Len(Tail(r)) - k] = r[Len(r) - k]
    BY <1>t
<1>3. ASSUME SameEnd(p, q), p # <<>> PROVE SameEnd(Tail(p), q)
    BY <1>1, <1>3, <1>t, Zenon DEF SameEnd
<1>4. ASSUME SameEnd(p, q), q # <<>> PROVE SameEnd(p, Tail(q))
    BY <1>1, <1>4, <1>t, Zenon DEF SameEnd
<1>5. ASSUME SameEnd(p, q), Len(q) <= Len(p), NEW e \in InRows(q) PROVE e \in InRows(p)
    <2>1. PICK i \in 1..Len(q) : e \in EventsOf(q[i])
        BY <1>1, InRowsIs
    <2>2. /\ Len(q) - i \in Nat /\ Len(q) - i < Len(q) /\ Len(q) - i < Len(p)
          /\ Len(q) - (Len(q) - i) = i
          /\ Len(p) - (Len(q) - i) \in 1..Len(p)
        BY <1>1, <1>5
    <2>3. p[Len(p) - (Len(q) - i)] = q[i]
        <3>1. p[Len(p) - (Len(q) - i)] = q[Len(q) - (Len(q) - i)]
            BY <2>2, <1>5, Zenon DEF SameEnd
        <3> QED
            BY <3>1, <2>2
    <2> QED
        BY <2>1, <2>2, <2>3, <1>1, InRowsIs
<1> QED
    BY <1>2, <1>3, <1>4, <1>5

\* SubmitTraffic counts the events of what it takes, once each.
LEMMA CountedIs ==
    ASSUME received \in [Events -> 0 .. 2], NEW b \in Batches, NEW A \in SUBSET DOMAIN b
    PROVE  /\ Counted(b, A) \in [Events -> 0 .. 2]
           /\ Counted(b, {}) = received
           /\ \A e \in Events :
                /\ received[e] <= Counted(b, A)[e]
                /\ e \notin EventsOf(b) => Counted(b, A)[e] = received[e]
                /\ received[e] = 0 => Counted(b, A)[e] <= 1
                /\ e \in EventsOf(b) => Counted(b, DOMAIN b)[e] > 0
<1>1. ASSUME NEW e \in Events, NEW B \in SUBSET DOMAIN b
      PROVE  /\ (\E a \in B : e \in b[a]) => Counted(b, B)[e] =
                    IF received[e] < 2 THEN received[e] + 1 ELSE received[e]
             /\ ~(\E a \in B : e \in b[a]) => Counted(b, B)[e] = received[e]
             /\ received[e] \in 0 .. 2
    <2>1. received[e] \in 0 .. 2
        OBVIOUS
    <2>2. Counted(b, B)[e] =
             IF received[e] < 2 /\ \E a \in B : e \in b[a] THEN received[e] + 1 ELSE received[e]
        BY Zenon DEF Counted
    <2> QED
        BY <2>1, <2>2
<1>2. Counted(b, A) \in [Events -> 0 .. 2]
    <2>1. \A e \in Events : Counted(b, A)[e] \in 0 .. 2
        BY <1>1
    <2>2. Counted(b, A) = [e \in Events |-> Counted(b, A)[e]]
        BY Zenon DEF Counted
    <2> QED
        BY <2>1, <2>2
<1>3. Counted(b, {}) = received
    <2>1. \A e \in Events : Counted(b, {})[e] = received[e]
        BY <1>1
    <2>2. Counted(b, {}) = [e \in Events |-> Counted(b, {})[e]]
        BY Zenon DEF Counted
    <2> QED
        BY <2>1, <2>2
<1>4. ASSUME NEW e \in Events
      PROVE  /\ received[e] <= Counted(b, A)[e]
             /\ e \notin EventsOf(b) => Counted(b, A)[e] = received[e]
             /\ received[e] = 0 => Counted(b, A)[e] <= 1
             /\ e \in EventsOf(b) => Counted(b, DOMAIN b)[e] > 0
    <2>1. e \in EventsOf(b) <=> \E a \in DOMAIN b : e \in b[a]
        BY EventsOfIs
    <2>2. (\E a \in A : e \in b[a]) => e \in EventsOf(b)
        BY <2>1
    <2>3. CASE \E a \in A : e \in b[a]
        BY <2>1, <2>2, <2>3, <1>1
    <2>4. CASE ~ \E a \in A : e \in b[a]
        BY <2>1, <2>2, <2>4, <1>1
    <2> QED
        BY <2>3, <2>4
<1> QED
    BY <1>2, <1>3, <1>4

----------------------------------------------------------------------------
(* The table.                                                              *)

\* A table, its snapshot and its events.
SnapshotOf(t) == [a \in {t[i].address : i \in DOMAIN t} |->
                     UNION {t[i].events : i \in {j \in DOMAIN t : t[j].address = a}}]
EventsIn(t) == UNION {t[i].events : i \in DOMAIN t}

LEMMA EventsInIs ==
    ASSUME NEW t, NEW e
    PROVE  e \in EventsIn(t) <=> \E i \in DOMAIN t : e \in t[i].events
BY DEF EventsIn

LEMMA Items ==
    ASSUME NEW t \in Seq(IPStats)
    PROVE  /\ DOMAIN t = 1..Len(t) /\ Len(t) \in Nat
           /\ \A i \in DOMAIN t : /\ t[i] \in IPStats
                                  /\ t[i].address \in Addresses /\ t[i].events \subseteq Events
<1>1. \A r \in IPStats : r.address \in Addresses /\ r.events \subseteq Events
    BY DEF IPStats
<1>2. DOMAIN t = 1..Len(t) /\ Len(t) \in Nat /\ \A i \in DOMAIN t : t[i] \in IPStats
    OBVIOUS
<1> QED
    BY <1>1, <1>2, Zenon

LEMMA SnapshotEvents ==
    ASSUME NEW t \in Seq(IPStats)
    PROVE  SnapshotOf(t) \in Batches /\ EventsOf(SnapshotOf(t)) = EventsIn(t)
<1> DEFINE A == {t[i].address : i \in DOMAIN t}
           At(a) == UNION {t[i].events : i \in {j \in DOMAIN t : t[j].address = a}}
<1>1. SnapshotOf(t) = [a \in A |-> At(a)]
    BY DEF SnapshotOf
<1>2. A \in SUBSET Addresses /\ \A a \in A : At(a) \in SUBSET Events
    BY Items
<1>3. SnapshotOf(t) \in [A -> SUBSET Events] /\ DOMAIN SnapshotOf(t) = A
    BY <1>1, <1>2
<1>4. SnapshotOf(t) \in Batches
    BY <1>2, <1>3 DEF Batches
<1>5. ASSUME NEW e \in EventsOf(SnapshotOf(t)) PROVE e \in EventsIn(t)
    <2>1. PICK a \in A : e \in SnapshotOf(t)[a]
        BY <1>3, EventsOfIs
    <2>2. e \in At(a)
        BY <1>1, <2>1
    <2> QED
        BY <2>2, EventsInIs
<1>6. ASSUME NEW i \in DOMAIN t, NEW e \in t[i].events PROVE e \in EventsOf(SnapshotOf(t))
    <2>1. t[i].address \in A /\ e \in At(t[i].address)
        OBVIOUS
    <2>2. e \in SnapshotOf(t)[t[i].address]
        BY <1>1, <2>1
    <2> QED
        BY <1>3, <2>1, <2>2, EventsOfIs
<1> QED
    BY <1>4, <1>5, <1>6, EventsInIs

LEMMA TableEvents ==
    ASSUME table \in Seq(IPStats)
    PROVE  Snapshot \in Batches /\ EventsOf(Snapshot) = InTable /\ InTable = EventsIn(table)
<1>1. Snapshot = SnapshotOf(table) /\ InTable = EventsOf(Snapshot)
    BY Zenon DEF Snapshot, SnapshotOf, InTable
<1> QED
    BY <1>1, SnapshotEvents

LEMMA NextTableEvents ==
    ASSUME table' \in Seq(IPStats)
    PROVE  InTable' = EventsIn(table')
<1>1. InTable' = EventsOf(SnapshotOf(table'))
    BY Zenon DEF Snapshot, SnapshotOf, InTable
<1> QED
    BY <1>1, SnapshotEvents

LEMMA NoEntries == EventsIn(<<>>) = {} /\ <<>> \in Seq(IPStats) /\ Len(<<>>) = 0
BY DEF EventsIn

\* What an entry more, or one less, makes of the events.
LEMMA EntryMore ==
    ASSUME NEW t \in Seq(IPStats), NEW r \in IPStats
    PROVE  /\ Append(t, r) \in Seq(IPStats) /\ Len(Append(t, r)) = Len(t) + 1
           /\ EventsIn(Append(t, r)) = EventsIn(t) \cup r.events
           /\ Len(t) + 1 \in DOMAIN Append(t, r) /\ Append(t, r)[Len(t) + 1] = r
<1> DEFINE q == Append(t, r)
<1>1. /\ q \in Seq(IPStats) /\ Len(t) \in Nat /\ Len(q) = Len(t) + 1
      /\ DOMAIN t = 1..Len(t) /\ DOMAIN q = 1..(Len(t) + 1)
      /\ \A i \in 1..Len(t) : q[i] = t[i]
      /\ q[Len(t) + 1] = r
    OBVIOUS
<1> HIDE DEF q
<1>2. ASSUME NEW e \in EventsIn(q) PROVE e \in EventsIn(t) \cup r.events
    <2>1. PICK i \in 1..(Len(t) + 1) : e \in q[i].events
        BY <1>1, EventsInIs
    <2>2. CASE i = Len(t) + 1
        BY <2>1, <2>2, <1>1
    <2>3. CASE i # Len(t) + 1
        <3>1. i \in 1..Len(t)
            BY <2>3, <1>1
        <3> QED
            BY <3>1, <2>1, <1>1, EventsInIs
    <2> QED
        BY <2>2, <2>3
<1>3. ASSUME NEW e \in EventsIn(t) PROVE e \in EventsIn(q)
    <2>1. PICK i \in 1..Len(t) : e \in t[i].events
        BY <1>1, EventsInIs
    <2>2. i \in DOMAIN q /\ e \in q[i].events
        BY <2>1, <1>1
    <2> QED
        BY <2>2, EventsInIs
<1>4. ASSUME NEW e \in r.events PROVE e \in EventsIn(q)
    <2>1. Len(t) + 1 \in DOMAIN q /\ e \in q[Len(t) + 1].events
        BY <1>1
    <2> QED
        BY <2>1, EventsInIs
<1>5. EventsIn(q) = EventsIn(t) \cup r.events
    BY <1>2, <1>3, <1>4
<1>6. Len(t) + 1 \in DOMAIN q
    BY <1>1
<1> QED
    BY <1>1, <1>5, <1>6 DEF q

LEMMA EntryLess ==
    ASSUME NEW t \in Seq(IPStats), t # <<>>
    PROVE  /\ Tail(t) \in Seq(IPStats) /\ Len(Tail(t)) = Len(t) - 1 /\ Len(t) > 0
           /\ EventsIn(t) = Head(t).events \cup EventsIn(Tail(t))
<1>1. /\ Tail(t) \in Seq(IPStats) /\ Len(Tail(t)) = Len(t) - 1
      /\ Len(t) \in Nat /\ Len(t) > 0 /\ Head(t) = t[1]
      /\ DOMAIN t = 1..Len(t) /\ DOMAIN Tail(t) = 1..(Len(t) - 1)
      /\ \A i \in 1..(Len(t) - 1) : Tail(t)[i] = t[i + 1]
    OBVIOUS
<1>2. ASSUME NEW e \in EventsIn(t) PROVE e \in Head(t).events \cup EventsIn(Tail(t))
    <2>1. PICK i \in 1..Len(t) : e \in t[i].events
        BY <1>1, EventsInIs
    <2>2. CASE i = 1
        BY <2>1, <2>2, <1>1
    <2>3. CASE i # 1
        <3>1. i - 1 \in 1..(Len(t) - 1) /\ (i - 1) + 1 = i
            BY <2>3, <1>1
        <3>2. e \in Tail(t)[i - 1].events
            BY <3>1, <2>1, <1>1
        <3> QED
            BY <3>1, <3>2, <1>1, EventsInIs
    <2> QED
        BY <2>2, <2>3
<1>3. ASSUME NEW e \in Head(t).events PROVE e \in EventsIn(t)
    <2>1. 1 \in DOMAIN t /\ e \in t[1].events
        BY <1>1
    <2> QED
        BY <2>1, EventsInIs
<1>4. ASSUME NEW e \in EventsIn(Tail(t)) PROVE e \in EventsIn(t)
    <2>1. PICK i \in 1..(Len(t) - 1) : e \in Tail(t)[i].events
        BY <1>1, EventsInIs
    <2>2. i + 1 \in DOMAIN t /\ e \in t[i + 1].events
        BY <2>1, <1>1
    <2> QED
        BY <2>2, EventsInIs
<1> QED
    BY <1>1, <1>2, <1>3, <1>4

\* The type invariant, by what it is about.
TableOK == table \in Seq(IPStats) /\ Len(table) <= MaxItems
FlushOK ==
    /\ pc \in {"idle", "retry", "delete", "snapshot", "submit", "save", "clear"}
    /\ batch \in Batches
    /\ pending \in Seq(Batches) /\ buffer \in Seq(Batches)
    /\ phase \in {"running", "closing", "final", "exited"}
BufferOK == Len(buffer) <= MaxBatches + fails
CountsOK == received \in [Events -> 0 .. 2] /\ fails \in 0 .. MaxFails
EventsOK ==
    /\ seen \subseteq Events
    /\ held \subseteq seen /\ Cardinality(held) <= 1
    /\ racers \subseteq seen /\ dropped \subseteq seen
    /\ attached \in BOOLEAN /\ ambiguous \in BOOLEAN /\ midway \in BOOLEAN

LEMMA TypeParts == TypeOK <=> TableOK /\ FlushOK /\ BufferOK /\ CountsOK /\ EventsOK
BY Zenon DEF TypeOK, TableOK, FlushOK, BufferOK, CountsOK, EventsOK

LEMMA AddressIn == \A e \in Events : Address[e] \in Addresses
BY AddressAssumption DEF Addresses, Range

LEMMA RoomIs ==
    ASSUME TableOK
    PROVE  /\ Room \in Seq(IPStats) /\ Len(Room) < MaxItems
           /\ \/ Room = table
              \/ Room # table /\ EventsIn(table) = Head(table).events \cup EventsIn(Room)
<1>1. Len(table) \in Nat
    BY DEF TableOK
<1>2. CASE Len(table) >= MaxItems
    <2>1. table # <<>> /\ Room = Tail(table)
        BY <1>2, LimitsAssumption DEF Room
    <2>2. /\ Tail(table) \in Seq(IPStats) /\ Len(Tail(table)) = Len(table) - 1
          /\ EventsIn(table) = Head(table).events \cup EventsIn(Tail(table))
        BY <2>1, EntryLess DEF TableOK
    <2>3. Len(Room) = Len(table) - 1
        BY <2>1, <2>2, Zenon
    <2>4. Len(Room) < MaxItems /\ Len(Room) # Len(table)
        BY <1>1, <2>3, LimitsAssumption DEF TableOK
    <2> QED
        BY <2>1, <2>2, <2>4, Zenon
<1>3. CASE ~(Len(table) >= MaxItems)
    BY <1>1, <1>3, LimitsAssumption DEF Room, TableOK
<1> QED
    BY <1>2, <1>3

\* A lookup finds or makes the entry, and what it pushes out counts as dropped.
LEMMA LookupIs ==
    ASSUME TableOK, NEW e \in Events, Lookup(e)
    PROVE  /\ TableOK'
           /\ InTable' \subseteq InTable /\ InTable \subseteq InTable' \cup dropped'
           /\ dropped \subseteq dropped' /\ dropped' \subseteq dropped \cup InTable
           /\ Entries(Address[e])' # {}
<1>0. InTable = EventsIn(table) /\ Len(table) \in Nat
    BY TableEvents DEF TableOK
<1>1. /\ table' = GetOrCreate(Address[e])
      /\ dropped' = dropped \cup
            (IF Entries(Address[e]) = {} /\ Room # table THEN Head(table).events ELSE {})
    BY Zenon DEF Lookup
<1>2. CASE Entries(Address[e]) # {}
    <2>1. table' = table /\ dropped' = dropped
        BY <1>1, <1>2, Zenon DEF GetOrCreate
    <2>2. TableOK'
        BY <2>1, Zenon DEF TableOK
    <2>3. InTable' = InTable
        BY <2>1, <2>2, <1>0, NextTableEvents, Zenon DEF TableOK
    <2>4. Entries(Address[e])' # {}
        BY <2>1, <1>2, Zenon DEF Entries
    <2> QED
        BY <2>1, <2>2, <2>3, <2>4
<1>3. CASE Entries(Address[e]) = {}
    <2> DEFINE r == [address |-> Address[e], events |-> {}]
    <2>1. r \in IPStats /\ r.events = {} /\ r.address = Address[e]
        BY AddressIn DEF IPStats
    <2>2. table' = Append(Room, r)
        BY <1>1, <1>3, Zenon DEF GetOrCreate
    <2> HIDE DEF r
    <2>3. /\ table' \in Seq(IPStats) /\ Len(table') = Len(Room) + 1
          /\ EventsIn(table') = EventsIn(Room)
          /\ Len(Room) + 1 \in DOMAIN table' /\ table'[Len(Room) + 1] = r
        <3>1. Room \in Seq(IPStats)
            BY RoomIs
        <3>2. /\ table' \in Seq(IPStats) /\ Len(table') = Len(Room) + 1
              /\ EventsIn(table') = EventsIn(Room) \cup r.events
              /\ Len(Room) + 1 \in DOMAIN table' /\ table'[Len(Room) + 1] = r
            BY <3>1, <2>1, <2>2, EntryMore, Zenon
        <3> QED
            BY <3>2, <2>1
    <2>4. Len(Room) \in Nat /\ Len(Room) < MaxItems
        BY RoomIs
    <2>5. TableOK'
        BY <2>3, <2>4, LimitsAssumption DEF TableOK
    <2>6. InTable' = EventsIn(Room)
        BY <2>3, NextTableEvents
    <2>7. Entries(Address[e])' # {}
        BY <2>1, <2>3, Zenon DEF Entries
    <2>8. dropped' = dropped \cup (IF Room # table THEN Head(table).events ELSE {})
        BY <1>1, <1>3, Zenon
    <2>9. CASE Room = table
        BY <2>5, <2>6, <2>7, <2>8, <2>9, <1>0
    <2>10. CASE Room # table
        <3>1. EventsIn(table) = Head(table).events \cup EventsIn(Room)
            BY <2>10, RoomIs
        <3> QED
            BY <2>5, <2>6, <2>7, <2>8, <2>10, <3>1, <1>0
    <2> QED
        BY <2>9, <2>10
<1> QED
    BY <1>2, <1>3

\* An update adds what is held to its entry, if that is still there.
LEMMA UpdateIs ==
    ASSUME TableOK, OneHeld, Update
    PROVE  /\ TableOK'
           /\ InTable' \subseteq InTable \cup held /\ InTable \subseteq InTable'
           /\ attached /\ (\A e \in held : Entries(Address[e]) # {}) => held \subseteq InTable'
           /\ ~attached => InTable' = InTable
<1>0. InTable = EventsIn(table)
    BY TableEvents DEF TableOK
<1>1. CASE ~attached
    <2>1. table' = table
        BY <1>1, Zenon DEF Update
    <2>2. TableOK'
        BY <2>1, Zenon DEF TableOK
    <2>3. InTable' = InTable
        BY <2>1, <2>2, <1>0, NextTableEvents, Zenon DEF TableOK
    <2> QED
        BY <1>1, <2>2, <2>3
<1>2. CASE attached
    <2>1. PICK e \in Events : held = {e}
        BY Zenon DEF Update, OneHeld
    <2> DEFINE more(i) == [table[i] EXCEPT !.events = @ \cup held]
    <2>2. table' = [i \in DOMAIN table |->
                       IF table[i].address = Address[e] THEN more(i) ELSE table[i]]
        <3>1. table' = [i \in DOMAIN table |->
                          IF \E x \in held : table[i].address = Address[x]
                          THEN more(i) ELSE table[i]]
            BY <1>2, Zenon DEF Update
        <3>2. \A i : (\E x \in held : table[i].address = Address[x])
                        <=> table[i].address = Address[e]
            BY <2>1
        <3> QED
            BY <3>1, <3>2, Zenon
    <2>3. /\ DOMAIN table = 1..Len(table) /\ Len(table) \in Nat
          /\ \A i \in DOMAIN table : table[i] \in IPStats
        BY Items DEF TableOK
    <2>4. \A r \in IPStats : /\ [r EXCEPT !.events = @ \cup held] \in IPStats
                             /\ [r EXCEPT !.events = @ \cup held].events = r.events \cup held
        BY <2>1 DEF IPStats
    <2>5. \A i \in DOMAIN table : more(i) \in IPStats /\ more(i).events = table[i].events \cup held
        BY <2>3, <2>4, Zenon
    <2> HIDE DEF more
    <2>6. DOMAIN table' = 1..Len(table) /\ \A i \in 1..Len(table) : table'[i] \in IPStats
        BY <2>2, <2>3, <2>5
    <2>7. table' \in Seq(IPStats) /\ Len(table') = Len(table)
        <3>1. table' \in [1..Len(table) -> IPStats]
            BY <2>2, <2>6
        <3> QED
            BY <3>1, <2>3
    <2>8. TableOK'
        BY <2>7 DEF TableOK
    <2>9. InTable' = EventsIn(table')
        BY <2>7, NextTableEvents
    <2>10. ASSUME NEW x \in EventsIn(table') PROVE x \in EventsIn(table) \cup held
        <3>1. PICK i \in DOMAIN table : x \in table'[i].events
            BY <2>6, <2>3, EventsInIs
        <3>2. x \in table[i].events \cup held
            BY <3>1, <2>2, <2>5
        <3> QED
            BY <3>2, EventsInIs
    <2>11. ASSUME NEW x \in EventsIn(table) PROVE x \in EventsIn(table')
        <3>1. PICK i \in DOMAIN table : x \in table[i].events
            BY EventsInIs
        <3>2. i \in DOMAIN table' /\ x \in table'[i].events
            BY <3>1, <2>2, <2>5, <2>6, <2>3
        <3> QED
            BY <3>2, EventsInIs
    <2>12. ASSUME Entries(Address[e]) # {} PROVE held \subseteq EventsIn(table')
        <3>1. PICK i \in DOMAIN table : table[i].address = Address[e]
            BY <2>12 DEF Entries
        <3>2. i \in DOMAIN table' /\ held \subseteq table'[i].events
            BY <3>1, <2>2, <2>5, <2>6, <2>3
        <3> QED
            BY <3>2, EventsInIs
    <2> QED
        BY <1>0, <1>2, <2>1, <2>8, <2>9, <2>10, <2>11, <2>12
<1> QED
    BY <1>1, <1>2

----------------------------------------------------------------------------
(* What the calls of FlushToAPI do.                                        *)

\* SubmitTraffic counts the whole batch, or some of it and the agent does not know, or
\* nothing.
LEMMA SubmitIs ==
    ASSUME CountsOK, NEW b \in Batches
    PROVE  /\ Accepts(b) => /\ CountsOK' /\ Received' = Received \cup EventsOf(b)
                            /\ UNCHANGED ambiguous
                            /\ \A e \in Events : received[e] = 0 => received'[e] <= 1
                            /\ \A e \in Events \ EventsOf(b) : received'[e] = received[e]
           /\ Refuses(b) => /\ CountsOK'
                            /\ Received \subseteq Received'
                            /\ Received' \subseteq Received \cup EventsOf(b)
                            /\ (ambiguous => ambiguous') /\ (received' = received \/ ambiguous')
<1>0. EventsOf(b) \subseteq Events
    BY BatchEvents
<1>f. ASSUME fails' \in {fails, fails + 1}, fails' # fails => fails < MaxFails
      PROVE  fails' \in 0 .. MaxFails
    BY <1>f, LimitsAssumption DEF CountsOK
<1>1. ASSUME NEW A \in SUBSET DOMAIN b, received' = Counted(b, A)
      PROVE  /\ received' \in [Events -> 0 .. 2]
             /\ Received \subseteq Received' /\ Received' \subseteq Received \cup EventsOf(b)
             /\ A = {} => received' = received
             /\ A = DOMAIN b => EventsOf(b) \subseteq Received'
             /\ \A e \in Events : received[e] = 0 => received'[e] <= 1
             /\ \A e \in Events \ EventsOf(b) : received'[e] = received[e]
    <2>1. /\ received' \in [Events -> 0 .. 2]
          /\ A = {} => received' = received
          /\ \A e \in Events :
                /\ received[e] <= received'[e]
                /\ e \notin EventsOf(b) => received'[e] = received[e]
                /\ received[e] = 0 => received'[e] <= 1
                /\ A = DOMAIN b /\ e \in EventsOf(b) => received'[e] > 0
        BY <1>1, CountedIs, Zenon DEF CountsOK
    <2>2. \A e \in Events : received[e] \in 0 .. 2 /\ received'[e] \in 0 .. 2
        BY <2>1 DEF CountsOK
    <2>3. Received \subseteq Received'
        BY <2>1, <2>2 DEF Received
    <2>4. Received' \subseteq Received \cup EventsOf(b)
        BY <2>1 DEF Received
    <2>5. A = DOMAIN b => EventsOf(b) \subseteq Received'
        BY <2>1, <1>0 DEF Received
    <2> QED
        BY <2>1, <2>3, <2>4, <2>5
<1>2. ASSUME Accepts(b)
      PROVE  /\ CountsOK' /\ Received' = Received \cup EventsOf(b)
             /\ UNCHANGED ambiguous
             /\ \A e \in Events : received[e] = 0 => received'[e] <= 1
             /\ \A e \in Events \ EventsOf(b) : received'[e] = received[e]
    <2>1. received' = Counted(b, DOMAIN b) /\ UNCHANGED <<fails, ambiguous>>
        BY <1>2, Zenon DEF Accepts
    <2>2. fails' \in 0 .. MaxFails
        BY <2>1 DEF CountsOK
    <2> QED
        BY <2>1, <2>2, <1>1 DEF CountsOK
<1>3. ASSUME TooLarge(b)
      PROVE  CountsOK' /\ UNCHANGED <<received, ambiguous>>
    BY <1>3, Zenon DEF TooLarge, CountsOK
<1>4. ASSUME Fails(b)
      PROVE  /\ CountsOK' /\ Received \subseteq Received'
             /\ Received' \subseteq Received \cup EventsOf(b)
             /\ (ambiguous => ambiguous') /\ (received' = received \/ ambiguous')
    <2>1. PICK A \in SUBSET DOMAIN b :
              received' = Counted(b, A) /\ ambiguous' = (ambiguous \/ A # {})
        BY <1>4, Zenon DEF Fails
    <2>2. fails' \in 0 .. MaxFails
        BY <1>4, <1>f, Zenon DEF Fails
    <2>3. (A # {} => ambiguous') /\ (ambiguous => ambiguous')
        BY <2>1, Zenon
    <2>4. A = {} => received' = received
        BY <2>1, <1>1
    <2>5. /\ received' \in [Events -> 0 .. 2]
          /\ Received \subseteq Received' /\ Received' \subseteq Received \cup EventsOf(b)
        BY <2>1, <1>1, Zenon
    <2> QED
        BY <2>2, <2>3, <2>4, <2>5 DEF CountsOK
<1>5. ASSUME Refuses(b)
      PROVE  /\ CountsOK'
             /\ Received \subseteq Received'
             /\ Received' \subseteq Received \cup EventsOf(b)
             /\ (ambiguous => ambiguous') /\ (received' = received \/ ambiguous')
    <2>1. CASE TooLarge(b)
        <3>1. CountsOK' /\ received' = received /\ ambiguous' = ambiguous
            BY <2>1, <1>3, Zenon
        <3>2. Received' = Received
            BY <3>1, Zenon DEF Received
        <3> QED
            BY <3>1, <3>2
    <2>2. CASE Fails(b)
        BY <2>2, <1>4, Zenon
    <2> QED
        BY <1>5, <2>1, <2>2 DEF Refuses
<1> QED
    BY <1>2, <1>5

\* The first rows of the buffer and the rest.
LEMMA RowsSplit ==
    ASSUME NEW rows \in Seq(Batches), NEW n \in 0 .. Len(rows)
    PROVE  /\ SubSeq(rows, n + 1, Len(rows)) \in Seq(Batches)
           /\ Len(SubSeq(rows, n + 1, Len(rows))) = Len(rows) - n
           /\ InRows(rows) = InRows(SubSeq(rows, 1, n))
                              \cup InRows(SubSeq(rows, n + 1, Len(rows)))
           /\ Disjoint(rows) => Disjoint(SubSeq(rows, n + 1, Len(rows)))
<1> DEFINE first == SubSeq(rows, 1, n)
           rest == SubSeq(rows, n + 1, Len(rows))
<1>1. Len(rows) \in Nat /\ n \in Nat /\ n <= Len(rows) /\ DOMAIN rows = 1..Len(rows)
    OBVIOUS
<1>2. DOMAIN first = 1..n /\ \A i \in 1..n : first[i] = rows[i]
    <2>1. first = [i \in 1..n |-> rows[i]]
        BY <1>1, SubSeqProperties
    <2> QED
        BY <2>1
<1>3. /\ rest \in Seq(Batches) /\ Len(rest) = Len(rows) - n
      /\ DOMAIN rest = 1..(Len(rows) - n)
      /\ \A i \in 1..(Len(rows) - n) : rest[i] = rows[n + i]
    <2>1. /\ n + 1 \in Int /\ Len(rows) \in Int
          /\ \A i \in (n + 1)..Len(rows) : rows[i] \in Batches
        BY <1>1
    <2>2. /\ rest \in Seq(Batches)
          /\ Len(rest) = IF n + 1 <= Len(rows) THEN Len(rows) - (n + 1) + 1 ELSE 0
          /\ \A i \in 1..(Len(rows) - (n + 1) + 1) : rest[i] = rows[(n + 1) + i - 1]
        BY <2>1, SubSeqProperties
    <2> HIDE DEF rest
    <2>3. Len(rest) = Len(rows) - n /\ Len(rows) - (n + 1) + 1 = Len(rows) - n
        <3>1. Len(rest) = IF n + 1 <= Len(rows) THEN Len(rows) - (n + 1) + 1 ELSE 0
            BY <2>2
        <3>2. Len(rows) - (n + 1) + 1 = Len(rows) - n
            BY <1>1
        <3>3. CASE n + 1 <= Len(rows)
            BY <3>1, <3>2, <3>3
        <3>4. CASE ~(n + 1 <= Len(rows))
            <4>0. n \in Int /\ Len(rows) \in Int /\ n <= Len(rows)
                BY <1>1
            <4>1. \A k, l \in Int : k <= l /\ ~(k + 1 <= l) => l - k = 0
                OBVIOUS
            <4>2. Len(rows) - n = 0
                BY <3>4, <4>0, <4>1
            <4> QED
                BY <3>1, <3>2, <3>4, <4>2
        <3> QED
            BY <3>2, <3>3, <3>4
    <2>4. DOMAIN rest = 1..(Len(rows) - n)
        BY <2>2, <2>3
    <2>5. \A i \in 1..(Len(rows) - n) : rest[i] = rows[(n + 1) + i - 1] /\ (n + 1) + i - 1 = n + i
        BY <2>2, <2>3, <1>1
    <2> QED
        BY <2>2, <2>3, <2>4, <2>5
<1> HIDE DEF first, rest
<1>4. ASSUME NEW e \in InRows(rows) PROVE e \in InRows(first) \cup InRows(rest)
    <2>1. PICK i \in 1..Len(rows) : e \in EventsOf(rows[i])
        BY <1>1, InRowsIs
    <2>2. CASE i <= n
        <3>1. i \in 1..n
            BY <2>2, <1>1
        <3> QED
            BY <3>1, <2>1, <1>2, InRowsIs
    <2>3. CASE ~(i <= n)
        <3>1. i - n \in 1..(Len(rows) - n) /\ n + (i - n) = i
            BY <2>3, <1>1
        <3>2. rest[i - n] = rows[n + (i - n)]
            BY <3>1, <1>3, Zenon
        <3> QED
            BY <3>1, <3>2, <2>1, <1>3, InRowsIs
    <2> QED
        BY <2>2, <2>3
<1>5. ASSUME NEW e \in InRows(first) PROVE e \in InRows(rows)
    <2>1. PICK i \in 1..n : e \in EventsOf(rows[i])
        BY <1>2, InRowsIs
    <2>2. i \in DOMAIN rows
        BY <2>1, <1>1
    <2> QED
        BY <2>1, <2>2, InRowsIs
<1>6. ASSUME NEW e \in InRows(rest) PROVE e \in InRows(rows)
    <2>1. PICK i \in 1..(Len(rows) - n) : e \in EventsOf(rows[n + i])
        BY <1>3, InRowsIs
    <2>2. n + i \in DOMAIN rows
        BY <2>1, <1>1
    <2> QED
        BY <2>1, <2>2, InRowsIs
<1>7. ASSUME Disjoint(rows), NEW i \in 1..(Len(rows) - n), NEW j \in 1..(Len(rows) - n), i # j
      PROVE  EventsOf(rest[i]) \cap EventsOf(rest[j]) = {}
    <2>1. n + i \in DOMAIN rows /\ n + j \in DOMAIN rows /\ n + i # n + j
        BY <1>1, <1>7
    <2>2. EventsOf(rows[n + i]) \cap EventsOf(rows[n + j]) = {}
        BY <1>7, <2>1, Zenon DEF Disjoint
    <2> QED
        BY <2>2, <1>3
<1>8. Disjoint(rows) => Disjoint(rest)
    BY <1>3, <1>7, Zenon DEF Disjoint
<1> QED
    BY <1>3, <1>4, <1>5, <1>6, <1>8 DEF first, rest

\* BufferDB.Save makes room by dropping the oldest rows, or fails to.
LEMMA SpareIs ==
    ASSUME buffer \in Seq(Batches), NEW n \in {0, Excess}
    PROVE  /\ Spare(n) \in Seq(Batches)
           /\ Len(Spare(n)) \in Nat /\ Len(Spare(n)) <= Len(buffer)
           /\ Len(Spare(Excess)) < MaxBatches
           /\ InRows(buffer) = InRows(Spare(n)) \cup Overflow(n)
           /\ Disjoint(buffer) => Disjoint(Spare(n))
<1>1. /\ Len(buffer) \in Nat /\ Excess \in 0 .. Len(buffer)
      /\ Len(buffer) - Excess < MaxBatches
    BY LimitsAssumption DEF Excess
<1>2. n \in 0 .. Len(buffer)
    BY <1>1
<1>3. ASSUME NEW m \in 0 .. Len(buffer)
      PROVE  /\ Spare(m) \in Seq(Batches) /\ Len(Spare(m)) = Len(buffer) - m
             /\ InRows(buffer) = InRows(Spare(m)) \cup Overflow(m)
             /\ Disjoint(buffer) => Disjoint(Spare(m))
    <2>1. /\ SubSeq(buffer, m + 1, Len(buffer)) \in Seq(Batches)
          /\ Len(SubSeq(buffer, m + 1, Len(buffer))) = Len(buffer) - m
          /\ InRows(buffer) = InRows(SubSeq(buffer, 1, m))
                              \cup InRows(SubSeq(buffer, m + 1, Len(buffer)))
          /\ Disjoint(buffer) => Disjoint(SubSeq(buffer, m + 1, Len(buffer)))
        BY RowsSplit
    <2>2. /\ Spare(m) = SubSeq(buffer, m + 1, Len(buffer))
          /\ Overflow(m) = InRows(SubSeq(buffer, 1, m))
        BY Zenon DEF Spare, Overflow
    <2>3. InRows(buffer) = InRows(Spare(m)) \cup Overflow(m)
        BY <2>1, <2>2
    <2> QED
        BY <2>1, <2>2, <2>3
<1>4. Len(Spare(n)) = Len(buffer) - n /\ Len(Spare(Excess)) = Len(buffer) - Excess
    BY <1>1, <1>2, <1>3, Zenon
<1>5. Len(Spare(n)) \in Nat /\ Len(Spare(n)) <= Len(buffer) /\ Len(Spare(Excess)) < MaxBatches
    BY <1>1, <1>2, <1>4
<1> QED
    BY <1>2, <1>3, <1>5, Zenon

\* ... and inserts the batch.
LEMMA InsertIs ==
    ASSUME FlushOK, BufferOK, CountsOK, Save \/ SaveCrowded
    PROVE  \E n \in {0, Excess} :
              /\ Inserts(n)
              /\ buffer' = Append(Spare(n), batch) /\ buffer' \in Seq(Batches)
              /\ Len(buffer') <= MaxBatches + fails'
              /\ InRows(buffer') = InRows(Spare(n)) \cup EventsOf(batch)
              /\ fails' \in 0 .. MaxFails
<1>1. ASSUME NEW n \in {0, Excess}, Inserts(n)
      PROVE  /\ buffer' = Append(Spare(n), batch) /\ buffer' \in Seq(Batches)
             /\ Len(buffer') = Len(Spare(n)) + 1
             /\ Len(Spare(n)) \in Nat /\ Len(Spare(n)) <= Len(buffer)
             /\ Len(Spare(Excess)) < MaxBatches
             /\ InRows(buffer') = InRows(Spare(n)) \cup EventsOf(batch)
    <2>1. buffer' = Append(Spare(n), batch) /\ batch \in Batches
        BY <1>1, Zenon DEF Inserts, FlushOK
    <2>2. /\ Spare(n) \in Seq(Batches)
          /\ Len(Spare(n)) \in Nat /\ Len(Spare(n)) <= Len(buffer)
          /\ Len(Spare(Excess)) < MaxBatches
        BY SpareIs, Zenon DEF FlushOK
    <2>3. Len(Append(Spare(n), batch)) = Len(Spare(n)) + 1
        BY <2>2
    <2>4. /\ Append(Spare(n), batch) \in Seq(Batches)
          /\ InRows(Append(Spare(n), batch)) = InRows(Spare(n)) \cup EventsOf(batch)
        BY <2>1, <2>2, RowsAppend, Zenon
    <2> QED
        BY <2>1, <2>2, <2>3, <2>4, Zenon
<1>2. Len(buffer) <= MaxBatches + fails /\ Len(buffer) \in Nat /\ MaxBatches \in Nat
      /\ fails \in Nat /\ fails <= MaxFails /\ MaxFails \in Nat
    BY LimitsAssumption DEF FlushOK, BufferOK, CountsOK
<1>3. CASE Save
    <2>1. Inserts(Excess) /\ fails' = fails
        BY <1>3, Zenon DEF Save
    <2>2. Len(buffer') = Len(Spare(Excess)) + 1 /\ Len(Spare(Excess)) \in Nat
          /\ Len(Spare(Excess)) < MaxBatches
        BY <1>1, <2>1, Zenon
    <2>3. Len(buffer') <= MaxBatches + fails' /\ fails' \in 0 .. MaxFails
        BY <1>2, <2>1, <2>2
    <2> QED
        BY <1>1, <2>1, <2>3, Zenon
<1>4. CASE SaveCrowded
    <2>1. Inserts(0) /\ fails' = fails + 1 /\ fails < MaxFails
        BY <1>4, Zenon DEF SaveCrowded
    <2>2. Len(buffer') = Len(Spare(0)) + 1 /\ Len(Spare(0)) \in Nat
          /\ Len(Spare(0)) <= Len(buffer)
        BY <1>1, <2>1, Zenon
    <2>3. Len(buffer') <= MaxBatches + fails' /\ fails' \in 0 .. MaxFails
        BY <1>2, <2>1, <2>2
    <2> QED
        BY <1>1, <2>1, <2>3, Zenon
<1> QED
    BY <1>3, <1>4

----------------------------------------------------------------------------
(* The type invariant.                                                     *)

Loads(next) == Load(next) \/ LoadFails(next)

LEMMA StepCases ==
    ASSUME [Next]_vars
    PROVE  \/ \E e \in Events : Lookup(e)
           \/ Update
           \/ \E next : Loads(next) /\ pc = "idle" /\ next \in {phase, "final"}
                        /\ phase \in {"running", "closing"}
           \/ RetryAccepted \/ RetryRefused \/ DeleteSent \/ DeleteFails
           \/ TakeSnapshot \/ Submitted \/ SubmitRefused \/ SubmitDenied
           \/ Save \/ SaveCrowded \/ SaveFails \/ Clear
           \/ Expire \/ Stop \/ Exit \/ Crash \/ Restart
           \/ UNCHANGED vars
<1>1. FlushTick \/ FinalFlush =>
          \E next : Loads(next) /\ pc = "idle" /\ next \in {phase, "final"}
                    /\ phase \in {"running", "closing"}
    BY Zenon DEF FlushTick, FinalFlush, Loads
<1> QED
    BY <1>1, Zenon DEF Next, EventLoop, Flush, Shutdown

LEMMA TableStep == TypeOK /\ OneHeld /\ [Next]_vars => TableOK'
<1> SUFFICES ASSUME TypeOK, OneHeld, [Next]_vars PROVE TableOK'
    OBVIOUS
<1>t. TableOK
    BY TypeParts
<1>1. ASSUME NEW e \in Events, Lookup(e) PROVE TableOK'
    BY <1>1, <1>t, LookupIs
<1>2. CASE Update
    BY <1>2, <1>t, UpdateIs
<1>3. CASE table' = <<>>
    <2>1. 0 <= MaxItems
        BY LimitsAssumption
    <2> QED
        BY <1>3, <2>1, NoEntries DEF TableOK
<1>4. CASE table' = table
    BY <1>4, <1>t DEF TableOK
<1>5. ASSUME NEW next, Loads(next) PROVE table' = table
    BY <1>5, Zenon DEF Loads, Load, LoadFails
<1>6. CASE \/ RetryAccepted \/ RetryRefused \/ DeleteSent \/ DeleteFails
           \/ TakeSnapshot \/ Submitted \/ SubmitRefused \/ SubmitDenied
           \/ Save \/ SaveCrowded \/ SaveFails
    BY <1>4, <1>6, Zenon
    DEF RetryAccepted, RetryRefused, DeleteSent, DeleteFails, TakeSnapshot, Submitted,
        SubmitRefused, SubmitDenied, Save, SaveCrowded, Inserts, SaveFails
<1>7. CASE Expire \/ Stop \/ UNCHANGED vars
    BY <1>4, <1>7, Zenon DEF Expire, Stop, vars
<1>8. CASE Clear \/ Exit \/ Crash \/ Restart
    BY <1>3, <1>8, Zenon DEF Clear, Exit, Crash, Restart, Reset
<1> QED
    BY StepCases, <1>1, <1>2, <1>4, <1>5, <1>6, <1>7, <1>8, Zenon

LEMMA FlushStep == TypeOK /\ RetryPass /\ [Next]_vars => FlushOK'
<1> SUFFICES ASSUME TypeOK, RetryPass, [Next]_vars PROVE FlushOK'
    OBVIOUS
<1>t. FlushOK /\ TableOK
    BY TypeParts
<1>c. BufferOK /\ CountsOK
    BY TypeParts
<1>e. <<>> \in Seq(Batches) /\ NoBatch \in Batches
    BY NoBatchIsEmpty
<1>r. pc = "retry" => pending # <<>>
    BY DEF RetryPass
<1> USE <1>t DEF FlushOK, flushVars
<1>1. ASSUME NEW e \in Events, Lookup(e) PROVE FlushOK'
    BY <1>1, Zenon DEF Lookup
<1>2. CASE Update \/ Stop \/ Exit \/ UNCHANGED vars
    BY <1>2, Zenon DEF Update, Stop, Exit, vars
<1>3. ASSUME NEW next, Loads(next), next \in {phase, "final"} PROVE FlushOK'
    BY <1>3, Zenon DEF Loads, Load, LoadFails
<1>4. CASE RetryAccepted
    <2>1. Tail(pending) \in Seq(Batches)
        BY <1>4, <1>r, RowsTail, Zenon DEF RetryAccepted
    <2> QED
        BY <1>4, <2>1, Zenon DEF RetryAccepted
<1>5. CASE RetryRefused \/ DeleteSent \/ DeleteFails
    BY <1>5, <1>e, Zenon DEF RetryRefused, DeleteSent, DeleteFails
<1>6. CASE TakeSnapshot
    <2>1. Snapshot \in Batches
        BY TableEvents DEF TableOK
    <2> QED
        BY <1>6, <2>1, Zenon DEF TakeSnapshot
<1>7. CASE Submitted \/ SubmitRefused \/ SubmitDenied
    BY <1>7, Zenon DEF Submitted, SubmitRefused, SubmitDenied
<1>8. CASE Save \/ SaveCrowded
    <2>1. buffer' \in Seq(Batches)
        BY <1>8, <1>c, InsertIs, Zenon
    <2> QED
        BY <1>8, <2>1, Zenon DEF Save, SaveCrowded, Inserts
<1>9. CASE SaveFails
    <2>1. PICK n \in {0, Excess} : buffer' = Spare(n)
        BY <1>9, Zenon DEF SaveFails
    <2>2. buffer' \in Seq(Batches)
        BY <2>1, SpareIs, Zenon
    <2> QED
        BY <1>9, <1>e, <2>2, Zenon DEF SaveFails
<1>10. CASE Clear
    BY <1>10, <1>e, Zenon DEF Clear
<1>11. CASE Expire
    <2>1. Tail(buffer) \in Seq(Batches)
        BY <1>11 DEF Expire
    <2> QED
        BY <1>11, <2>1, Zenon DEF Expire
<1>12. CASE Crash \/ Restart
    BY <1>12, <1>e, Zenon DEF Crash, Restart, Reset
<1> QED
    BY StepCases, <1>1, <1>2, <1>3, <1>4, <1>5, <1>6, <1>7, <1>8, <1>9, <1>10, <1>11, <1>12,
       Zenon

LEMMA CountsStep == TypeOK /\ RetryPass /\ [Next]_vars => CountsOK'
<1> SUFFICES ASSUME TypeOK, RetryPass, [Next]_vars PROVE CountsOK'
    OBVIOUS
<1>t. CountsOK /\ FlushOK
    BY TypeParts
<1>0. CASE UNCHANGED <<received, fails>>
    BY <1>0, <1>t, Zenon DEF CountsOK
<1>f. ASSUME fails < MaxFails, fails' = fails + 1, UNCHANGED received PROVE CountsOK'
    <2>1. fails' \in 0 .. MaxFails
        BY <1>f, <1>t, LimitsAssumption DEF CountsOK
    <2> QED
        BY <2>1, <1>f, <1>t, Zenon DEF CountsOK
<1>1. ASSUME NEW e \in Events, Lookup(e) PROVE CountsOK'
    BY <1>1, <1>0, Zenon DEF Lookup
<1>2. ASSUME NEW next, Loads(next) PROVE CountsOK'
    BY <1>2, <1>0, <1>f, Zenon DEF Loads, Load, LoadFails
<1>3. CASE RetryAccepted \/ RetryRefused
    <2>1. Head(pending) \in Batches
        BY <1>3, <1>t, RowsTail, Zenon DEF RetryPass, FlushOK, RetryAccepted, RetryRefused
    <2> QED
        BY <1>3, <2>1, <1>t, SubmitIs, Zenon DEF RetryAccepted, RetryRefused
<1>4. CASE Submitted \/ SubmitRefused
    BY <1>4, <1>t, SubmitIs, Zenon DEF Submitted, SubmitRefused, FlushOK
<1>5. CASE Update \/ DeleteSent \/ TakeSnapshot \/ SubmitDenied \/ Save \/ Clear
    BY <1>5, <1>0, Zenon
    DEF Update, DeleteSent, TakeSnapshot, SubmitDenied, Save, Inserts, Clear
<1>6. CASE Expire \/ Stop \/ Exit \/ Restart \/ UNCHANGED vars
    BY <1>6, <1>0, Zenon DEF Expire, Stop, Exit, Restart, Reset, vars
<1>7. CASE DeleteFails \/ SaveCrowded \/ SaveFails \/ Crash
    BY <1>7, <1>f, Zenon DEF DeleteFails, SaveCrowded, Inserts, SaveFails, Crash, Reset
<1> QED
    BY StepCases, <1>1, <1>2, <1>3, <1>4, <1>5, <1>6, <1>7, Zenon

\* Only an eviction that failed leaves a row more than the limit.
LEMMA BufferStep == TypeOK /\ RetryPass /\ [Next]_vars => BufferOK'
<1> SUFFICES ASSUME TypeOK, RetryPass, [Next]_vars PROVE BufferOK'
    OBVIOUS
<1>t. FlushOK /\ BufferOK /\ CountsOK
    BY TypeParts
<1>n. Len(buffer) \in Nat /\ fails \in Nat /\ MaxBatches \in Nat
    BY <1>t, LimitsAssumption DEF FlushOK, CountsOK
<1>0. ASSUME fails' \in {fails, fails + 1}, Len(buffer') \in Nat, Len(buffer') <= Len(buffer)
      PROVE  BufferOK'
    BY <1>0, <1>n, <1>t DEF BufferOK
<1>s. ASSUME fails' \in {fails, fails + 1}, buffer' = buffer PROVE BufferOK'
    BY <1>s, <1>0, <1>n
<1>r. ASSUME NEW b, Accepts(b) \/ Refuses(b) PROVE fails' \in {fails, fails + 1}
    BY <1>r, Zenon DEF Accepts, Refuses, TooLarge, Fails
<1>1. ASSUME NEW e \in Events, Lookup(e) PROVE BufferOK'
    BY <1>1, <1>s, Zenon DEF Lookup, flushVars
<1>2. ASSUME NEW next, Loads(next) PROVE BufferOK'
    BY <1>2, <1>s, Zenon DEF Loads, Load, LoadFails
<1>3. CASE RetryAccepted \/ RetryRefused
    BY <1>3, <1>r, <1>s, Zenon DEF RetryAccepted, RetryRefused
<1>4. CASE Submitted \/ SubmitRefused
    BY <1>4, <1>r, <1>s, Zenon DEF Submitted, SubmitRefused
<1>5. CASE DeleteFails \/ TakeSnapshot \/ SubmitDenied \/ Clear
    BY <1>5, <1>s, Zenon DEF DeleteFails, TakeSnapshot, SubmitDenied, Clear
<1>6. CASE Update \/ Stop \/ Exit \/ Crash \/ Restart \/ UNCHANGED vars
    BY <1>6, <1>s, Zenon DEF Update, Stop, Exit, Crash, Restart, Reset, vars, flushVars
<1>7. CASE DeleteSent
    <2>1. buffer' = <<>> /\ fails' = fails
        BY <1>7, Zenon DEF DeleteSent
    <2> QED
        BY <2>1, <1>0, <1>n
<1>8. CASE Save \/ SaveCrowded
    BY <1>8, <1>t, InsertIs, Zenon DEF BufferOK
<1>9. CASE SaveFails
    <2>1. PICK n \in {0, Excess} : buffer' = Spare(n)
        BY <1>9, Zenon DEF SaveFails
    <2>2. fails' = fails + 1
        BY <1>9, Zenon DEF SaveFails
    <2>3. Len(buffer') \in Nat /\ Len(buffer') <= Len(buffer)
        BY <2>1, <1>t, SpareIs, Zenon DEF FlushOK
    <2> QED
        BY <2>2, <2>3, <1>0
<1>10. CASE Expire
    <2>1. buffer # <<>> /\ buffer' = Tail(buffer) /\ fails' = fails
        BY <1>10, Zenon DEF Expire
    <2>2. Len(buffer') \in Nat /\ Len(buffer') <= Len(buffer)
        BY <2>1, <1>t DEF FlushOK
    <2> QED
        BY <2>1, <2>2, <1>0
<1> QED
    BY StepCases, <1>1, <1>2, <1>3, <1>4, <1>5, <1>6, <1>7, <1>8, <1>9, <1>10, Zenon

\* Only a lookup takes an event from the ring buffer and only an update lets go of it.
LEMMA HeldMoves ==
    ASSUME [Next]_vars
    PROVE  \/ \E e \in Events : Lookup(e) /\ seen' = seen \cup {e} /\ held' = {e}
           \/ seen' = seen /\ held' \in {held, {}}
<1>1. ASSUME NEW e \in Events, Lookup(e) PROVE seen' = seen \cup {e} /\ held' = {e}
    BY <1>1, Zenon DEF Lookup
<1>2. ASSUME NEW next, Loads(next) PROVE UNCHANGED <<seen, held>>
    BY <1>2, Zenon DEF Loads, Load, LoadFails, loopVars
<1>3. CASE RetryAccepted \/ RetryRefused \/ DeleteSent \/ DeleteFails \/ TakeSnapshot
    BY <1>3, Zenon DEF RetryAccepted, RetryRefused, DeleteSent, DeleteFails, TakeSnapshot, loopVars
<1>4. CASE Submitted \/ SubmitRefused \/ SubmitDenied \/ Save \/ SaveCrowded \/ SaveFails \/ Clear
    BY <1>4, Zenon
    DEF Submitted, SubmitRefused, SubmitDenied, Save, SaveCrowded, Inserts, SaveFails, Clear,
        loopVars
<1>5. CASE Update \/ Expire \/ Stop \/ UNCHANGED vars
    BY <1>5, Zenon DEF Update, Expire, Stop, vars, loopVars
<1>6. CASE Exit \/ Crash \/ Restart
    BY <1>6, Zenon DEF Exit, Crash, Restart, Reset
<1> QED
    BY StepCases, <1>1, <1>2, <1>3, <1>4, <1>5, <1>6, Zenon

\* Events are dropped from the table, from the buffer and from what could not be saved.
LEMMA DroppedMoves ==
    ASSUME TypeOK, OneHeld, [Next]_vars
    PROVE  /\ dropped \subseteq dropped'
           /\ dropped' \subseteq dropped \cup InTable \cup InRows(buffer) \cup held
                                         \cup EventsOf(batch)
<1>t. TableOK /\ FlushOK
    BY TypeParts
<1>0. CASE UNCHANGED dropped
    BY <1>0
<1>1. ASSUME NEW e \in Events, Lookup(e)
      PROVE  dropped \subseteq dropped' /\ dropped' \subseteq dropped \cup InTable
    BY <1>1, <1>t, LookupIs
<1>2. ASSUME NEW next, Loads(next) PROVE UNCHANGED dropped
    BY <1>2, Zenon DEF Loads, Load, LoadFails, ghosts
<1>3. CASE \/ RetryAccepted \/ RetryRefused \/ DeleteSent \/ DeleteFails \/ TakeSnapshot
           \/ Submitted \/ SubmitRefused \/ SubmitDenied
    BY <1>3, <1>0, Zenon
    DEF RetryAccepted, RetryRefused, DeleteSent, DeleteFails, TakeSnapshot, Submitted,
        SubmitRefused, SubmitDenied, ghosts
<1>4. CASE Clear \/ Update \/ Stop \/ Exit \/ Restart \/ UNCHANGED vars
    BY <1>4, <1>0, Zenon DEF Clear, Update, Stop, Exit, Restart, vars, ghosts
<1>5. CASE Save \/ SaveCrowded \/ SaveFails
    <2>1. PICK n \in {0, Excess} :
             \/ dropped' = dropped \cup Overflow(n)
             \/ dropped' = dropped \cup Overflow(n) \cup
                   (IF phase = "final" THEN EventsOf(batch) ELSE {})
        BY <1>5, Zenon DEF Save, SaveCrowded, Inserts, SaveFails
    <2>2. InRows(buffer) = InRows(Spare(n)) \cup Overflow(n)
        BY <1>t, SpareIs, Zenon DEF FlushOK
    <2> QED
        BY <2>1, <2>2
<1>6. CASE Expire
    <2>1. EventsOf(Head(buffer)) \subseteq InRows(buffer)
        BY <1>6, <1>t, RowsTail DEF Expire, FlushOK
    <2> QED
        BY <1>6, <2>1 DEF Expire
<1>7. CASE Crash
    BY <1>7 DEF Crash
<1> QED
    BY StepCases, <1>1, <1>2, <1>3, <1>4, <1>5, <1>6, <1>7, <1>0

\* Racers are added from what is being recorded.
LEMMA RacersMove ==
    ASSUME [Next]_vars
    PROVE  racers \subseteq racers' /\ racers' \subseteq racers \cup held \cup (seen' \ seen) \cup held'
<1>0. CASE UNCHANGED racers
    BY <1>0
<1>1. ASSUME NEW e \in Events, Lookup(e)
      PROVE  racers \subseteq racers' /\ racers' \subseteq racers \cup held'
    BY <1>1 DEF Lookup, Racing
<1>2. ASSUME NEW next, Loads(next) PROVE UNCHANGED racers
    BY <1>2, Zenon DEF Loads, Load, LoadFails, ghosts
<1>3. CASE \/ RetryAccepted \/ RetryRefused \/ DeleteSent \/ DeleteFails
           \/ Submitted \/ SubmitRefused \/ SubmitDenied
    BY <1>3, <1>0, Zenon
    DEF RetryAccepted, RetryRefused, DeleteSent, DeleteFails, Submitted, SubmitRefused,
        SubmitDenied, ghosts
<1>4. CASE Save \/ SaveCrowded \/ SaveFails \/ Clear \/ Expire \/ Stop \/ UNCHANGED vars
    BY <1>4, <1>0, Zenon
    DEF Save, SaveCrowded, Inserts, SaveFails, Clear, Expire, Stop, vars, ghosts
<1>5. CASE Exit \/ Crash \/ Restart
    BY <1>5, <1>0, Zenon DEF Exit, Crash, Restart, Reset, ghosts
<1>6. CASE Update
    BY <1>6 DEF Update, Racing
<1>7. CASE TakeSnapshot
    BY <1>7 DEF TakeSnapshot
<1> QED
    BY StepCases, <1>1, <1>2, <1>3, <1>4, <1>5, <1>6, <1>7, <1>0

LEMMA FlagsMove ==
    ASSUME TypeOK, RetryPass, [Next]_vars
    PROVE  /\ attached' \in BOOLEAN /\ ambiguous' \in BOOLEAN /\ midway' \in BOOLEAN
           /\ ambiguous => ambiguous'
           /\ midway => midway'
<1>t. EventsOK
    BY TypeParts
<1> USE <1>t DEF EventsOK, ghosts
<1>r. ASSUME NEW b, Refuses(b) PROVE ambiguous' \in BOOLEAN /\ (ambiguous => ambiguous')
    BY <1>r, Zenon DEF Refuses, TooLarge, Fails
<1>1. ASSUME NEW e \in Events, Lookup(e)
      PROVE  attached' = TRUE /\ UNCHANGED <<ambiguous, midway>>
    BY <1>1, Zenon DEF Lookup
<1>2. ASSUME NEW next, Loads(next) PROVE UNCHANGED <<attached, ambiguous, midway>>
    BY <1>2, Zenon DEF Loads, Load, LoadFails
<1>3. CASE RetryAccepted \/ Submitted
    BY <1>3, Zenon DEF RetryAccepted, Submitted, Accepts
<1>4. CASE RetryRefused
    <2>1. attached' = attached /\ ambiguous' \in BOOLEAN /\ (ambiguous => ambiguous')
        BY <1>4, <1>r, Zenon DEF RetryRefused
    <2>2. midway' = (midway \/ Len(pending) < Len(buffer))
        BY <1>4, Zenon DEF RetryRefused
    <2> QED
        BY <2>1, <2>2
<1>5. CASE SubmitRefused
    BY <1>5, <1>r, Zenon DEF SubmitRefused
<1>6. CASE \/ DeleteSent \/ DeleteFails \/ TakeSnapshot \/ SubmitDenied
           \/ Save \/ SaveCrowded \/ SaveFails \/ Clear
    BY <1>6, Zenon
    DEF DeleteSent, DeleteFails, TakeSnapshot, SubmitDenied, Save, SaveCrowded, Inserts,
        SaveFails, Clear
<1>7. CASE Update \/ Expire \/ Stop \/ Exit \/ UNCHANGED vars
    BY <1>7, Zenon DEF Update, Expire, Stop, Exit, vars
<1>8. CASE Crash \/ Restart
    BY <1>8, Zenon DEF Crash, Restart, Reset
<1> QED
    BY StepCases, <1>1, <1>2, <1>3, <1>4, <1>5, <1>6, <1>7, <1>8, Zenon

LEMMA EventsStep == TypeOK /\ OneHeld /\ OnlySeen /\ RetryPass /\ [Next]_vars => EventsOK' /\ OneHeld'
<1> SUFFICES ASSUME TypeOK, OneHeld, OnlySeen, RetryPass, [Next]_vars PROVE EventsOK' /\ OneHeld'
    OBVIOUS
<1>t. EventsOK
    BY TypeParts
<1>1. seen \subseteq seen' /\ seen' \subseteq Events /\ held' \subseteq seen' /\ OneHeld'
    <2>1. CASE \E e \in Events : seen' = seen \cup {e} /\ held' = {e}
        BY <2>1, <1>t DEF EventsOK, OneHeld
    <2>2. CASE seen' = seen /\ held' \in {held, {}}
        <3>1. held' = held \/ held' = {}
            BY <2>2
        <3> QED
            BY <2>2, <3>1, <1>t DEF EventsOK, OneHeld
    <2> QED
        BY <2>1, <2>2, HeldMoves, Zenon
<1>2. Cardinality(held') <= 1
    <2>1. CASE held' = {}
        BY <2>1, FS_EmptySet
    <2>2. ASSUME NEW e \in Events, held' = {e} PROVE Cardinality(held') <= 1
        <3>1. Cardinality({e}) = 1
            BY FS_Singleton
        <3> QED
            BY <2>2, <3>1
    <2> QED
        BY <1>1, <2>1, <2>2 DEF OneHeld
<1>3. dropped' \subseteq seen'
    BY <1>1, <1>t, DroppedMoves DEF OnlySeen, EventsOK
<1>4. racers' \subseteq seen'
    BY <1>1, <1>t, RacersMove DEF EventsOK
<1> QED
    BY <1>1, <1>2, <1>3, <1>4, FlagsMove DEF EventsOK

----------------------------------------------------------------------------
(* Where the events are.                                                   *)

Flow ==
    /\ OnlySeen /\ BatchOfTable /\ EntryOfHeld /\ RetryPass /\ OnlyRacersVanish

LEMMA SameTable ==
    ASSUME table' = table
    PROVE  InTable' = InTable /\ \A a : Entries(a)' = Entries(a)
BY Zenon DEF InTable, Snapshot, Entries

LEMMA SameReceived == ASSUME received' = received PROVE Received' = Received
BY Zenon DEF Received

LEMMA ClearedTable ==
    ASSUME table' = <<>> PROVE InTable' = {}
BY NextTableEvents, NoEntries

LEMMA LookupFlow ==
    ASSUME TypeOK, Flow, NEW e \in Events, Lookup(e)
    PROVE  Flow'
<1>1. TableOK
    BY TypeParts
<1>2. /\ InTable' \subseteq InTable /\ InTable \subseteq InTable' \cup dropped'
      /\ dropped \subseteq dropped' /\ Entries(Address[e])' # {}
    BY <1>1, LookupIs
<1>3. /\ UNCHANGED <<pc, batch, pending, buffer, phase>>
      /\ Received' = Received
      /\ phase # "exited"
    BY SameReceived, Zenon DEF Lookup, flushVars
<1>4. seen' = seen \cup {e} /\ held' = {e} /\ attached' = TRUE /\ held = {}
    BY Zenon DEF Lookup
<1>5. racers' = racers \cup (IF InFlight THEN {e} ELSE {})
    BY Zenon DEF Lookup, Racing
<1>6. OnlySeen'
    BY <1>2, <1>3, <1>4 DEF Flow, OnlySeen
<1>7. BatchOfTable'
    BY <1>2, <1>3, <1>4, <1>5 DEF Flow, BatchOfTable, InFlight
<1>8. EntryOfHeld'
    BY <1>2, <1>4 DEF EntryOfHeld
<1>9. RetryPass'
    BY <1>3 DEF Flow, RetryPass
<1>10. OnlyRacersVanish'
    BY <1>2, <1>3, <1>4, <1>5 DEF Flow, OnlyRacersVanish, Unaccounted
<1> QED
    BY <1>6, <1>7, <1>8, <1>9, <1>10 DEF Flow

LEMMA UpdateFlow ==
    ASSUME TypeOK, OneHeld, Flow, Update
    PROVE  Flow'
<1>1. TableOK /\ EventsOK
    BY TypeParts
<1>2. InTable' \subseteq InTable \cup held /\ InTable \subseteq InTable'
      /\ (attached => held \subseteq InTable') /\ (~attached => InTable' = InTable)
    BY <1>1, UpdateIs DEF Flow, EntryOfHeld
<1>3. /\ UNCHANGED <<seen, pc, batch, pending, buffer, phase, dropped>>
      /\ Received' = Received
      /\ phase # "exited"
    BY SameReceived, Zenon DEF Update, flushVars
<1>4. held' = {} /\ attached' = FALSE
    BY Zenon DEF Update
<1>5. racers \subseteq racers' /\ (InFlight => held \subseteq racers')
    BY DEF Update, Racing
<1>6. OnlySeen'
    BY <1>1, <1>2, <1>3, <1>4 DEF Flow, OnlySeen, EventsOK
<1>7. BatchOfTable'
    BY <1>2, <1>3, <1>4, <1>5 DEF Flow, BatchOfTable, InFlight
<1>8. EntryOfHeld'
    BY <1>4 DEF EntryOfHeld
<1>9. RetryPass'
    BY <1>3 DEF Flow, RetryPass
<1>10. OnlyRacersVanish'
    <2>1. attached \/ held \subseteq racers
        BY DEF Flow, EntryOfHeld
    <2> QED
        BY <1>2, <1>3, <1>4, <1>5, <2>1 DEF Flow, OnlyRacersVanish, Unaccounted
<1> QED
    BY <1>6, <1>7, <1>8, <1>9, <1>10 DEF Flow

\* Steps of the flush goroutine that leave the table and what is being recorded alone.
LEMMA OnlyFlush ==
    ASSUME Flow, UNCHANGED <<seen, held, table, attached>>, racers \subseteq racers'
    PROVE  InTable' = InTable /\ EntryOfHeld'
<1>1. InTable' = InTable /\ \A a : Entries(a)' = Entries(a)
    BY SameTable
<1>2. EntryOfHeld'
    BY <1>1 DEF Flow, EntryOfHeld
<1> QED
    BY <1>1, <1>2

LEMMA LoadFlow ==
    ASSUME TypeOK, Flow, NEW next, Loads(next), pc = "idle", next \in {phase, "final"},
           phase \in {"running", "closing"}
    PROVE  Flow'
<1>0. pending = <<>>
    BY DEF Flow, RetryPass
<1>1. UNCHANGED <<seen, held, table, attached, batch, buffer, dropped, racers>>
      /\ Received' = Received /\ phase' = next
      /\ \/ pending' = buffer /\ pc' = IF buffer = <<>> THEN "snapshot" ELSE "retry"
         \/ pending' = <<>> /\ pc' = "snapshot"
    BY <1>0, SameReceived, Zenon DEF Loads, Load, LoadFails, loopVars, ghosts
<1>2. InTable' = InTable /\ EntryOfHeld'
    BY <1>1, OnlyFlush
<1>3. OnlySeen'
    BY <1>1, <1>2, NoRows DEF Flow, OnlySeen
<1>4. pc' \in {"snapshot", "retry"}
    BY <1>1
<1>5. BatchOfTable'
    BY <1>4 DEF BatchOfTable
<1>6. RetryPass'
    <2>1. pc' = "retry" => InRows(buffer') = InRows(pending')
        BY <1>1
    <2>2. pc' # "delete" /\ (pc' = "retry" <=> pending' # <<>>)
        BY <1>1
    <2> QED
        BY <2>1, <2>2 DEF RetryPass
<1>7. OnlyRacersVanish'
    BY <1>1, <1>2 DEF Flow, OnlyRacersVanish, Unaccounted
<1> QED
    BY <1>2, <1>3, <1>5, <1>6, <1>7 DEF Flow

LEMMA RetryFlow ==
    ASSUME TypeOK, Flow, RetryAccepted \/ RetryRefused
    PROVE  Flow'
<1>t. FlushOK /\ CountsOK
    BY TypeParts
<1>0. pc = "retry" /\ pending # <<>>
    BY DEF RetryAccepted, RetryRefused, Flow, RetryPass
<1>1. /\ Head(pending) \in Batches
      /\ InRows(pending) = EventsOf(Head(pending)) \cup InRows(Tail(pending))
    BY <1>0, <1>t, RowsTail DEF FlushOK
<1>2. UNCHANGED <<seen, held, table, attached, batch, buffer, phase, dropped, racers>>
    BY Zenon DEF RetryAccepted, RetryRefused, loopVars
<1>3. InTable' = InTable /\ EntryOfHeld'
    BY <1>2, OnlyFlush
<1>4. CASE RetryAccepted
    <2>1. /\ Received' = Received \cup EventsOf(Head(pending))
          /\ pending' = Tail(pending)
          /\ pc' = IF Tail(pending) = <<>> THEN "delete" ELSE "retry"
        BY <1>4, <1>1, <1>t, SubmitIs, Zenon DEF RetryAccepted
    <2>2. OnlySeen'
        BY <1>1, <1>2, <1>3, <2>1 DEF Flow, OnlySeen
    <2>3. BatchOfTable'
        BY <2>1 DEF BatchOfTable
    <2>4. RetryPass'
        <3>1. InRows(buffer') \subseteq Received' \cup InRows(pending')
            BY <1>0, <1>1, <1>2, <2>1 DEF Flow, RetryPass
        <3> QED
            BY <1>0, <1>2, <2>1, <3>1 DEF Flow, RetryPass
    <2>5. OnlyRacersVanish'
        BY <1>2, <1>3, <2>1 DEF Flow, OnlyRacersVanish, Unaccounted
    <2> QED
        BY <1>3, <2>2, <2>3, <2>4, <2>5 DEF Flow
<1>5. CASE RetryRefused
    <2>1. /\ Received \subseteq Received'
          /\ Received' \subseteq Received \cup EventsOf(Head(pending))
          /\ pending' = <<>> /\ pc' = "snapshot"
        BY <1>5, <1>1, <1>t, SubmitIs, Zenon DEF RetryRefused
    <2>2. OnlySeen'
        BY <1>1, <1>2, <1>3, <2>1, NoRows DEF Flow, OnlySeen
    <2>3. BatchOfTable'
        BY <2>1 DEF BatchOfTable
    <2>4. RetryPass'
        BY <1>0, <1>2, <2>1 DEF Flow, RetryPass
    <2>5. OnlyRacersVanish'
        BY <1>2, <1>3, <2>1 DEF Flow, OnlyRacersVanish, Unaccounted
    <2> QED
        BY <1>3, <2>2, <2>3, <2>4, <2>5 DEF Flow
<1> QED
    BY <1>4, <1>5

LEMMA DeleteFlow ==
    ASSUME TypeOK, Flow, DeleteSent \/ DeleteFails
    PROVE  Flow'
<1>1. /\ UNCHANGED <<seen, held, table, attached, batch, pending, phase, dropped, racers>>
      /\ Received' = Received
      /\ pc = "delete" /\ pc' = "snapshot" /\ buffer' \in {<<>>, buffer}
    BY SameReceived, Zenon DEF DeleteSent, DeleteFails, loopVars, ghosts
<1>2. InTable' = InTable /\ EntryOfHeld'
    BY <1>1, OnlyFlush
<1>3. pending = <<>> /\ InRows(buffer) \subseteq Received
    BY <1>1, NoRows DEF Flow, RetryPass
<1>4. InRows(buffer') \subseteq InRows(buffer)
    BY <1>1, NoRows
<1>5. OnlySeen'
    BY <1>1, <1>2, <1>4 DEF Flow, OnlySeen
<1>6. BatchOfTable'
    BY <1>1 DEF BatchOfTable
<1>7. RetryPass'
    BY <1>1, <1>3 DEF Flow, RetryPass
<1>8. OnlyRacersVanish'
    BY <1>1, <1>2, <1>3 DEF Flow, OnlyRacersVanish, Unaccounted
<1> QED
    BY <1>2, <1>5, <1>6, <1>7, <1>8 DEF Flow

LEMMA SnapshotFlow ==
    ASSUME TypeOK, Flow, TakeSnapshot
    PROVE  Flow'
<1>t. TableOK
    BY TypeParts
<1>1. /\ UNCHANGED <<seen, held, table, attached, pending, buffer, phase, dropped>>
      /\ Received' = Received /\ pc = "snapshot"
    BY SameReceived, Zenon DEF TakeSnapshot, loopVars
<1>2. CASE table = <<>>
    <2>1. pc' = "idle" /\ UNCHANGED <<batch, racers>>
        BY <1>2, Zenon DEF TakeSnapshot
    <2>2. InTable' = InTable /\ EntryOfHeld'
        BY <1>1, <2>1, OnlyFlush
    <2>3. InTable = {} /\ held \subseteq racers
        <3>1. InTable = {}
            BY <1>2, <1>t, TableEvents, NoEntries DEF TableOK
        <3>2. \A a : Entries(a) = {}
            BY <1>2 DEF Entries
        <3>3. held \subseteq racers
            BY <3>2 DEF Flow, EntryOfHeld
        <3> QED
            BY <3>1, <3>3
    <2>4. OnlySeen'
        BY <1>1, <2>1, <2>2 DEF Flow, OnlySeen
    <2>5. BatchOfTable'
        BY <1>1, <2>1, <2>2, <2>3 DEF BatchOfTable
    <2>6. RetryPass'
        BY <1>1, <2>1 DEF Flow, RetryPass
    <2>7. OnlyRacersVanish'
        BY <1>1, <2>1, <2>2 DEF Flow, OnlyRacersVanish, Unaccounted
    <2> QED
        BY <2>2, <2>4, <2>5, <2>6, <2>7 DEF Flow
<1>3. CASE table # <<>>
    <2>1. pc' = "submit" /\ batch' = Snapshot /\ racers' = racers \cup held
        BY <1>3, Zenon DEF TakeSnapshot
    <2>2. InTable' = InTable /\ EntryOfHeld'
        BY <1>1, <2>1, OnlyFlush
    <2>3. EventsOf(batch') = InTable
        BY <2>1, <1>t, TableEvents DEF TableOK
    <2>4. OnlySeen'
        BY <1>1, <2>1, <2>2, <2>3 DEF Flow, OnlySeen
    <2>5. BatchOfTable'
        BY <1>1, <2>1, <2>2, <2>3 DEF BatchOfTable
    <2>6. RetryPass'
        BY <1>1, <2>1 DEF Flow, RetryPass
    <2>7. OnlyRacersVanish'
        BY <1>1, <2>1, <2>2 DEF Flow, OnlyRacersVanish, Unaccounted
    <2> QED
        BY <2>2, <2>4, <2>5, <2>6, <2>7 DEF Flow
<1> QED
    BY <1>2, <1>3

LEMMA SubmitFlow ==
    ASSUME TypeOK, Flow, Submitted \/ SubmitRefused \/ SubmitDenied
    PROVE  Flow'
<1>t. FlushOK /\ CountsOK
    BY TypeParts
<1>1. UNCHANGED <<seen, held, table, attached, batch, pending, buffer, dropped, racers>>
      /\ pc = "submit" /\ pc' \in {"clear", "save"}
    BY Zenon DEF Submitted, SubmitRefused, SubmitDenied, loopVars, ghosts
<1>2. InTable' = InTable /\ EntryOfHeld'
    BY <1>1, OnlyFlush
<1>3. /\ Received \subseteq Received' /\ Received' \subseteq Received \cup EventsOf(batch)
      /\ pc' = "clear" => EventsOf(batch) \subseteq Received'
    <2>1. CASE Submitted
        <3>1. Received' = Received \cup EventsOf(batch)
            BY <2>1, <1>t, SubmitIs, Zenon DEF Submitted, FlushOK
        <3> QED
            BY <3>1
    <2>2. CASE SubmitRefused
        BY <2>2, <1>t, SubmitIs, Zenon DEF SubmitRefused, FlushOK
    <2>3. CASE SubmitDenied
        BY <2>3, SameReceived DEF SubmitDenied
    <2> QED
        BY <2>1, <2>2, <2>3
<1>4. OnlySeen'
    BY <1>1, <1>2, <1>3 DEF Flow, OnlySeen
<1>5. BatchOfTable'
    BY <1>1, <1>2, <1>3 DEF Flow, BatchOfTable
<1>6. RetryPass'
    BY <1>1 DEF Flow, RetryPass
<1>7. OnlyRacersVanish'
    BY <1>1, <1>2, <1>3 DEF Flow, OnlyRacersVanish, Unaccounted
<1> QED
    BY <1>2, <1>4, <1>5, <1>6, <1>7 DEF Flow

LEMMA SaveFlow ==
    ASSUME TypeOK, Flow, Save \/ SaveCrowded
    PROVE  Flow'
<1>t. FlushOK /\ BufferOK /\ CountsOK
    BY TypeParts
<1>0. PICK n \in {0, Excess} :
          Inserts(n) /\ InRows(buffer') = InRows(Spare(n)) \cup EventsOf(batch)
    BY <1>t, InsertIs, Zenon
<1>1. UNCHANGED <<seen, held, table, attached, batch, pending, phase, racers>>
      /\ Received' = Received /\ pc = "save" /\ pc' = "clear"
      /\ dropped' = dropped \cup Overflow(n)
    BY <1>0, SameReceived, Zenon DEF Inserts, loopVars
<1>2. InTable' = InTable /\ EntryOfHeld'
    BY <1>1, OnlyFlush
<1>3. InRows(buffer') = InRows(Spare(n)) \cup EventsOf(batch)
      /\ InRows(buffer) = InRows(Spare(n)) \cup Overflow(n)
    BY <1>0, <1>t, SpareIs, Zenon DEF FlushOK
<1>4. OnlySeen'
    BY <1>1, <1>2, <1>3 DEF Flow, OnlySeen
<1>5. BatchOfTable'
    BY <1>1, <1>2, <1>3 DEF Flow, BatchOfTable
<1>6. RetryPass'
    BY <1>1 DEF Flow, RetryPass
<1>7. OnlyRacersVanish'
    BY <1>1, <1>2, <1>3 DEF Flow, OnlyRacersVanish, Unaccounted
<1> QED
    BY <1>2, <1>4, <1>5, <1>6, <1>7 DEF Flow

LEMMA SaveFailsFlow ==
    ASSUME TypeOK, Flow, SaveFails
    PROVE  Flow'
<1>t. FlushOK
    BY TypeParts
<1>0. PICK n \in {0, Excess} :
          /\ buffer' = Spare(n)
          /\ dropped' = dropped \cup Overflow(n) \cup
                 (IF phase = "final" THEN EventsOf(batch) ELSE {})
    BY Zenon DEF SaveFails
<1>1. UNCHANGED <<seen, held, table, attached, pending, phase, racers>>
      /\ Received' = Received /\ pc = "save" /\ pc' = "idle" /\ batch' = NoBatch
      /\ dropped' = dropped \cup Overflow(n) \cup
             (IF phase = "final" THEN EventsOf(batch) ELSE {})
    BY <1>0, SameReceived, Zenon DEF SaveFails, loopVars
<1>2. InTable' = InTable /\ EntryOfHeld'
    BY <1>1, OnlyFlush
<1>3. InRows(buffer) = InRows(buffer') \cup Overflow(n) /\ EventsOf(batch') = {}
    <2>1. InRows(buffer) = InRows(Spare(n)) \cup Overflow(n)
        BY <1>t, SpareIs, Zenon DEF FlushOK
    <2> QED
        BY <1>0, <1>1, <2>1, NoBatchIsEmpty
<1>4. OnlySeen'
    BY <1>1, <1>2, <1>3 DEF Flow, OnlySeen
<1>5. BatchOfTable'
    BY <1>1, <1>2, <1>3 DEF Flow, BatchOfTable
<1>6. RetryPass'
    BY <1>1 DEF Flow, RetryPass
<1>7. OnlyRacersVanish'
    BY <1>1, <1>2, <1>3 DEF Flow, OnlyRacersVanish, Unaccounted
<1> QED
    BY <1>2, <1>4, <1>5, <1>6, <1>7 DEF Flow

LEMMA ClearFlow ==
    ASSUME TypeOK, Flow, Clear
    PROVE  Flow'
<1>1. UNCHANGED <<seen, held, pending, buffer, phase, racers, dropped>>
      /\ Received' = Received /\ pc = "clear" /\ pc' = "idle" /\ batch' = NoBatch
      /\ attached' = FALSE
    BY SameReceived, Zenon DEF Clear, loopVars, ghosts
<1>2. InTable' = {} /\ EventsOf(batch') = {}
    BY <1>1, ClearedTable, NoBatchIsEmpty DEF Clear
<1>3. /\ InTable \subseteq Received \cup InRows(buffer) \cup dropped \cup racers
      /\ held \subseteq racers
    BY <1>1 DEF Flow, BatchOfTable
<1>4. OnlySeen'
    BY <1>1, <1>2 DEF Flow, OnlySeen
<1>5. BatchOfTable'
    BY <1>1, <1>2, <1>3 DEF BatchOfTable
<1>6. EntryOfHeld'
    BY <1>1, <1>3 DEF EntryOfHeld
<1>7. RetryPass'
    BY <1>1 DEF Flow, RetryPass
<1>8. OnlyRacersVanish'
    BY <1>1, <1>2, <1>3 DEF Flow, OnlyRacersVanish, Unaccounted
<1> QED
    BY <1>4, <1>5, <1>6, <1>7, <1>8 DEF Flow

LEMMA ExpireFlow ==
    ASSUME TypeOK, Flow, Expire
    PROVE  Flow'
<1>t. FlushOK
    BY TypeParts
<1>1. UNCHANGED <<seen, held, table, attached, pc, batch, pending, phase, racers>>
      /\ Received' = Received
      /\ dropped' = dropped \cup EventsOf(Head(buffer))
    BY SameReceived, Zenon DEF Expire, loopVars
<1>2. InTable' = InTable /\ EntryOfHeld'
    BY <1>1, OnlyFlush
<1>3. InRows(buffer) = EventsOf(Head(buffer)) \cup InRows(buffer')
    BY <1>t, RowsTail DEF Expire, FlushOK
<1>4. OnlySeen'
    BY <1>1, <1>2, <1>3 DEF Flow, OnlySeen
<1>5. BatchOfTable'
    BY <1>1, <1>2, <1>3 DEF Flow, BatchOfTable
<1>6. RetryPass'
    BY <1>1, <1>3 DEF Flow, RetryPass
<1>7. OnlyRacersVanish'
    BY <1>1, <1>2, <1>3 DEF Flow, OnlyRacersVanish, Unaccounted
<1> QED
    BY <1>2, <1>4, <1>5, <1>6, <1>7 DEF Flow

LEMMA ExitedStep == Exited /\ [Next]_vars => Exited'
<1> SUFFICES ASSUME Exited, [Next]_vars PROVE Exited'
    OBVIOUS
<1>1. ASSUME NEW e \in Events, Lookup(e) PROVE Exited'
    BY <1>1, Zenon DEF Lookup, Exited
<1>2. ASSUME NEW next, Loads(next), next \in {phase, "final"}, phase \in {"running", "closing"}
      PROVE  Exited'
    BY <1>2, Zenon DEF Loads, Load, LoadFails, Exited
<1>3. CASE RetryAccepted \/ RetryRefused \/ DeleteSent \/ DeleteFails \/ TakeSnapshot
    BY <1>3, Zenon
    DEF RetryAccepted, RetryRefused, DeleteSent, DeleteFails, TakeSnapshot, Exited
<1>4. CASE Submitted \/ SubmitRefused \/ SubmitDenied \/ Save \/ SaveCrowded \/ SaveFails \/ Clear
    BY <1>4, Zenon
    DEF Submitted, SubmitRefused, SubmitDenied, Save, SaveCrowded, Inserts, SaveFails, Clear,
        Exited
<1>5. CASE Update \/ Expire \/ Stop \/ UNCHANGED vars
    BY <1>5, Zenon DEF Update, Expire, Stop, vars, Exited, loopVars
<1>6. CASE Exit \/ Crash \/ Restart
    BY <1>6, Zenon DEF Exit, Crash, Restart, Reset, Exited, flushVars
<1> QED
    BY StepCases, <1>1, <1>2, <1>3, <1>4, <1>5, <1>6, Zenon

\* The process is told to stop, exits, dies or starts again.
LEMMA ShutdownFlow ==
    ASSUME TypeOK, Exited, Flow, Stop \/ Exit \/ Crash \/ Restart
    PROVE  Flow'
<1>1. CASE Stop
    <2>1. UNCHANGED <<seen, held, table, attached, pc, batch, pending, buffer, racers, dropped>>
          /\ Received' = Received /\ phase' = "closing" /\ phase = "running"
        BY <1>1, SameReceived, Zenon DEF Stop, loopVars, flushVars, ghosts
    <2>2. InTable' = InTable /\ EntryOfHeld'
        BY <2>1, OnlyFlush
    <2>3. OnlySeen' /\ OnlyRacersVanish'
        BY <2>1, <2>2 DEF Flow, OnlySeen, OnlyRacersVanish, Unaccounted
    <2>4. BatchOfTable'
        BY <2>1, <2>2 DEF Flow, BatchOfTable
    <2>5. RetryPass'
        BY <2>1 DEF Flow, RetryPass
    <2> QED
        BY <2>2, <2>3, <2>4, <2>5 DEF Flow
<1>2. CASE Exit
    <2>1. UNCHANGED <<seen, pc, batch, pending, buffer, racers, dropped>>
          /\ Received' = Received /\ phase' = "exited" /\ pc = "idle" /\ phase = "final"
          /\ held' = {}
        BY <1>2, SameReceived, Zenon DEF Exit, flushVars, ghosts
    <2>2. InTable' = {}
        BY <1>2, ClearedTable DEF Exit
    <2>3. OnlySeen'
        BY <2>1, <2>2 DEF Flow, OnlySeen
    <2>4. BatchOfTable'
        BY <2>1, <2>2 DEF BatchOfTable
    <2>5. RetryPass' /\ EntryOfHeld'
        BY <2>1 DEF Flow, RetryPass, EntryOfHeld
    <2>6. OnlyRacersVanish'
        BY <2>1, <2>2 DEF Flow, BatchOfTable, OnlyRacersVanish, Unaccounted
    <2> QED
        BY <2>3, <2>4, <2>5, <2>6 DEF Flow
<1>3. CASE Crash \/ Restart
    <2>1. /\ UNCHANGED <<seen, buffer, racers>> /\ Received' = Received
          /\ pc' = "idle" /\ phase' = "running" /\ batch' = NoBatch /\ pending' = <<>>
          /\ held' = {} /\ table' = <<>>
        BY <1>3, SameReceived, Zenon DEF Crash, Restart, Reset
    <2>2. InTable' = {} /\ EventsOf(batch') = {} /\ InRows(pending') = {}
        BY <2>1, ClearedTable, NoBatchIsEmpty, NoRows
    <2>3. \/ InTable \cup held \subseteq dropped'
          \/ InTable = {} /\ held = {}
        <3>1. CASE Crash
            BY <3>1 DEF Crash
        <3>2. CASE Restart
            <4>1. table = <<>> /\ held = {}
                BY <3>2 DEF Restart, Exited
            <4>2. InTable = EventsIn(<<>>)
                BY <4>1, NoEntries, TableEvents
            <4> QED
                BY <4>1, <4>2, NoEntries
        <3> QED
            BY <1>3, <3>1, <3>2
    <2>4. dropped \subseteq dropped'
        BY <1>3 DEF Crash, Restart
    <2>5. OnlySeen'
        BY <2>1, <2>2 DEF Flow, OnlySeen
    <2>6. BatchOfTable' /\ RetryPass' /\ EntryOfHeld'
        BY <2>1, <2>2 DEF BatchOfTable, RetryPass, EntryOfHeld
    <2>7. OnlyRacersVanish'
        BY <2>1, <2>2, <2>3, <2>4 DEF Flow, OnlyRacersVanish, Unaccounted
    <2> QED
        BY <2>5, <2>6, <2>7 DEF Flow
<1> QED
    BY <1>1, <1>2, <1>3

LEMMA FlowStep == TypeOK /\ OneHeld /\ Exited /\ Flow /\ [Next]_vars => Flow'
<1> SUFFICES ASSUME TypeOK, OneHeld, Exited, Flow, [Next]_vars PROVE Flow'
    OBVIOUS
<1>1. CASE UNCHANGED vars
    <2>1. /\ UNCHANGED <<seen, held, table, attached, pc, batch, pending, buffer, phase>>
          /\ UNCHANGED <<dropped, racers>>
          /\ Received' = Received
        BY <1>1, SameReceived DEF vars
    <2>2. InTable' = InTable /\ EntryOfHeld'
        BY <2>1, OnlyFlush
    <2>3. OnlySeen' /\ OnlyRacersVanish'
        BY <2>1, <2>2 DEF Flow, OnlySeen, OnlyRacersVanish, Unaccounted
    <2>4. BatchOfTable'
        BY <2>1, <2>2 DEF Flow, BatchOfTable
    <2>5. RetryPass'
        BY <2>1 DEF Flow, RetryPass
    <2> QED
        BY <2>2, <2>3, <2>4, <2>5 DEF Flow
<1> QED
    BY StepCases, <1>1, LookupFlow, UpdateFlow, LoadFlow, RetryFlow, DeleteFlow, SnapshotFlow,
       SubmitFlow, SaveFlow, SaveFailsFlow, ClearFlow, ExpireFlow, ShutdownFlow, Zenon

----------------------------------------------------------------------------
(* Where an event is, it is once.                                          *)

LEMMA NotReceived ==
    ASSUME CountsOK, NEW e \in Events
    PROVE  e \notin Received <=> received[e] = 0
<1>1. received[e] \in 0 .. 2
    BY DEF CountsOK
<1> QED
    BY <1>1 DEF Received

LEMMA NothingPending ==
    ASSUME RetryPass, pc # "retry"
    PROVE  pending = <<>> /\ InRows(pending) = {}
BY NoRows DEF RetryPass

LEMMA LoopOnePlace ==
    ASSUME TypeOK, OneHeld, Flow, OnePlace, Update \/ \E e \in Events : Lookup(e)
    PROVE  OnePlace'
<1>t. TableOK
    BY TypeParts
<1>1. ASSUME NEW e \in Events, Lookup(e) PROVE OnePlace'
    <2>1. InTable' \subseteq InTable
        BY <1>1, <1>t, LookupIs
    <2>2. UNCHANGED <<pc, batch, pending, buffer, received>> /\ Received' = Received
          /\ held' = {e} /\ e \notin seen
        BY <1>1, SameReceived, Zenon DEF Lookup, flushVars
    <2>3. e \notin Received \cup InRows(buffer) \cup InRows(pending) \cup EventsOf(batch) \cup InTable
        BY <2>2 DEF Flow, OnlySeen
    <2> QED
        BY <2>1, <2>2, <2>3 DEF OnePlace
<1>2. CASE Update
    <2>1. InTable' \subseteq InTable \cup held
        BY <1>2, <1>t, UpdateIs
    <2>2. UNCHANGED <<pc, batch, pending, buffer, received>> /\ Received' = Received
          /\ held' = {}
        BY <1>2, SameReceived, Zenon DEF Update, flushVars
    <2> QED
        BY <2>1, <2>2 DEF OnePlace
<1> QED
    BY <1>1, <1>2

LEMMA RetryOnePlace ==
    ASSUME TypeOK, Flow, OnePlace, ~ambiguous', ~midway',
           RetryAccepted \/ RetryRefused
    PROVE  OnePlace'
<1>t. FlushOK /\ CountsOK
    BY TypeParts
<1>0. pc = "retry" /\ pending # <<>>
    BY DEF RetryAccepted, RetryRefused, Flow, RetryPass
<1>1. /\ Head(pending) \in Batches /\ Tail(pending) \in Seq(Batches)
      /\ InRows(pending) = EventsOf(Head(pending)) \cup InRows(Tail(pending))
      /\ EventsOf(Head(pending)) \subseteq Events
    BY <1>0, <1>t, RowsTail, BatchEvents DEF FlushOK
<1>2. UNCHANGED <<held, table, batch, buffer>> /\ InTable' = InTable
    BY SameTable, Zenon DEF RetryAccepted, RetryRefused, loopVars
<1>3. CASE RetryAccepted
    <2>1. /\ Received' = Received \cup EventsOf(Head(pending))
          /\ pending' = Tail(pending)
          /\ pc' = IF Tail(pending) = <<>> THEN "delete" ELSE "retry"
          /\ \A e \in Events : received[e] = 0 => received'[e] <= 1
          /\ \A e \in Events \ EventsOf(Head(pending)) : received'[e] = received[e]
        BY <1>3, <1>1, <1>t, SubmitIs, Zenon DEF RetryAccepted
    <2>2. /\ Disjoint(pending') /\ SameEnd(pending', buffer')
          /\ EventsOf(Head(pending)) \cap InRows(pending') = {}
        BY <1>0, <1>2, <1>t, <2>1, DisjointTail, SameEnds DEF OnePlace, FlushOK
    <2>3. \A e \in Events : received'[e] <= 1
        <3> SUFFICES ASSUME NEW e \in Events PROVE received'[e] <= 1
            OBVIOUS
        <3>1. CASE e \in EventsOf(Head(pending))
            <4>1. received[e] = 0
                BY <3>1, <1>1, <1>t, NotReceived DEF OnePlace
            <4> QED
                BY <4>1, <2>1
        <3>2. CASE e \notin EventsOf(Head(pending))
            BY <3>2, <2>1 DEF OnePlace
        <3> QED
            BY <3>1, <3>2
    <2>4. pc' \in {"retry", "delete"}
        BY <2>1
    <2> QED
        BY <1>0, <1>1, <1>2, <2>1, <2>2, <2>3, <2>4 DEF OnePlace
<1>4. CASE RetryRefused
    <2>1. received' = received /\ Received' = Received /\ pending' = <<>> /\ pc' = "snapshot"
        BY <1>4, <1>1, <1>t, SubmitIs, SameReceived, Zenon DEF RetryRefused
    <2>2. Len(buffer) <= Len(pending)
        <3>1. ~(Len(pending) < Len(buffer))
            BY <1>4, Zenon DEF RetryRefused
        <3> QED
            BY <3>1, <1>t DEF FlushOK
    <2>3. InRows(buffer) \subseteq InRows(pending) /\ SameEnd(pending', buffer')
        BY <1>2, <2>1, <2>2, <1>t, SameEnds DEF OnePlace, FlushOK
    <2>4. InRows(pending') = {} /\ Disjoint(pending')
        BY <2>1, NoRows DEF Disjoint
    <2> QED
        BY <1>0, <1>2, <2>1, <2>3, <2>4 DEF OnePlace
<1> QED
    BY <1>3, <1>4

LEMMA FlushOnePlace ==
    ASSUME TypeOK, Flow, OnePlace, ~ambiguous', ~midway'
    PROVE  /\ \A next : Loads(next) /\ pc = "idle" => OnePlace'
           /\ DeleteSent \/ DeleteFails \/ TakeSnapshot => OnePlace'
<1>t. FlushOK /\ TableOK
    BY TypeParts
<1>1. ASSUME NEW next, Loads(next), pc = "idle" PROVE OnePlace'
    <2>0. pending = <<>>
        BY <1>1, NothingPending DEF Flow
    <2>1. UNCHANGED <<held, table, batch, buffer, received>> /\ Received' = Received
          /\ InTable' = InTable /\ pending' \in {buffer, <<>>} /\ pc' \in {"snapshot", "retry"}
        BY <1>1, <2>0, SameReceived, SameTable, Zenon DEF Loads, Load, LoadFails, loopVars
    <2>2. SameEnd(pending', buffer') /\ InRows(pending') \subseteq InRows(buffer)
          /\ Disjoint(pending')
        <3>1. CASE pending' = buffer
            BY <3>1, <2>1, <1>t, SameEnds DEF FlushOK, OnePlace
        <3>2. CASE pending' = <<>>
            BY <3>2, <2>1, <1>t, SameEnds, NoRows DEF FlushOK, Disjoint
        <3> QED
            BY <2>1, <3>1, <3>2
    <2> QED
        BY <1>1, <2>1, <2>2 DEF OnePlace
<1>2. CASE DeleteSent
    <2>1. UNCHANGED <<held, table, batch, pending, received>> /\ Received' = Received
          /\ InTable' = InTable /\ buffer' = <<>> /\ pc = "delete" /\ pc' = "snapshot"
        BY <1>2, SameReceived, SameTable, Zenon DEF DeleteSent, loopVars
    <2>2. InRows(buffer') = {} /\ Disjoint(buffer') /\ SameEnd(pending', buffer')
        <3>1. pending' = <<>>
            BY <2>1, NothingPending DEF Flow
        <3> QED
            BY <2>1, <3>1, NoRows DEF Disjoint, SameEnd
    <2> QED
        BY <2>1, <2>2 DEF OnePlace
<1>3. CASE DeleteFails
    BY <1>3 DEF DeleteFails
<1>4. CASE TakeSnapshot
    <2>1. UNCHANGED <<held, table, pending, buffer, received>> /\ Received' = Received
          /\ InTable' = InTable /\ pc = "snapshot"
          /\ \/ pc' = "idle" /\ batch' = batch
             \/ pc' = "submit" /\ batch' = Snapshot
        BY <1>4, SameReceived, SameTable, Zenon DEF TakeSnapshot, loopVars
    <2>2. EventsOf(Snapshot) = InTable
        BY <1>t, TableEvents DEF TableOK
    <2>3. CASE pc' = "idle" /\ batch' = batch
        BY <2>1, <2>3 DEF OnePlace
    <2>4. CASE pc' = "submit" /\ batch' = Snapshot
        BY <2>1, <2>2, <2>4 DEF OnePlace
    <2> QED
        BY <2>1, <2>3, <2>4
<1> QED
    BY <1>1, <1>2, <1>3, <1>4

LEMMA SubmitOnePlace ==
    ASSUME TypeOK, Flow, OnePlace, ~ambiguous', ~midway',
           Submitted \/ SubmitRefused \/ SubmitDenied
    PROVE  OnePlace'
<1>t. FlushOK /\ CountsOK
    BY TypeParts
<1>1. UNCHANGED <<held, table, batch, pending, buffer>> /\ InTable' = InTable /\ pc = "submit"
    BY SameTable, Zenon DEF Submitted, SubmitRefused, SubmitDenied, loopVars
<1>2. InRows(pending) = {} /\ EventsOf(batch) \subseteq Events
    BY <1>1, <1>t, NothingPending, BatchEvents DEF Flow, FlushOK
<1>3. CASE Submitted
    <2>1. /\ Received' = Received \cup EventsOf(batch) /\ pc' = "clear"
          /\ \A e \in Events : received[e] = 0 => received'[e] <= 1
          /\ \A e \in Events \ EventsOf(batch) : received'[e] = received[e]
        BY <1>3, <1>t, SubmitIs, Zenon DEF Submitted, FlushOK
    <2>2. \A e \in Events : received'[e] <= 1
        <3> SUFFICES ASSUME NEW e \in Events PROVE received'[e] <= 1
            OBVIOUS
        <3>1. CASE e \in EventsOf(batch)
            <4>1. received[e] = 0
                BY <3>1, <1>1, <1>t, NotReceived DEF OnePlace
            <4> QED
                BY <4>1, <2>1
        <3>2. CASE e \notin EventsOf(batch)
            BY <3>2, <2>1 DEF OnePlace
        <3> QED
            BY <3>1, <3>2
    <2> QED
        BY <1>1, <1>2, <2>1, <2>2 DEF OnePlace
<1>4. CASE SubmitRefused
    <2>1. received' = received /\ Received' = Received /\ pc' = "save"
        BY <1>4, <1>t, SubmitIs, SameReceived, Zenon DEF SubmitRefused, FlushOK
    <2> QED
        BY <1>1, <2>1 DEF OnePlace
<1>5. CASE SubmitDenied
    <2>1. received' = received /\ Received' = Received /\ pc' = "save"
        BY <1>5, SameReceived, Zenon DEF SubmitDenied
    <2> QED
        BY <1>1, <2>1 DEF OnePlace
<1> QED
    BY <1>3, <1>4, <1>5

LEMMA SaveOnePlace ==
    ASSUME TypeOK, Flow, OnePlace, Save \/ SaveCrowded \/ SaveFails \/ Clear
    PROVE  OnePlace'
<1>t. FlushOK /\ BufferOK /\ CountsOK
    BY TypeParts
<1>0. pc \in {"save", "clear"}
    BY DEF Save, SaveCrowded, Inserts, SaveFails, Clear
<1>1. UNCHANGED <<held, pending, received>> /\ Received' = Received
    BY SameReceived, Zenon DEF Save, SaveCrowded, Inserts, SaveFails, Clear, loopVars
<1>2. pending = <<>> /\ pending' = <<>> /\ InRows(pending') = {} /\ Disjoint(pending')
    <2>1. pending = <<>> /\ pending' = <<>>
        BY <1>0, <1>1, NothingPending DEF Flow
    <2> QED
        BY <2>1, NoRows DEF Disjoint
<1>3. ASSUME buffer' \in Seq(Batches) PROVE SameEnd(pending', buffer')
    BY <1>2, <1>3, SameEnds
<1>4. ASSUME NEW n \in {0, Excess}
      PROVE  /\ Spare(n) \in Seq(Batches) /\ Disjoint(Spare(n))
             /\ InRows(Spare(n)) \subseteq InRows(buffer)
    <2>1. /\ Spare(n) \in Seq(Batches)
          /\ Disjoint(buffer) => Disjoint(Spare(n))
          /\ InRows(buffer) = InRows(Spare(n)) \cup Overflow(n)
        BY <1>t, SpareIs, Zenon DEF FlushOK
    <2> QED
        BY <2>1 DEF OnePlace
<1>5. CASE Save \/ SaveCrowded
    <2>0. PICK n \in {0, Excess} :
              /\ Inserts(n) /\ buffer' = Append(Spare(n), batch)
              /\ buffer' \in Seq(Batches)
              /\ InRows(buffer') = InRows(Spare(n)) \cup EventsOf(batch)
        BY <1>5, <1>t, InsertIs, Zenon
    <2>1. pc = "save" /\ pc' = "clear" /\ batch' = batch /\ table' = table
          /\ InTable' = InTable
        BY <2>0, SameTable, Zenon DEF Inserts
    <2>2. /\ buffer' \in Seq(Batches)
          /\ InRows(buffer') = InRows(Spare(n)) \cup EventsOf(batch)
          /\ InRows(Spare(n)) \subseteq InRows(buffer)
        BY <2>0, <1>4, Zenon
    <2>3. EventsOf(batch) \cap InRows(Spare(n)) = {}
        BY <2>1, <2>2 DEF OnePlace
    <2>4. Disjoint(buffer')
        BY <2>0, <2>3, <1>4, <1>t, DisjointAppend, Zenon DEF FlushOK
    <2> QED
        BY <1>1, <1>2, <1>3, <1>4, <2>1, <2>2, <2>4 DEF OnePlace
<1>6. CASE SaveFails
    <2>1. pc = "save" /\ pc' = "idle" /\ batch' = NoBatch /\ InTable' = InTable
        BY <1>6, SameTable, Zenon DEF SaveFails
    <2>2. /\ buffer' \in Seq(Batches) /\ Disjoint(buffer')
          /\ InRows(buffer') \subseteq InRows(buffer)
        BY <1>6, <1>4, Zenon DEF SaveFails
    <2>3. EventsOf(batch') = {} /\ SameEnd(pending', buffer')
        BY <2>1, <2>2, <1>3, NoBatchIsEmpty
    <2> QED
        BY <1>1, <1>2, <2>1, <2>2, <2>3 DEF OnePlace
<1>7. CASE Clear
    <2>1. pc = "clear" /\ pc' = "idle" /\ batch' = NoBatch /\ buffer' = buffer
        BY <1>7, Zenon DEF Clear
    <2>2. EventsOf(batch') = {} /\ InTable' = {}
        BY <1>7, <2>1, ClearedTable, NoBatchIsEmpty DEF Clear
    <2> QED
        BY <1>1, <1>2, <2>1, <2>2 DEF OnePlace
<1> QED
    BY <1>5, <1>6, <1>7

LEMMA ShutdownOnePlace ==
    ASSUME TypeOK, Exited, Flow, OnePlace, ~ambiguous',
           Expire \/ Stop \/ Exit \/ Crash \/ Restart \/ UNCHANGED vars
    PROVE  OnePlace'
<1>t. FlushOK
    BY TypeParts
<1>1. CASE Expire
    <2>1. UNCHANGED <<held, pc, batch, pending, received>> /\ Received' = Received
          /\ InTable' = InTable /\ buffer # <<>> /\ buffer' = Tail(buffer)
        BY <1>1, SameReceived, SameTable, Zenon DEF Expire, loopVars
    <2>2. Disjoint(buffer') /\ SameEnd(pending', buffer')
          /\ InRows(buffer') \subseteq InRows(buffer)
        BY <2>1, <1>t, DisjointTail, SameEnds, RowsTail DEF OnePlace, FlushOK
    <2> QED
        BY <2>1, <2>2 DEF OnePlace
<1>2. CASE Stop \/ UNCHANGED vars
    <2>1. UNCHANGED <<held, pc, batch, pending, buffer, received>> /\ Received' = Received
          /\ InTable' = InTable
        BY <1>2, SameReceived, SameTable, Zenon DEF Stop, vars, loopVars, flushVars
    <2> QED
        BY <2>1 DEF OnePlace
<1>3. CASE Exit
    <2>1. UNCHANGED <<pc, batch, pending, buffer, received>> /\ Received' = Received
          /\ table' = <<>> /\ held' = {}
        BY <1>3, SameReceived, Zenon DEF Exit, flushVars
    <2>2. InTable' = {}
        BY <2>1, ClearedTable
    <2> QED
        BY <2>1, <2>2 DEF OnePlace
<1>4. CASE Crash
    BY <1>4 DEF Crash
<1>5. CASE Restart
    <2>1. UNCHANGED <<buffer, received>> /\ Received' = Received /\ pc' = "idle"
          /\ pc = "idle" /\ batch' = NoBatch /\ pending' = <<>> /\ table' = <<>> /\ held' = {}
        BY <1>5, SameReceived, Zenon DEF Restart, Reset, Exited
    <2>2. InTable' = {} /\ EventsOf(batch') = {} /\ InRows(pending') = {}
          /\ Disjoint(pending') /\ SameEnd(pending', buffer')
        BY <2>1, <1>t, ClearedTable, NoBatchIsEmpty, NoRows, SameEnds DEF Disjoint, FlushOK
    <2> QED
        BY <2>1, <2>2 DEF OnePlace
<1> QED
    BY <1>1, <1>2, <1>3, <1>4, <1>5

LEMMA OnePlaceStep ==
    ASSUME TypeOK, OneHeld, Exited, Flow, ~ambiguous /\ ~midway => OnePlace, [Next]_vars
    PROVE  ~ambiguous' /\ ~midway' => OnePlace'
<1> SUFFICES ASSUME ~ambiguous', ~midway' PROVE OnePlace'
    OBVIOUS
<1>1. OnePlace
    BY FlagsMove DEF Flow
<1> QED
    BY <1>1, StepCases, LoopOnePlace, RetryOnePlace, FlushOnePlace, SubmitOnePlace,
       SaveOnePlace, ShutdownOnePlace, Zenon

----------------------------------------------------------------------------
(* The invariant, and what it says of every behaviour.                     *)

LEMMA InitIInv == Init => IInv
<1> SUFFICES ASSUME Init PROVE IInv
    OBVIOUS
<1>1. /\ InTable = {} /\ EventsOf(batch) = {} /\ InRows(buffer) = {} /\ InRows(pending) = {}
    BY NoEntries, TableEvents, NoBatchIsEmpty, NoRows DEF Init
<1>2. /\ \A e \in Events : received[e] = 0
      /\ Received = {}
    BY DEF Init, Received
<1>3. Cardinality({}) = 0 /\ 0 <= MaxItems /\ 0 <= MaxBatches /\ 0 \in 0 .. MaxFails
    BY FS_EmptySet, LimitsAssumption
<1>4. TypeOK
    <2>1. TableOK
        BY <1>3, NoEntries DEF Init, TableOK
    <2>2. FlushOK /\ BufferOK
        BY <1>3, NoBatchIsEmpty, LimitsAssumption DEF Init, FlushOK, BufferOK
    <2>3. CountsOK
        BY <1>3 DEF Init, CountsOK
    <2>4. EventsOK
        <3>1. Cardinality(held) = 0
            BY <1>3, Zenon DEF Init
        <3>2. Cardinality(held) <= 1
            BY <3>1
        <3> QED
            BY <3>2 DEF Init, EventsOK
    <2> QED
        BY <2>1, <2>2, <2>3, <2>4, TypeParts
<1>5. OneHeld /\ OnlySeen /\ Exited
    BY <1>1, <1>2 DEF Init, OneHeld, OnlySeen, Exited
<1>6. BatchOfTable /\ EntryOfHeld /\ RetryPass
    BY DEF Init, BatchOfTable, EntryOfHeld, RetryPass
<1>7. OnlyRacersVanish
    BY DEF Init, OnlyRacersVanish, Unaccounted
<1>8. OnePlace
    <2>1. Disjoint(<<>>) /\ SameEnd(<<>>, <<>>)
        BY DEF Disjoint, SameEnd
    <2> QED
        BY <2>1, <1>1, <1>2 DEF Init, OnePlace
<1> QED
    BY <1>4, <1>5, <1>6, <1>7, <1>8 DEF IInv

LEMMA NextIInv == IInv /\ [Next]_vars => IInv'
<1> SUFFICES ASSUME IInv, [Next]_vars PROVE IInv'
    OBVIOUS
<1>1. TypeOK /\ OneHeld /\ Exited /\ Flow /\ OnlySeen /\ RetryPass
      /\ (~ambiguous /\ ~midway => OnePlace)
    BY DEF IInv, Flow
<1>2. TypeOK'
    <2>1. TableOK' /\ FlushOK' /\ BufferOK' /\ CountsOK' /\ EventsOK'
        BY <1>1, TableStep, FlushStep, BufferStep, CountsStep, EventsStep
    <2> QED
        BY <2>1, Zenon DEF TypeOK, TableOK, FlushOK, BufferOK, CountsOK, EventsOK
<1>3. OneHeld' /\ Exited' /\ Flow'
    BY <1>1, EventsStep, ExitedStep, FlowStep
<1>4. ~ambiguous' /\ ~midway' => OnePlace'
    BY <1>1, OnePlaceStep
<1> QED
    BY <1>2, <1>3, <1>4 DEF IInv, Flow

LEMMA Invariant == Spec => []IInv
BY InitIInv, NextIInv, PTL DEF Spec

(* The table stays within its limit and the SQLite buffer exceeds its own by *)
(* a row at most for every failure so far (Save inserts although the         *)
(* eviction failed), at most one event is between its lookup and its update, *)
(* and nothing is counted, stored or held in memory that the event loop has  *)
(* not recorded (ProcessEvent, SafeStats, BufferDB).                         *)
THEOREM TypeCorrect == Spec => [](TypeOK /\ OneHeld /\ OnlySeen)
<1>1. IInv => TypeOK /\ OneHeld /\ OnlySeen
    BY DEF IInv
<1> QED
    BY <1>1, Invariant, PTL

(* What the agent has recorded is at the backend, in memory, in the SQLite   *)
(* buffer, or was dropped by a limit, a crash or a last flush that could not *)
(* save it, unless it was recorded while a snapshot was in flight            *)
(* (FlushToAPI, retryPendingBatches).                                        *)
THEOREM NothingElseVanishes == Spec => []OnlyRacersVanish
<1>1. IInv => OnlyRacersVanish
    BY DEF IInv
<1> QED
    BY <1>1, Invariant, PTL

(* The backend counts no event twice unless a call, a delete or a process    *)
(* failed after it had taken effect, or a retry pass stopped half way        *)
(* (retryPendingBatches, SubmitTraffic).                                     *)
THEOREM NoDoubleCount == Spec => []CountedOnce
<1>1. IInv => CountedOnce
    BY DEF IInv, OnePlace, CountedOnce
<1> QED
    BY <1>1, Invariant, PTL
=============================================================================
