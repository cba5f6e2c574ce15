------------------------ MODULE CommandChannelProofs ------------------------
(***************************************************************************)
(* What holds of CommandChannel for any number of signers and sessions,    *)
(* any capacity of the channels and any lengths of a run.                  *)
(*                                                                         *)
(* The order in which the agent accepts commands rests on the agent alone  *)
(* (what it accepts is above all it has accepted); that what it accepts    *)
(* was signed rests on everything on the way, which only passes commands   *)
(* on; whom the hub reaches rests on the handlers.  That no command is in  *)
(* two places follows each from the reading of the clock it begins with.   *)
(***************************************************************************)
EXTENDS CommandChannel, TLAPS

\* Signers, channels and transports hold commands that have been signed.
Passing ==
    /\ \A w \in Signers : held[w] # 0 => held[w] \in commands
    /\ queue \in [Sessions -> Seq(commands)]
    /\ wire \in [Sessions -> Seq(commands)]

\* NonceTracker.lastSeen is at or above every nonce the agent has accepted.
SeenAccepted == \A i \in 1..Len(accepted) : accepted[i] <= lastSeen

IInv ==
    /\ TypeOK /\ Passing /\ SeenAccepted /\ InSigningOrder
    /\ HubTargetsLiveHandler /\ ReachableWithoutOverlap

----------------------------------------------------------------------------
(* Sequences, as the channels and transports use them.                     *)

\* The type invariant, by the provers' theories.
NumbersOK ==
    /\ clock \in Nat /\ snapshots \in Nat /\ lastSeen \in Nat
    /\ held \in [Signers -> Nat]
    /\ listed \in [Fetchers -> Nat]
    /\ stale \subseteq Nat /\ commands \subseteq Nat

QueuesOK ==
    /\ queue \in [Sessions -> Seq(Nat)]
    /\ \A s \in Sessions : Len(queue[s]) <= ChanCap
    /\ wire \in [Sessions -> Seq(Nat)]
    /\ accepted \in Seq(Nat)

PlacesOK ==
    /\ hub \in Sessions \cup {NoSession}
    /\ handler \in [Sessions -> {"none", "called", "snapshot", "streaming", "leaving", "ended"}]
    /\ link \in [Sessions -> BOOLEAN]
    /\ client \in {"down", "sync", "receiving"}
    /\ cur \in Sessions \cup {NoSession}
    /\ client = "down" <=> cur = NoSession
    /\ overlap \in BOOLEAN

LEMMA TypeParts == TypeOK <=> NumbersOK /\ QueuesOK /\ PlacesOK
BY Zenon DEF TypeOK, NumbersOK, QueuesOK, PlacesOK

LEMMA SessionIsNumber == NoSession \notin Sessions
BY BoundsAssumption DEF NoSession, Sessions

\* A command is put at the end, and taken from the front, of a channel.
LEMMA AppendOne ==
    ASSUME NEW S, NEW T, S \subseteq T, NEW q \in Seq(S), NEW n \in T
    PROVE  /\ Append(q, n) \in Seq(T)
           /\ Len(Append(q, n)) = Len(q) + 1
           /\ \A i \in 1..Len(q) : Append(q, n)[i] = q[i]
           /\ Append(q, n)[Len(q) + 1] = n
OBVIOUS

LEMMA TakeOne ==
    ASSUME NEW S, NEW q \in Seq(S), q # <<>>
    PROVE  /\ Head(q) \in S /\ Tail(q) \in Seq(S)
           /\ Len(q) > 0 /\ Len(Tail(q)) = Len(q) - 1
           /\ Head(q) = q[1]
           /\ \A i \in 1..Len(Tail(q)) : Tail(q)[i] = q[i + 1]
OBVIOUS

LEMMA MoreIsStill ==
    ASSUME NEW S, NEW T, S \subseteq T
    PROVE  Seq(S) \subseteq Seq(T)
OBVIOUS

----------------------------------------------------------------------------
(* The type invariant.                                                     *)

\* The clock goes up, and every nonce is a reading of it.
LEMMA TickIs == ASSUME clock \in Nat, Tick PROVE clock' \in Nat /\ clock' = clock + 1
BY DEF Tick

LEMMA NumbersStep == TypeOK /\ [Next]_vars => NumbersOK'
<1> SUFFICES ASSUME TypeOK, [Next]_vars PROVE NumbersOK'
    OBVIOUS
<1>n. NumbersOK /\ QueuesOK /\ PlacesOK
    BY TypeParts
<1> USE <1>n DEF NumbersOK, agentVars, backendVars
<1>1. ASSUME NEW w \in Signers, Sign(w) PROVE NumbersOK'
    BY <1>1, TickIs, Zenon DEF Sign
<1>2. ASSUME NEW w \in Signers, SendCommandToAgent(w) PROVE NumbersOK'
    <2>1. held' \in [Signers -> Nat]
        BY <1>2 DEF SendCommandToAgent
    <2> QED
        BY <1>2, <2>1, Zenon DEF SendCommandToAgent
<1>3. ASSUME NEW s \in Sessions,
             Register(s) \/ EndSnapshot(s) \/ Forward(s) \/ ContextDone(s)
                         \/ Unregister(s) \/ Drop(s)
      PROVE  NumbersOK'
    BY <1>3, Zenon DEF Register, EndSnapshot, Forward, ContextDone, Unregister, Drop
<1>4. ASSUME NEW s \in Sessions, SendSnapshot(s) PROVE NumbersOK'
    <2>1. snapshots' \in Nat
        BY <1>4 DEF SendSnapshot
    <2> QED
        BY <1>4, <2>1, TickIs, Zenon DEF SendSnapshot
<1>5. CASE Connect \/ StreamError \/ UNCHANGED vars
    BY <1>5, Zenon DEF Connect, StreamError, vars
<1>6. CASE SyncFails
    <2>1. listed' \in [Fetchers -> Nat]
        BY <1>6 DEF SyncFails
    <2> QED
        BY <1>6, <2>1, Zenon DEF SyncFails
<1>7. CASE Receive
    <2>1. cur \in Sessions
        BY <1>7, Zenon DEF Receive, PlacesOK
    <2>2. Head(wire[cur]) \in Nat
        BY <1>7, <2>1, TakeOne, Zenon DEF Receive, QueuesOK
    <2>3. lastSeen' \in {lastSeen, Head(wire[cur])} /\ stale' \subseteq stale \cup {Head(wire[cur])}
        BY <1>7, Zenon DEF Receive, Raise
    <2> QED
        BY <1>7, <2>2, <2>3, Zenon DEF Receive
<1>8. ASSUME NEW f \in Fetchers, ServeList(f) PROVE NumbersOK'
    BY <1>8, TickIs, Zenon DEF ServeList
<1>9. ASSUME NEW f \in Fetchers, ReceiveList(f) PROVE NumbersOK'
    <2>1. listed' \in [Fetchers -> Nat] /\ lastSeen' \in {lastSeen, listed[f]}
        BY <1>9 DEF ReceiveList, Raise
    <2> QED
        BY <1>9, <2>1, Zenon DEF ReceiveList
<1>10. CASE BackendRestart
    <2>1. held' \in [Signers -> Nat]
        BY <1>10 DEF BackendRestart
    <2> QED
        BY <1>10, <2>1, Zenon DEF BackendRestart
<1> QED
    BY <1>1, <1>2, <1>3, <1>4, <1>5, <1>6, <1>7, <1>8, <1>9, <1>10, Zenon DEF Next

LEMMA PlacesStep == TypeOK /\ [Next]_vars => PlacesOK'
<1> SUFFICES ASSUME TypeOK, [Next]_vars PROVE PlacesOK'
    OBVIOUS
<1>p. PlacesOK
    BY TypeParts
<1> USE <1>p DEF PlacesOK, agentVars, backendVars
<1>1. ASSUME NEW w \in Signers, Sign(w) \/ SendCommandToAgent(w) PROVE PlacesOK'
    BY <1>1, Zenon DEF Sign, SendCommandToAgent
<1>2. ASSUME NEW s \in Sessions, Register(s) PROVE PlacesOK'
    BY <1>2, Zenon DEF Register
<1>3. ASSUME NEW s \in Sessions, EndSnapshot(s) \/ ContextDone(s) \/ Unregister(s) \/ Drop(s)
      PROVE  PlacesOK'
    BY <1>3, Zenon DEF EndSnapshot, ContextDone, Unregister, Drop
<1>4. ASSUME NEW s \in Sessions, SendSnapshot(s) PROVE PlacesOK'
    BY <1>4, Zenon DEF SendSnapshot
<1>5. ASSUME NEW s \in Sessions, Forward(s) PROVE PlacesOK'
    BY <1>5, Zenon DEF Forward
<1>6. CASE Connect
    <2>1. PICK s \in Sessions : /\ cur' = s /\ handler' = [handler EXCEPT ![s] = "called"]
                                /\ link' = [link EXCEPT ![s] = TRUE]
        BY <1>6, Zenon DEF Connect
    <2>2. cur' # NoSession /\ client' = "sync" /\ UNCHANGED <<hub, overlap>>
        BY <1>6, <2>1, SessionIsNumber, Zenon DEF Connect
    <2>3. handler' \in [Sessions -> {"none", "called", "snapshot", "streaming", "leaving", "ended"}]
        BY <2>1, Zenon
    <2>4. link' \in [Sessions -> BOOLEAN]
        BY <2>1, Zenon
    <2> QED
        BY <2>1, <2>2, <2>3, <2>4, Zenon
<1>7. CASE SyncFails \/ Receive \/ StreamError \/ UNCHANGED vars
    BY <1>7, Zenon DEF SyncFails, Receive, StreamError, vars
<1>8. ASSUME NEW f \in Fetchers, ServeList(f) PROVE PlacesOK'
    BY <1>8, Zenon DEF ServeList
<1>9. ASSUME NEW f \in Fetchers, ReceiveList(f) PROVE PlacesOK'
    BY <1>9, Zenon DEF ReceiveList
<1>10. CASE BackendRestart
    BY <1>10, Zenon DEF BackendRestart
<1> QED
    BY <1>1, <1>2, <1>3, <1>4, <1>5, <1>6, <1>7, <1>8, <1>9, <1>10, Zenon DEF Next

\* What SendCommandToAgent does to the channels: nothing, or one command more in the
\* registered one, which had room.
LEMMA EnqueueIs ==
    ASSUME QueuesOK, PlacesOK, NEW T, NEW n \in T, Enqueue(n), commands \subseteq T,
           queue \in [Sessions -> Seq(commands)]
    PROVE  /\ queue' \in [Sessions -> Seq(T)]
           /\ \A s \in Sessions : Len(queue'[s]) <= ChanCap
           /\ \/ queue' = queue
              \/ /\ hub \in Sessions
                 /\ queue' = [queue EXCEPT ![hub] = Append(@, n)]
<1>1. queue \in [Sessions -> Seq(T)]
    BY MoreIsStill, Zenon
<1>2. CASE hub # NoSession /\ Len(queue[hub]) < ChanCap
    <2>1. hub \in Sessions /\ queue' = [queue EXCEPT ![hub] = Append(@, n)]
        BY <1>2, Zenon DEF PlacesOK, Enqueue
    <2> DEFINE q == Append(queue[hub], n)
    <2>q. queue[hub] \in Seq(T) /\ T \subseteq T
        BY <1>1, <2>1, Zenon
    <2>2. q \in Seq(T) /\ Len(q) = Len(queue[hub]) + 1
        BY <2>q
    <2> HIDE DEF q
    <2>a. queue' = [queue EXCEPT ![hub] = q]
        BY <2>1, Zenon DEF q
    <2>3. Len(q) <= ChanCap
        BY <1>2, <2>q, <2>2, BoundsAssumption
    <2> QED
        BY <1>1, <2>1, <2>a, <2>2, <2>3, Zenon DEF QueuesOK
<1>3. CASE ~(hub # NoSession /\ Len(queue[hub]) < ChanCap)
    BY <1>1, <1>3, Zenon DEF Enqueue, QueuesOK
<1> QED
    BY <1>2, <1>3

\* What stream.Send does to the transports.
LEMMA TransmitIs ==
    ASSUME NEW T, NEW n \in T, NEW s \in Sessions, Transmit(s, n), commands \subseteq T,
           wire \in [Sessions -> Seq(commands)]
    PROVE  /\ wire' \in [Sessions -> Seq(T)]
           /\ wire' = wire \/ wire' = [wire EXCEPT ![s] = Append(@, n)]
<1>1. wire \in [Sessions -> Seq(T)]
    BY MoreIsStill, Zenon
<1>2. Append(wire[s], n) \in Seq(T)
    BY <1>1, AppendOne, Zenon
<1> QED
    BY <1>1, <1>2, Zenon DEF Transmit

----------------------------------------------------------------------------
(* What is on its way has been signed.                                     *)

\* Commands only become more.
LEMMA CommandsGrow == TypeOK /\ [Next]_vars => commands \subseteq commands'
<1> SUFFICES ASSUME TypeOK, [Next]_vars PROVE commands \subseteq commands'
    OBVIOUS
<1> USE DEF agentVars, backendVars
<1>1. ASSUME NEW w \in Signers, Sign(w) \/ SendCommandToAgent(w) PROVE commands \subseteq commands'
    BY <1>1, Zenon DEF Sign, SendCommandToAgent
<1>2. ASSUME NEW s \in Sessions,
             \/ Register(s) \/ SendSnapshot(s) \/ EndSnapshot(s)
             \/ Forward(s) \/ ContextDone(s) \/ Unregister(s) \/ Drop(s)
      PROVE  commands \subseteq commands'
    BY <1>2, Zenon
    DEF Register, SendSnapshot, EndSnapshot, Forward, ContextDone, Unregister, Drop
<1>3. CASE Connect \/ SyncFails \/ Receive \/ StreamError \/ BackendRestart \/ UNCHANGED vars
    BY <1>3, Zenon DEF Connect, SyncFails, Receive, StreamError, BackendRestart, vars
<1>4. ASSUME NEW f \in Fetchers, ServeList(f) \/ ReceiveList(f) PROVE commands \subseteq commands'
    BY <1>4, Zenon DEF ServeList, ReceiveList
<1> QED
    BY <1>1, <1>2, <1>3, <1>4, Zenon DEF Next

\* Channels and transports are bounded as before and hold what they may.
Carried ==
    /\ Passing
    /\ \A s \in Sessions : Len(queue[s]) <= ChanCap
    /\ accepted \in Seq(Nat)

LEMMA CarriedStep == TypeOK /\ Passing /\ [Next]_vars => Carried'
<1> SUFFICES ASSUME TypeOK, Passing, [Next]_vars PROVE Carried'
    OBVIOUS
<1>t. NumbersOK /\ QueuesOK /\ PlacesOK
    BY TypeParts
<1>c. Carried /\ commands \subseteq commands'
    BY <1>t, CommandsGrow, Zenon DEF Carried, QueuesOK
<1>m. /\ queue \in [Sessions -> Seq(commands')]
      /\ wire \in [Sessions -> Seq(commands')]
    BY <1>c, MoreIsStill, Zenon DEF Passing
<1> USE DEF agentVars, backendVars
<1>1. ASSUME NEW w \in Signers, Sign(w) PROVE Carried'
    <2>1. \A v \in Signers : held'[v] # 0 => held'[v] \in commands'
        <3>1. \A v \in Signers : held'[v] = IF v = w THEN clock' ELSE held[v]
            BY <1>1, <1>t, Zenon DEF Sign, NumbersOK
        <3>2. clock' \in commands'
            BY <1>1, Zenon DEF Sign
        <3> QED
            BY <3>1, <3>2, <1>c, Zenon DEF Passing
    <2>2. UNCHANGED <<queue, wire, accepted>>
        BY <1>1, Zenon DEF Sign
    <2> QED
        BY <2>1, <2>2, <1>m, <1>c, Zenon DEF Carried, Passing
<1>2. ASSUME NEW w \in Signers, SendCommandToAgent(w) PROVE Carried'
    <2>1. held[w] \in commands /\ UNCHANGED <<wire, accepted, commands>>
        BY <1>2, Zenon DEF SendCommandToAgent, Passing
    <2>2. /\ queue' \in [Sessions -> Seq(commands)]
          /\ \A s \in Sessions : Len(queue'[s]) <= ChanCap
        BY <1>2, <1>t, <2>1, EnqueueIs, Zenon DEF SendCommandToAgent, Passing
    <2>3. \A v \in Signers : held'[v] = IF v = w THEN 0 ELSE held[v]
        BY <1>2, <1>t, Zenon DEF SendCommandToAgent, NumbersOK
    <2> QED
        BY <2>1, <2>2, <2>3, <1>c, Zenon DEF Carried, Passing
<1>3. ASSUME NEW s \in Sessions,
             Register(s) \/ EndSnapshot(s) \/ ContextDone(s) \/ Unregister(s)
      PROVE  Carried'
    <2>1. UNCHANGED <<held, queue, wire, accepted, commands>>
        BY <1>3, Zenon DEF Register, EndSnapshot, ContextDone, Unregister
    <2> QED
        BY <2>1, <1>c, Zenon DEF Carried, Passing
<1>4. ASSUME NEW s \in Sessions, SendSnapshot(s) PROVE Carried'
    <2>1. clock' \in commands' /\ Transmit(s, clock') /\ UNCHANGED <<held, queue, accepted>>
        BY <1>4, Zenon DEF SendSnapshot
    <2>2. wire' \in [Sessions -> Seq(commands')]
        BY <2>1, <1>c, TransmitIs, Zenon DEF Passing
    <2> QED
        BY <2>1, <2>2, <1>m, <1>c, Zenon DEF Carried, Passing
<1>5. ASSUME NEW s \in Sessions, Forward(s) PROVE Carried'
    <2>1. /\ queue[s] # <<>> /\ Transmit(s, Head(queue[s]))
          /\ queue' = [queue EXCEPT ![s] = Tail(@)]
          /\ UNCHANGED <<held, accepted, commands>>
        BY <1>5, Zenon DEF Forward
    <2>2. /\ Head(queue[s]) \in commands /\ Tail(queue[s]) \in Seq(commands)
          /\ Len(Tail(queue[s])) = Len(queue[s]) - 1
        BY <2>1, TakeOne, Zenon DEF Passing
    <2>3. wire' \in [Sessions -> Seq(commands)]
        BY <2>1, <2>2, TransmitIs, Zenon DEF Passing
    <2>4. queue' \in [Sessions -> Seq(commands)]
        BY <2>1, <2>2, Zenon DEF Passing
    <2>5. Len(Tail(queue[s])) <= ChanCap
        BY <2>2, <1>t, BoundsAssumption DEF QueuesOK
    <2>6. \A t \in Sessions : Len(queue'[t]) <= ChanCap
        BY <2>1, <2>5, <1>t, Zenon DEF QueuesOK
    <2> QED
        BY <2>1, <2>3, <2>4, <2>6, <1>c, Zenon DEF Carried, Passing
<1>6. ASSUME NEW s \in Sessions, Drop(s) PROVE Carried'
    <2>1. wire' = [wire EXCEPT ![s] = <<>>] /\ UNCHANGED <<held, queue, accepted, commands>>
        BY <1>6, Zenon DEF Drop
    <2>2. wire' \in [Sessions -> Seq(commands)]
        BY <2>1 DEF Passing
    <2> QED
        BY <2>1, <2>2, <1>c, Zenon DEF Carried, Passing
<1>7. CASE Connect \/ SyncFails \/ StreamError \/ UNCHANGED vars
    <2>1. UNCHANGED <<held, queue, wire, accepted, commands>>
        BY <1>7, Zenon DEF Connect, SyncFails, StreamError, vars
    <2> QED
        BY <2>1, <1>c, Zenon DEF Carried, Passing
<1>8. CASE Receive
    <2>1. cur \in Sessions /\ wire[cur] # <<>>
        BY <1>8, <1>t, Zenon DEF Receive, PlacesOK
    <2>2. Head(wire[cur]) \in commands /\ Tail(wire[cur]) \in Seq(commands)
        BY <2>1, TakeOne, Zenon DEF Passing
    <2>3. Append(accepted, Head(wire[cur])) \in Seq(Nat)
        BY <2>2, <1>t, AppendOne, Zenon DEF NumbersOK, QueuesOK
    <2>4. accepted' \in {accepted, Append(accepted, Head(wire[cur]))}
        BY <1>8, Zenon DEF Receive
    <2>5. /\ wire' = [wire EXCEPT ![cur] = Tail(@)]
          /\ UNCHANGED <<held, queue, commands>>
        BY <1>8, Zenon DEF Receive
    <2>6. wire' \in [Sessions -> Seq(commands)]
        BY <2>2, <2>5, Zenon DEF Passing
    <2> QED
        BY <2>3, <2>4, <2>5, <2>6, <1>c, Zenon DEF Carried, Passing
<1>9. ASSUME NEW f \in Fetchers, ServeList(f) \/ ReceiveList(f) PROVE Carried'
    <2>1. UNCHANGED <<held, queue, wire, accepted, commands>>
        BY <1>9, Zenon DEF ServeList, ReceiveList
    <2> QED
        BY <2>1, <1>c, Zenon DEF Carried, Passing
<1>10. CASE BackendRestart
    <2>1. UNCHANGED <<accepted, commands>> /\ held' = [w \in Signers |-> 0]
        BY <1>10, Zenon DEF BackendRestart
    <2>2. /\ queue' = [s \in Sessions |-> <<>>] /\ wire' = [s \in Sessions |-> <<>>]
        BY <1>10, Zenon DEF BackendRestart
    <2>3. /\ queue' \in [Sessions -> Seq(commands)] /\ wire' \in [Sessions -> Seq(commands)]
          /\ \A s \in Sessions : Len(queue'[s]) <= ChanCap
        BY <2>2, BoundsAssumption
    <2> QED
        BY <2>1, <2>3, <1>c, Zenon DEF Carried, Passing
<1> QED
    BY <1>1, <1>2, <1>3, <1>4, <1>5, <1>6, <1>7, <1>8, <1>9, <1>10, Zenon DEF Next

LEMMA QueuesStep == TypeOK /\ Passing /\ [Next]_vars => QueuesOK'
<1> SUFFICES ASSUME TypeOK, Passing, [Next]_vars PROVE QueuesOK'
    OBVIOUS
<1>1. Carried' /\ commands' \subseteq Nat
    BY CarriedStep, NumbersStep, Zenon DEF NumbersOK
<1>2. Seq(commands') \subseteq Seq(Nat)
    BY <1>1, MoreIsStill
<1> QED
    BY <1>1, <1>2, Zenon DEF QueuesOK, Carried, Passing

----------------------------------------------------------------------------
(* What the agent accepts.                                                 *)

\* The agent accepts a command above lastSeen, which is then its nonce.
Accepting ==
    \E n \in commands :
        /\ n > lastSeen /\ lastSeen' = n
        /\ accepted' = Append(accepted, n)
        /\ UNCHANGED commands

\* It does, or what it has accepted stays and lastSeen does not fall, while the backend
\* signs one command at most.
LEMMA AcceptedMoves ==
    ASSUME TypeOK, Passing, [Next]_vars
    PROVE  \/ Accepting
           \/ /\ UNCHANGED accepted /\ lastSeen' >= lastSeen
              /\ UNCHANGED commands \/ \E n \in commands' : commands' = commands \cup {n}
<1>t. NumbersOK /\ PlacesOK
    BY TypeParts
<1>r. lastSeen >= lastSeen
    BY <1>t DEF NumbersOK
<1> USE DEF agentVars, backendVars
<1>1. ASSUME NEW w \in Signers, Sign(w)
      PROVE  /\ UNCHANGED <<accepted, lastSeen>>
             /\ \E n \in commands' : commands' = commands \cup {n}
    BY <1>1, Zenon DEF Sign
<1>2. ASSUME NEW w \in Signers, SendCommandToAgent(w)
      PROVE  UNCHANGED <<accepted, lastSeen, commands>>
    BY <1>2, Zenon DEF SendCommandToAgent
<1>3. ASSUME NEW s \in Sessions, SendSnapshot(s)
      PROVE  /\ UNCHANGED <<accepted, lastSeen>>
             /\ \E n \in commands' : commands' = commands \cup {n}
    BY <1>3, Zenon DEF SendSnapshot
<1>4. ASSUME NEW s \in Sessions, \/ Register(s) \/ EndSnapshot(s) \/ Forward(s)
                                 \/ ContextDone(s) \/ Unregister(s) \/ Drop(s)
      PROVE  UNCHANGED <<accepted, lastSeen, commands>>
    BY <1>4, Zenon DEF Register, EndSnapshot, Forward, ContextDone, Unregister, Drop
<1>5. CASE Connect \/ SyncFails \/ StreamError \/ BackendRestart \/ UNCHANGED vars
    <2>1. UNCHANGED <<accepted, lastSeen, commands>>
        BY <1>5, Zenon DEF Connect, SyncFails, StreamError, BackendRestart, vars
    <2> QED
        BY <2>1, <1>r
<1>6. CASE Receive
    <2>1. cur \in Sessions /\ wire[cur] # <<>>
        BY <1>6, <1>t, Zenon DEF Receive, PlacesOK
    <2>2. PICK n \in commands : n = Head(wire[cur])
        BY <2>1, TakeOne, Zenon DEF Passing
    <2>3. CASE n > lastSeen
        BY <1>6, <2>2, <2>3, Zenon DEF Receive, Raise, Fresh, Accepting
    <2>4. CASE ~(n > lastSeen)
        <3>1. UNCHANGED <<accepted, lastSeen, commands>>
            BY <1>6, <2>2, <2>4, Zenon DEF Receive, Raise, Fresh
        <3> QED
            BY <3>1, <1>r
    <2> QED
        BY <2>3, <2>4
<1>7. ASSUME NEW f \in Fetchers, ServeList(f)
      PROVE  UNCHANGED <<accepted, lastSeen, commands>>
    BY <1>7, Zenon DEF ServeList
<1>8. ASSUME NEW f \in Fetchers, ReceiveList(f)
      PROVE  UNCHANGED <<accepted, commands>> /\ lastSeen' >= lastSeen
    <2>1. listed[f] \in Nat /\ lastSeen' = IF listed[f] > lastSeen THEN listed[f] ELSE lastSeen
        BY <1>8, <1>t, Zenon DEF ReceiveList, Raise, Fresh, NumbersOK
    <2>2. lastSeen' >= lastSeen
        BY <2>1, <1>t DEF NumbersOK
    <2> QED
        BY <1>8, <2>2, Zenon DEF ReceiveList
<1> QED
    BY <1>r, <1>1, <1>2, <1>3, <1>4, <1>5, <1>6, <1>7, <1>8, Zenon DEF Next

\* The accepted nonces rise, up to lastSeen.
LEMMA AcceptedStep ==
    ASSUME TypeOK, Passing, SeenAccepted, InSigningOrder, [Next]_vars
    PROVE  SeenAccepted' /\ InSigningOrder'
<1>t. NumbersOK /\ QueuesOK /\ NumbersOK'
    BY TypeParts, NumbersStep
<1>1. CASE Accepting
    <2>1. PICK n \in commands : n > lastSeen /\ lastSeen' = n /\ accepted' = Append(accepted, n)
        BY <1>1 DEF Accepting
    <2>2. n \in Nat /\ accepted \in Seq(Nat) /\ Len(accepted) \in Nat
        BY <1>t DEF NumbersOK, QueuesOK
    <2>3. /\ Len(accepted') = Len(accepted) + 1
          /\ \A i \in 1..Len(accepted) : accepted'[i] = accepted[i]
          /\ accepted'[Len(accepted) + 1] = n
        BY <2>1, <2>2, AppendOne
    <2>4. \A i \in 1..Len(accepted) : accepted[i] \in Nat /\ accepted[i] < n
        BY <2>1, <2>2, <1>t DEF SeenAccepted, NumbersOK
    <2>5. SeenAccepted'
        <3> SUFFICES ASSUME NEW i \in 1..Len(accepted') PROVE accepted'[i] <= lastSeen'
            BY DEF SeenAccepted
        <3>1. CASE i = Len(accepted) + 1
            BY <3>1, <2>1, <2>2, <2>3
        <3>2. CASE i # Len(accepted) + 1
            BY <3>2, <2>1, <2>2, <2>3, <2>4
        <3> QED
            BY <3>1, <3>2
    <2>6. InSigningOrder'
        <3> SUFFICES ASSUME NEW i \in 1..Len(accepted'), NEW j \in 1..Len(accepted'), i < j
                     PROVE  accepted'[i] < accepted'[j]
            BY DEF InSigningOrder, Rising
        <3>1. i \in 1..Len(accepted)
            BY <2>2, <2>3
        <3>2. CASE j = Len(accepted) + 1
            BY <3>1, <3>2, <2>3, <2>4
        <3>3. CASE j # Len(accepted) + 1
            <4>1. j \in 1..Len(accepted)
                BY <3>3, <2>2, <2>3
            <4> QED
                BY <3>1, <4>1, <2>3 DEF InSigningOrder, Rising
        <3> QED
            BY <3>2, <3>3
    <2> QED
        BY <2>5, <2>6
<1>2. CASE UNCHANGED accepted /\ lastSeen' >= lastSeen
    <2>1. SeenAccepted'
        BY <1>2, <1>t DEF SeenAccepted, NumbersOK, QueuesOK
    <2>2. InSigningOrder'
        BY <1>2 DEF InSigningOrder, Rising
    <2> QED
        BY <2>1, <2>2
<1> QED
    BY <1>1, <1>2, AcceptedMoves

----------------------------------------------------------------------------
(* Whom the hub reaches.                                                   *)

\* Only Register makes a call live and only its end makes it not; the hub follows.
HubMoves ==
    \/ \E s \in Sessions : /\ handler[s] = "called"
                           /\ hub' = s /\ handler' = [handler EXCEPT ![s] = "snapshot"]
                           /\ overlap' = (overlap \/ \E t \in Sessions : Live(t))
    \/ \E s \in Sessions : /\ Live(s)
                           /\ hub' = NoSession /\ handler' = [handler EXCEPT ![s] = "ended"]
                           /\ UNCHANGED overlap
    \/ /\ hub' = NoSession /\ UNCHANGED overlap
       /\ \A s \in Sessions : handler'[s] \in {"none", "ended"}
    \/ /\ UNCHANGED <<hub, overlap>>
       /\ \A s \in Sessions : Live(s) <=> Live(s)'

LEMMA HubStep == ASSUME TypeOK, [Next]_vars PROVE HubMoves
<1>p. PlacesOK
    BY TypeParts
<1> USE DEF agentVars, backendVars
<1>0. ASSUME UNCHANGED <<hub, handler, overlap>> PROVE HubMoves
    BY <1>0, Zenon DEF HubMoves, Live
<1>1. ASSUME NEW w \in Signers, Sign(w) \/ SendCommandToAgent(w) PROVE HubMoves
    BY <1>0, <1>1, Zenon DEF Sign, SendCommandToAgent
<1>2. ASSUME NEW s \in Sessions, Register(s) PROVE HubMoves
    BY <1>2, Zenon DEF Register, HubMoves
<1>3. ASSUME NEW s \in Sessions, Unregister(s) PROVE HubMoves
    BY <1>3, Zenon DEF Unregister, HubMoves, Live
<1>4. ASSUME NEW s \in Sessions, Live(s), UNCHANGED <<hub, overlap>>,
             NEW l \in {"snapshot", "streaming", "leaving"},
             handler' = [handler EXCEPT ![s] = l]
      PROVE  HubMoves
    <2>1. \A t \in Sessions : handler'[t] = IF t = s THEN l ELSE handler[t]
        BY <1>4, <1>p, Zenon DEF PlacesOK
    <2> QED
        BY <1>4, <2>1, Zenon DEF HubMoves, Live
<1>5. ASSUME NEW s \in Sessions,
             SendSnapshot(s) \/ EndSnapshot(s) \/ Forward(s) \/ ContextDone(s)
      PROVE  HubMoves
    <2>1. Live(s) /\ UNCHANGED <<hub, overlap>>
        BY <1>5, Zenon DEF SendSnapshot, EndSnapshot, Forward, ContextDone, Live
    <2>2. \E l \in {"snapshot", "streaming", "leaving"} : handler' = [handler EXCEPT ![s] = l]
        BY <1>5, Zenon DEF SendSnapshot, EndSnapshot, Forward, ContextDone
    <2> QED
        BY <2>1, <2>2, <1>4, Zenon
<1>6. ASSUME NEW s \in Sessions, Drop(s) PROVE HubMoves
    BY <1>0, <1>6, Zenon DEF Drop
<1>7. CASE Connect
    <2>1. PICK s \in Sessions : handler[s] = "none" /\ handler' = [handler EXCEPT ![s] = "called"]
        BY <1>7, Zenon DEF Connect
    <2>2. \A t \in Sessions : handler'[t] = IF t = s THEN "called" ELSE handler[t]
        BY <2>1, <1>p, Zenon DEF PlacesOK
    <2>3. UNCHANGED <<hub, overlap>>
        BY <1>7, Zenon DEF Connect
    <2>4. ASSUME NEW t \in Sessions PROVE Live(t) <=> Live(t)'
        <3>1. CASE t = s
            <4>1. handler[t] = "none" /\ handler'[t] = "called"
                BY <3>1, <2>1, <2>2, Zenon
            <4> QED
                BY <4>1 DEF Live
        <3>2. CASE t # s
            BY <3>2, <2>2, Zenon DEF Live
        <3> QED
            BY <3>1, <3>2
    <2> QED
        BY <2>3, <2>4, Zenon DEF HubMoves
<1>8. CASE SyncFails \/ Receive \/ StreamError \/ UNCHANGED vars
    BY <1>0, <1>8, Zenon DEF SyncFails, Receive, StreamError, vars
<1>9. ASSUME NEW f \in Fetchers, ServeList(f) \/ ReceiveList(f) PROVE HubMoves
    BY <1>0, <1>9, Zenon DEF ServeList, ReceiveList
<1>10. CASE BackendRestart
    <2>1. \A s \in Sessions : handler'[s] \in {"none", "ended"}
        BY <1>10, Zenon DEF BackendRestart
    <2> QED
        BY <1>10, <2>1, Zenon DEF BackendRestart, HubMoves
<1> QED
    BY <1>1, <1>2, <1>3, <1>5, <1>6, <1>7, <1>8, <1>9, <1>10, Zenon DEF Next

\* The hub sends to a live call, and as long as none overlapped another, to the only one.
LEMMA HubInvariantStep ==
    ASSUME TypeOK, HubTargetsLiveHandler, ReachableWithoutOverlap, [Next]_vars
    PROVE  HubTargetsLiveHandler' /\ ReachableWithoutOverlap'
<1>p. PlacesOK
    BY TypeParts
<1>1. ASSUME NEW s \in Sessions, handler[s] = "called", hub' = s,
             handler' = [handler EXCEPT ![s] = "snapshot"],
             overlap' = (overlap \/ \E t \in Sessions : Live(t))
      PROVE  HubTargetsLiveHandler' /\ ReachableWithoutOverlap'
    <2>1. \A t \in Sessions : handler'[t] = IF t = s THEN "snapshot" ELSE handler[t]
        BY <1>1, <1>p, Zenon DEF PlacesOK
    <2> QED
        BY <1>1, <2>1, Zenon DEF HubTargetsLiveHandler, ReachableWithoutOverlap, Live
<1>2. ASSUME NEW s \in Sessions, Live(s), hub' = NoSession,
             handler' = [handler EXCEPT ![s] = "ended"], UNCHANGED overlap
      PROVE  HubTargetsLiveHandler' /\ ReachableWithoutOverlap'
    <2>1. \A t \in Sessions : handler'[t] = IF t = s THEN "ended" ELSE handler[t]
        BY <1>2, <1>p, Zenon DEF PlacesOK
    <2>2. \A t \in Sessions : Live(t)' => t # s /\ Live(t)
        BY <2>1, Zenon DEF Live
    <2> QED
        BY <1>2, <2>2, Zenon DEF HubTargetsLiveHandler, ReachableWithoutOverlap
<1>3. ASSUME hub' = NoSession, UNCHANGED overlap,
             \A s \in Sessions : handler'[s] \in {"none", "ended"}
      PROVE  HubTargetsLiveHandler' /\ ReachableWithoutOverlap'
    BY <1>3, Zenon DEF HubTargetsLiveHandler, ReachableWithoutOverlap, Live
<1>4. ASSUME UNCHANGED <<hub, overlap>>, \A s \in Sessions : Live(s) <=> Live(s)'
      PROVE  HubTargetsLiveHandler' /\ ReachableWithoutOverlap'
    <2>1. hub = NoSession \/ hub \in Sessions
        BY <1>p, Zenon DEF PlacesOK
    <2> QED
        BY <1>4, <2>1, Zenon DEF HubTargetsLiveHandler, ReachableWithoutOverlap, Live
<1> QED
    BY <1>1, <1>2, <1>3, <1>4, HubStep, Zenon DEF HubMoves

----------------------------------------------------------------------------
(* A command is in one place only.                                         *)

\* Nonces are readings of the clock so far, and the agent knows what was signed.
Dated ==
    /\ \A n \in commands : n \in Nat /\ n # 0 /\ n <= clock
    /\ stale \subseteq commands
    /\ accepted \in Seq(commands)

\* The kinds of place.
Held(n, w) == w \in Signers /\ held[w] = n
Queued(n, s, i) == s \in Sessions /\ i \in 1..Len(queue[s]) /\ queue[s][i] = n
Wired(n, s, i) == s \in Sessions /\ i \in 1..Len(wire[s]) /\ wire[s][i] = n
Taken(n, i) == i \in 1..Len(accepted) /\ accepted[i] = n

Place(n, p) ==
    \/ \E w : Held(n, w) /\ p = <<"held", w, 0>>
    \/ \E s, i : Queued(n, s, i) /\ p = <<"queue", s, i>>
    \/ \E s, i : Wired(n, s, i) /\ p = <<"wire", s, i>>
    \/ \E i : Taken(n, i) /\ p = <<"accepted", NoSession, i>>
    \/ n \in stale /\ p = <<"stale", NoSession, 0>>

Sole(n) == \A p, q : Place(n, p) /\ Place(n, q) => p = q

LEMMA PlacesAre == \A n, p : p \in Places(n) <=> Place(n, p)
<1> TAKE n, p
<1> DEFINE H == {<<"held", w, 0>> : w \in {v \in Signers : held[v] = n}}
           Q == UNION {{<<"queue", s, i>> : i \in {j \in 1..Len(queue[s]) : queue[s][j] = n}} : s \in Sessions}
           W == UNION {{<<"wire", s, i>> : i \in {j \in 1..Len(wire[s]) : wire[s][j] = n}} : s \in Sessions}
           A == {<<"accepted", NoSession, i>> : i \in {j \in 1..Len(accepted) : accepted[j] = n}}
           S == {<<"stale", NoSession, 0>> : m \in {n} \cap stale}
<1>1. p \in H <=> \E w : Held(n, w) /\ p = <<"held", w, 0>>
    BY DEF Held
<1>2. p \in Q <=> \E s, i : Queued(n, s, i) /\ p = <<"queue", s, i>>
    BY DEF Queued
<1>3. p \in W <=> \E s, i : Wired(n, s, i) /\ p = <<"wire", s, i>>
    BY DEF Wired
<1>4. p \in A <=> \E i : Taken(n, i) /\ p = <<"accepted", NoSession, i>>
    BY DEF Taken
<1>5. p \in S <=> n \in stale /\ p = <<"stale", NoSession, 0>>
    OBVIOUS
<1>6. Places(n) = H \cup Q \cup W \cup A \cup S
    BY SMT DEF Places
<1> HIDE DEF H, Q, W, A, S
<1>7. p \in Places(n) <=> p \in H \/ p \in Q \/ p \in W \/ p \in A \/ p \in S
    BY <1>6
<1> QED
    BY <1>1, <1>2, <1>3, <1>4, <1>5, <1>7, Zenon DEF Place

\* A command in one place is in no other.
LEMMA Apart ==
    ASSUME NEW n, Sole(n)
    PROVE  /\ \A v, w : Held(n, v) /\ Held(n, w) => v = w
           /\ \A w, s, i : Held(n, w) =>
                  ~Queued(n, s, i) /\ ~Wired(n, s, i) /\ ~Taken(n, i) /\ n \notin stale
           /\ \A s, t, i, j : Queued(n, s, i) /\ Queued(n, t, j) => s = t /\ i = j
           /\ \A s, t, i, j : Queued(n, s, i) =>
                  ~Wired(n, t, j) /\ ~Taken(n, j) /\ n \notin stale
           /\ \A s, t, i, j : Wired(n, s, i) /\ Wired(n, t, j) => s = t /\ i = j
           /\ \A s, i, j : Wired(n, s, i) => ~Taken(n, j) /\ n \notin stale
<1>1. \A w : Held(n, w) => Place(n, <<"held", w, 0>>)
    BY Zenon DEF Place
<1>2. \A s, i : Queued(n, s, i) => Place(n, <<"queue", s, i>>)
    BY Zenon DEF Place
<1>3. \A s, i : Wired(n, s, i) => Place(n, <<"wire", s, i>>)
    BY Zenon DEF Place
<1>4. \A i : Taken(n, i) => Place(n, <<"accepted", NoSession, i>>)
    BY Zenon DEF Place
<1>5. n \in stale => Place(n, <<"stale", NoSession, 0>>)
    BY Zenon DEF Place
<1>6. \A p, q : Place(n, p) /\ Place(n, q) => p = q
    BY Zenon DEF Sole
<1>7. \A a, b, c, d, e, f :
          Place(n, <<a, b, c>>) /\ Place(n, <<d, e, f>>) => a = d /\ b = e /\ c = f
    <2> TAKE a, b, c, d, e, f
    <2>1. <<a, b, c>> = <<d, e, f>> => a = d /\ b = e /\ c = f
        OBVIOUS
    <2> QED
        BY <1>6, <2>1, Zenon
<1>8. ASSUME NEW w, Held(n, w)
      PROVE  /\ \A v : Held(n, v) => v = w
             /\ \A s, i : ~Queued(n, s, i) /\ ~Wired(n, s, i) /\ ~Taken(n, i) /\ n \notin stale
    <2>1. \A a, b, c : Place(n, <<a, b, c>>) => a = "held" /\ b = w
        BY <1>8, <1>1, <1>7, Zenon
    <2>2. \A v : Held(n, v) => v = w
        BY <2>1, <1>1
    <2>3. \A s, i : ~Queued(n, s, i)
        BY <2>1, <1>2
    <2>4. \A s, i : ~Wired(n, s, i)
        BY <2>1, <1>3
    <2>5. (\A i : ~Taken(n, i)) /\ n \notin stale
        BY <2>1, <1>4, <1>5
    <2> QED
        BY <2>2, <2>3, <2>4, <2>5, Zenon
<1>9. ASSUME NEW s, NEW i, Queued(n, s, i)
      PROVE  /\ \A t, j : Queued(n, t, j) => s = t /\ i = j
             /\ \A t, j : ~Wired(n, t, j) /\ ~Taken(n, j) /\ n \notin stale
    <2>1. \A a, b, c : Place(n, <<a, b, c>>) => a = "queue"
        BY <1>9, <1>2, <1>7, Zenon
    <2>2. ASSUME NEW t, NEW j, Queued(n, t, j) PROVE s = t /\ i = j
        <3>1. Place(n, <<"queue", s, i>>) /\ Place(n, <<"queue", t, j>>)
            BY <1>9, <2>2, <1>2, Zenon
        <3> QED
            BY <3>1, <1>7, Zenon
    <2>3. \A t, j : ~Wired(n, t, j)
        BY <2>1, <1>3
    <2>4. (\A j : ~Taken(n, j)) /\ n \notin stale
        BY <2>1, <1>4, <1>5
    <2> QED
        BY <2>2, <2>3, <2>4, Zenon
<1>10. ASSUME NEW s, NEW i, Wired(n, s, i)
      PROVE  /\ \A t, j : Wired(n, t, j) => s = t /\ i = j
             /\ \A j : ~Taken(n, j) /\ n \notin stale
    <2>1. \A a, b, c : Place(n, <<a, b, c>>) => a = "wire"
        BY <1>10, <1>3, <1>7, Zenon
    <2>2. ASSUME NEW t, NEW j, Wired(n, t, j) PROVE s = t /\ i = j
        <3>1. Place(n, <<"wire", s, i>>) /\ Place(n, <<"wire", t, j>>)
            BY <1>10, <2>2, <1>3, Zenon
        <3> QED
            BY <3>1, <1>7, Zenon
    <2>3. (\A j : ~Taken(n, j)) /\ n \notin stale
        BY <2>1, <1>4, <1>5
    <2> QED
        BY <2>2, <2>3, Zenon
<1> QED
    BY <1>8, <1>9, <1>10, Zenon

\* What goes nowhere new stays alone.
LEMMA SoleStays ==
    ASSUME NEW n, Sole(n),
           \A w : Held(n, w)' => Held(n, w),
           \A s, i : Queued(n, s, i)' => Queued(n, s, i),
           \A s, i : Wired(n, s, i)' => Wired(n, s, i),
           \A i : Taken(n, i)' => Taken(n, i),
           n \in stale' => n \in stale
    PROVE  Sole(n)'
<1>1. \A p : Place(n, p)' => Place(n, p)
    BY Zenon DEF Place
<1> QED
    BY <1>1, Zenon DEF Sole

\* A nonce that is being read is nowhere yet.
LEMMA NewIsNowhere ==
    ASSUME Passing, Dated, clock \in Nat, Tick
    PROVE  /\ \A w : ~Held(clock', w)
           /\ \A s, i : ~Queued(clock', s, i) /\ ~Wired(clock', s, i)
           /\ \A i : ~Taken(clock', i)
           /\ clock' \notin stale
<1>1. clock' # 0 /\ clock' \notin commands
    BY TickIs DEF Dated
<1>2. \A w : ~Held(clock', w)
    BY <1>1, Zenon DEF Held, Passing
<1>3. ASSUME NEW s, NEW i PROVE ~Queued(clock', s, i)
    <2>1. s \in Sessions => queue[s] \in Seq(commands)
        BY Zenon DEF Passing
    <2> QED
        BY <1>1, <2>1 DEF Queued
<1>4. ASSUME NEW s, NEW i PROVE ~Wired(clock', s, i)
    <2>1. s \in Sessions => wire[s] \in Seq(commands)
        BY Zenon DEF Passing
    <2> QED
        BY <1>1, <2>1 DEF Wired
<1>5. \A i : ~Taken(clock', i)
    BY <1>1 DEF Taken, Dated
<1>6. clock' \notin stale
    BY <1>1 DEF Dated
<1> QED
    BY <1>2, <1>3, <1>4, <1>5, <1>6

\* What is taken from the front of a channel was at its first position, and the rest
\* moves up.
LEMMA Shifts ==
    ASSUME NEW S, NEW q \in Seq(S), q # <<>>, NEW i \in 1..Len(Tail(q))
    PROVE  i + 1 \in 1..Len(q) /\ Tail(q)[i] = q[i + 1] /\ i + 1 # 1
OBVIOUS

\* What Transmit does to the places.
LEMMA TransmitPlaces ==
    ASSUME Passing, NEW s \in Sessions, NEW m, Transmit(s, m)
    PROVE  \A n, t, i : Wired(n, t, i)' =>
               Wired(n, t, i) \/ (n = m /\ t = s /\ i = Len(wire[s]) + 1)
<1> SUFFICES ASSUME NEW n, NEW t, NEW i, Wired(n, t, i)'
             PROVE  Wired(n, t, i) \/ (n = m /\ t = s /\ i = Len(wire[s]) + 1)
    OBVIOUS
<1>1. wire \in [Sessions -> Seq(commands)] /\ t \in Sessions
    BY Zenon DEF Passing, Wired
<1>2. CASE wire' = wire
    BY <1>2 DEF Wired
<1>3. CASE wire' = [wire EXCEPT ![s] = Append(@, m)]
    <2>1. CASE t # s
        BY <1>1, <1>3, <2>1 DEF Wired
    <2>2. CASE t = s
        <3>1. wire'[t] = Append(wire[s], m) /\ wire[s] \in Seq(commands)
            BY <1>1, <1>3, <2>2
        <3>2. i \in 1..Len(wire'[t]) /\ wire'[t][i] = n
            BY DEF Wired
        <3> QED
            BY <3>1, <3>2, <2>2 DEF Wired
    <2> QED
        BY <2>1, <2>2
<1> QED
    BY <1>2, <1>3, Zenon DEF Transmit

\* Signing reads the clock; nothing else makes a command.
LEMMA ClockMoves ==
    ASSUME TypeOK, [Next]_vars
    PROVE  /\ clock' \in Nat /\ clock <= clock'
           /\ commands' = commands \/ (Tick /\ commands' = commands \cup {clock'})
<1>t. clock \in Nat
    BY Zenon DEF TypeOK
<1> USE DEF agentVars, backendVars
<1>1. ASSUME NEW w \in Signers, Sign(w) PROVE Tick /\ commands' = commands \cup {clock'}
    BY <1>1, Zenon DEF Sign
<1>2. ASSUME NEW s \in Sessions, SendSnapshot(s)
      PROVE  Tick /\ commands' = commands \cup {clock'}
    BY <1>2, Zenon DEF SendSnapshot
<1>3. ASSUME NEW f \in Fetchers, ServeList(f) PROVE Tick /\ UNCHANGED commands
    BY <1>3, Zenon DEF ServeList
<1>4. CASE \/ \E w \in Signers : SendCommandToAgent(w)
           \/ \E s \in Sessions : \/ Register(s) \/ EndSnapshot(s) \/ Forward(s)
                                  \/ ContextDone(s) \/ Unregister(s) \/ Drop(s)
           \/ \E f \in Fetchers : ReceiveList(f)
    BY <1>4, <1>t
    DEF SendCommandToAgent, Register, EndSnapshot, Forward, ContextDone, Unregister, Drop,
        ReceiveList
<1>5. CASE Connect \/ SyncFails \/ Receive \/ StreamError \/ BackendRestart \/ UNCHANGED vars
    BY <1>5, <1>t DEF Connect, SyncFails, Receive, StreamError, BackendRestart, vars
<1>6. Tick => clock' \in Nat /\ clock <= clock'
    BY <1>t, TickIs
<1> QED
    BY <1>1, <1>2, <1>3, <1>4, <1>5, <1>6, Zenon DEF Next

LEMMA DatedStep ==
    ASSUME TypeOK, Passing, Dated, [Next]_vars
    PROVE  Dated'
<1>t. clock \in Nat
    BY Zenon DEF TypeOK
<1>1. \A n \in commands' : n \in Nat /\ n # 0 /\ n <= clock'
    <2>1. CASE commands' = commands
        BY <2>1, <1>t, ClockMoves DEF Dated
    <2>2. CASE Tick /\ commands' = commands \cup {clock'}
        BY <2>2, <1>t, TickIs DEF Dated
    <2> QED
        BY <2>1, <2>2, ClockMoves, Zenon
<1>2. commands \subseteq commands'
    BY CommandsGrow
<1>3. accepted' \in Seq(commands')
    <2>1. CASE Accepting
        <3>1. PICK n \in commands : accepted' = Append(accepted, n) /\ commands' = commands
            BY <2>1, Zenon DEF Accepting
        <3> QED
            BY <3>1 DEF Dated
    <2>2. CASE UNCHANGED accepted
        BY <2>2, <1>2, MoreIsStill, Zenon DEF Dated
    <2> QED
        BY <2>1, <2>2, AcceptedMoves
<1>4. stale' \subseteq commands'
    <2> USE DEF agentVars, backendVars
    <2>1. CASE Receive
        <3>1. cur \in Sessions /\ wire[cur] # <<>>
            BY <2>1, TypeParts, Zenon DEF Receive, PlacesOK
        <3>2. Head(wire[cur]) \in commands
            BY <3>1, TakeOne, Zenon DEF Passing
        <3>3. stale' \subseteq stale \cup {Head(wire[cur])}
            BY <2>1, Zenon DEF Receive
        <3> QED
            BY <3>2, <3>3, <1>2, Zenon DEF Dated
    <2>2. ~Receive => UNCHANGED stale
        BY Zenon
        DEF Next, Sign, SendCommandToAgent, Register, SendSnapshot, EndSnapshot, Forward,
            ContextDone, Unregister, Drop, Connect, SyncFails, StreamError, ServeList,
            ReceiveList, BackendRestart, vars
    <2> QED
        BY <2>1, <2>2, <1>2, Zenon DEF Dated
<1> QED
    BY <1>1, <1>3, <1>4, Zenon DEF Dated

\* A place that is the only one a nonce has, it has alone.
LEMMA SoleAt ==
    ASSUME NEW n, NEW r, \A p : Place(n, p)' => p = r
    PROVE  Sole(n)'
BY Zenon DEF Sole

\* What a step leaves as it is, it leaves in its place.
LEMMA Unmoved ==
    ASSUME NEW n
    PROVE  /\ UNCHANGED held => \A w : Held(n, w)' = Held(n, w)
           /\ UNCHANGED queue => \A s, i : Queued(n, s, i)' = Queued(n, s, i)
           /\ UNCHANGED wire => \A s, i : Wired(n, s, i)' = Wired(n, s, i)
           /\ UNCHANGED accepted => \A i : Taken(n, i)' = Taken(n, i)
           /\ UNCHANGED stale => (n \in stale)' = (n \in stale)
BY Zenon DEF Held, Queued, Wired, Taken

LEMMA SignSole ==
    ASSUME TypeOK, Passing, Dated, NEW n \in commands', n \in commands => Sole(n),
           NEW w \in Signers, Sign(w)
    PROVE  Sole(n)'
<1> USE DEF agentVars
<1>1. /\ held[w] = 0 /\ Tick /\ held' = [held EXCEPT ![w] = clock']
      /\ commands' = commands \cup {clock'}
      /\ UNCHANGED <<queue, wire, accepted, stale>>
    BY Zenon DEF Sign
<1>t. clock \in Nat /\ held \in [Signers -> Nat]
    BY Zenon DEF TypeOK
<1>2. \A v \in Signers : held'[v] = IF v = w THEN clock' ELSE held[v]
    BY <1>1, <1>t, Zenon
<1>3. CASE n = clock'
    <2>1. \A v : Held(n, v)' => v = w
        BY <1>2, <1>3, <1>1, <1>t, NewIsNowhere, Zenon DEF Held
    <2>2. /\ \A s, i : ~Queued(n, s, i)' /\ ~Wired(n, s, i)'
          /\ \A i : ~Taken(n, i)'
          /\ ~(n \in stale)'
        BY <1>1, <1>3, <1>t, NewIsNowhere, Unmoved, Zenon
    <2>3. \A p : Place(n, p)' => p = <<"held", w, 0>>
        BY <2>1, <2>2, Zenon DEF Place
    <2> QED
        BY <2>3, SoleAt
<1>4. CASE n # clock'
    <2>1. n \in commands /\ Sole(n)
        BY <1>1, <1>4
    <2>2. \A v : Held(n, v)' => Held(n, v)
        BY <1>2, <1>4, Zenon DEF Held
    <2> QED
        BY <2>1, <2>2, <1>1, Unmoved, SoleStays, Zenon
<1> QED
    BY <1>3, <1>4

\* What the hub puts into a channel it takes from a signer.
LEMMA SendSole ==
    ASSUME TypeOK, Passing, Dated, NEW n \in commands', n \in commands => Sole(n),
           NEW w \in Signers, SendCommandToAgent(w)
    PROVE  Sole(n)'
<1> USE DEF agentVars
<1>1. /\ Enqueue(held[w]) /\ held' = [held EXCEPT ![w] = 0]
      /\ UNCHANGED <<wire, accepted, stale, commands>>
    BY Zenon DEF SendCommandToAgent
<1>t. QueuesOK /\ PlacesOK /\ held \in [Signers -> Nat] /\ queue \in [Sessions -> Seq(Nat)]
    BY TypeParts, Zenon DEF TypeOK
<1>2. n \in commands /\ Sole(n) /\ n # 0
    BY <1>1 DEF Dated
<1>3. \A v \in Signers : held'[v] = IF v = w THEN 0 ELSE held[v]
    BY <1>1, <1>t, Zenon
<1>4. \A v : Held(n, v)' => Held(n, v) /\ v # w
    BY <1>2, <1>3, Zenon DEF Held
<1>5. \A s, i : Queued(n, s, i)' =>
          Queued(n, s, i) \/ (n = held[w] /\ s = hub /\ i = Len(queue[hub]) + 1)
    <2> SUFFICES ASSUME NEW s, NEW i, Queued(n, s, i)'
                 PROVE  \/ Queued(n, s, i)
                        \/ n = held[w] /\ s = hub /\ i = Len(queue[hub]) + 1
        OBVIOUS
    <2>0. s \in Sessions /\ i \in 1..Len(queue'[s]) /\ queue'[s][i] = n
        BY Zenon DEF Queued
    <2>1. CASE queue' = queue
        BY <2>0, <2>1, Zenon DEF Queued
    <2>2. CASE hub \in Sessions /\ queue' = [queue EXCEPT ![hub] = Append(@, held[w])]
        <3>1. CASE s # hub
            BY <1>t, <2>0, <2>2, <3>1 DEF Queued
        <3>2. CASE s = hub
            <4>1. queue'[s] = Append(queue[s], held[w]) /\ queue[s] \in Seq(Nat)
                BY <1>t, <2>0, <2>2, <3>2
            <4>2. held[w] \in Nat
                BY <1>t
            <4> QED
                BY <4>1, <4>2, <2>0, <3>2 DEF Queued
        <3> QED
            BY <3>1, <3>2
    <2> QED
        BY <1>1, <1>t, <2>1, <2>2, Zenon DEF Enqueue, PlacesOK
<1>6. CASE n # held[w]
    BY <1>1, <1>2, <1>4, <1>5, <1>6, Unmoved, SoleStays, Zenon
<1>7. CASE n = held[w]
    <2>1. Held(n, w)
        BY <1>7, Zenon DEF Held
    <2>2. /\ \A v : ~Held(n, v)'
          /\ \A s, i : Queued(n, s, i)' => s = hub /\ i = Len(queue[hub]) + 1
          /\ \A s, i : ~Wired(n, s, i)'
          /\ \A i : ~Taken(n, i)'
          /\ ~(n \in stale)'
        <3>1. /\ \A v : Held(n, v) => v = w
              /\ \A s, i : ~Queued(n, s, i) /\ ~Wired(n, s, i) /\ ~Taken(n, i) /\ n \notin stale
            BY <1>2, <2>1, Apart, Zenon
        <3> QED
            BY <3>1, <1>1, <1>4, <1>5, Unmoved, Zenon
    <2>3. \A p : Place(n, p)' => p = <<"queue", hub, Len(queue[hub]) + 1>>
        BY <2>2, Zenon DEF Place
    <2> QED
        BY <2>3, SoleAt
<1> QED
    BY <1>6, <1>7

LEMMA SnapshotSole ==
    ASSUME TypeOK, Passing, Dated, NEW n \in commands', n \in commands => Sole(n),
           NEW s \in Sessions, SendSnapshot(s)
    PROVE  Sole(n)'
<1> USE DEF agentVars
<1>1. /\ Tick /\ Transmit(s, clock') /\ commands' = commands \cup {clock'}
      /\ UNCHANGED <<held, queue, accepted, stale>>
    BY Zenon DEF SendSnapshot
<1>t. clock \in Nat
    BY Zenon DEF TypeOK
<1>2. \A t, i : Wired(n, t, i)' =>
          Wired(n, t, i) \/ (n = clock' /\ t = s /\ i = Len(wire[s]) + 1)
    BY <1>1, TransmitPlaces, Zenon
<1>3. CASE n = clock'
    <2>1. /\ \A v : ~Held(n, v)'
          /\ \A t, i : ~Queued(n, t, i)'
          /\ \A t, i : Wired(n, t, i)' => t = s /\ i = Len(wire[s]) + 1
          /\ \A i : ~Taken(n, i)'
          /\ ~(n \in stale)'
        BY <1>1, <1>2, <1>3, <1>t, NewIsNowhere, Unmoved, Zenon
    <2>2. \A p : Place(n, p)' => p = <<"wire", s, Len(wire[s]) + 1>>
        BY <2>1, Zenon DEF Place
    <2> QED
        BY <2>2, SoleAt
<1>4. CASE n # clock'
    <2>1. n \in commands /\ Sole(n)
        BY <1>1, <1>4
    <2> QED
        BY <2>1, <1>1, <1>2, <1>4, Unmoved, SoleStays, Zenon
<1> QED
    BY <1>3, <1>4

\* What a call sends it takes from the front of its channel, where the rest moves up.
LEMMA ForwardSole ==
    ASSUME TypeOK, Passing, Dated, NEW n \in commands', n \in commands => Sole(n),
           NEW s \in Sessions, Forward(s)
    PROVE  Sole(n)'
<1> USE DEF agentVars
<1>1. /\ queue[s] # <<>> /\ Transmit(s, Head(queue[s]))
      /\ queue' = [queue EXCEPT ![s] = Tail(@)]
      /\ UNCHANGED <<held, accepted, stale, commands>>
    BY Zenon DEF Forward
<1>2. n \in commands /\ Sole(n)
    BY <1>1
<1>q. queue \in [Sessions -> Seq(commands)] /\ queue[s] \in Seq(commands)
    BY Zenon DEF Passing
<1>h. Queued(Head(queue[s]), s, 1)
    BY <1>1, <1>q, TakeOne DEF Queued
<1>3. \A t, i : Wired(n, t, i)' =>
          \/ Wired(n, t, i)
          \/ n = Head(queue[s]) /\ t = s /\ i = Len(wire[s]) + 1
    BY <1>1, TransmitPlaces, Zenon
<1>4. \A t, i : Queued(n, t, i)' =>
          \/ t # s /\ Queued(n, t, i)
          \/ t = s /\ i \in Nat /\ i + 1 # 1 /\ Queued(n, s, i + 1)
    <2> SUFFICES ASSUME NEW t, NEW i, Queued(n, t, i)'
                 PROVE  \/ t # s /\ Queued(n, t, i)
                        \/ t = s /\ i \in Nat /\ i + 1 # 1 /\ Queued(n, s, i + 1)
        OBVIOUS
    <2>0. t \in Sessions /\ i \in 1..Len(queue'[t]) /\ queue'[t][i] = n
        BY Zenon DEF Queued
    <2>1. CASE t # s
        <3>1. queue'[t] = queue[t]
            BY <1>1, <1>q, <2>0, <2>1, Zenon
        <3> QED
            BY <2>0, <2>1, <3>1, Zenon DEF Queued
    <2>2. CASE t = s
        <3>1. queue'[t] = Tail(queue[s])
            BY <1>1, <1>q, <2>2, Zenon
        <3>2. i \in 1..Len(Tail(queue[s])) /\ Tail(queue[s])[i] = n
            BY <2>0, <3>1, Zenon
        <3>3. i + 1 \in 1..Len(queue[s]) /\ queue[s][i + 1] = n /\ i + 1 # 1
            BY <1>1, <1>q, <3>2, Shifts
        <3>4. i \in Nat
            BY <1>q, <3>2
        <3> QED
            BY <2>2, <3>3, <3>4, Zenon DEF Queued
    <2> QED
        BY <2>1, <2>2, Zenon
<1>5. CASE n = Head(queue[s])
    <2>1. \A t, i : Queued(n, t, i) => t = s /\ i = 1
        BY <1>2, <1>5, <1>h, Apart, Zenon
    <2>2. /\ \A v : ~Held(n, v)'
          /\ \A t, i : ~Queued(n, t, i)'
          /\ \A t, i : Wired(n, t, i)' => t = s /\ i = Len(wire[s]) + 1
          /\ \A i : ~Taken(n, i)'
          /\ ~(n \in stale)'
        <3>1. /\ \A v : ~Held(n, v)
              /\ \A t, i : ~Wired(n, t, i) /\ ~Taken(n, i) /\ n \notin stale
            BY <1>2, <1>5, <1>h, Apart, Zenon
        <3>2. \A t, i : ~Queued(n, t, i)'
            BY <1>4, <2>1, Zenon
        <3> QED
            BY <3>1, <3>2, <1>1, <1>3, Unmoved, Zenon
    <2>3. \A p : Place(n, p)' => p = <<"wire", s, Len(wire[s]) + 1>>
        BY <2>2, Zenon DEF Place
    <2> QED
        BY <2>3, SoleAt
<1>6. ASSUME n # Head(queue[s]), NEW j, Queued(n, s, j) PROVE Sole(n)'
    <2>1. /\ \A v : ~Held(n, v)'
          /\ \A t, i : ~Wired(n, t, i)' /\ ~Taken(n, i)' /\ ~(n \in stale)'
        <3>1. /\ \A v : ~Held(n, v)
              /\ \A t, i : ~Wired(n, t, i) /\ ~Taken(n, i) /\ n \notin stale
            BY <1>2, <1>6, Apart, Zenon
        <3> QED
            BY <3>1, <1>1, <1>3, <1>6, Unmoved, Zenon
    <2>2. \A t, i : Queued(n, t, i)' => t = s /\ i \in Nat /\ i + 1 = j
        BY <1>2, <1>4, <1>6, Apart, Zenon
    <2>3. \A t, i : Queued(n, t, i)' => t = s /\ i = j - 1
        BY <2>2
    <2>4. \A p : Place(n, p)' => p = <<"queue", s, j - 1>>
        BY <2>1, <2>3, Zenon DEF Place
    <2> QED
        BY <2>4, SoleAt
<1>7. CASE n # Head(queue[s]) /\ \A j : ~Queued(n, s, j)
    <2>1. \A t, i : Queued(n, t, i)' => Queued(n, t, i)
        BY <1>4, <1>7, Zenon
    <2> QED
        BY <1>1, <1>2, <1>3, <1>7, <2>1, Unmoved, SoleStays, Zenon
<1> QED
    BY <1>5, <1>6, <1>7, Zenon

\* What the agent accepts or refuses it takes from the front of its transport.
LEMMA ReceiveSole ==
    ASSUME TypeOK, Passing, Dated, NEW n \in commands', n \in commands => Sole(n), Receive
    PROVE  Sole(n)'
<1> USE DEF backendVars
<1> DEFINE m == Head(wire[cur])
<1>1. /\ wire[cur] # <<>> /\ wire' = [wire EXCEPT ![cur] = Tail(@)]
      /\ \/ accepted' = Append(accepted, m) /\ stale' = stale
         \/ accepted' = accepted /\ stale' = stale \cup {m}
      /\ UNCHANGED <<held, queue, commands>>
    BY Zenon DEF Receive
<1>2. n \in commands /\ Sole(n)
    BY <1>1
<1>s. cur \in Sessions
    BY TypeParts, Zenon DEF Receive, PlacesOK
<1>q. wire \in [Sessions -> Seq(commands)] /\ wire[cur] \in Seq(commands)
    BY <1>s, Zenon DEF Passing
<1>h. Wired(m, cur, 1)
    BY <1>1, <1>s, <1>q, TakeOne DEF Wired
<1>w. m \in commands
    BY <1>1, <1>q, TakeOne, Zenon
<1> HIDE DEF m
<1>3. \A t, i : Wired(n, t, i)' =>
          \/ t # cur /\ Wired(n, t, i)
          \/ t = cur /\ i \in Nat /\ i + 1 # 1 /\ Wired(n, cur, i + 1)
    <2> SUFFICES ASSUME NEW t, NEW i, Wired(n, t, i)'
                 PROVE  \/ t # cur /\ Wired(n, t, i)
                        \/ t = cur /\ i \in Nat /\ i + 1 # 1 /\ Wired(n, cur, i + 1)
        OBVIOUS
    <2>0. t \in Sessions /\ i \in 1..Len(wire'[t]) /\ wire'[t][i] = n
        BY Zenon DEF Wired
    <2>1. CASE t # cur
        <3>1. wire'[t] = wire[t]
            BY <1>1, <1>q, <2>0, <2>1, Zenon
        <3> QED
            BY <2>0, <2>1, <3>1, Zenon DEF Wired
    <2>2. CASE t = cur
        <3>1. wire'[t] = Tail(wire[cur])
            BY <1>1, <1>q, <1>s, <2>2, Zenon
        <3>2. i \in 1..Len(Tail(wire[cur])) /\ Tail(wire[cur])[i] = n
            BY <2>0, <3>1, Zenon
        <3>3. i + 1 \in 1..Len(wire[cur]) /\ wire[cur][i + 1] = n /\ i + 1 # 1
            BY <1>1, <1>q, <3>2, Shifts
        <3>4. i \in Nat
            BY <1>q, <3>2
        <3> QED
            BY <1>s, <2>2, <3>3, <3>4, Zenon DEF Wired
    <2> QED
        BY <2>1, <2>2, Zenon
<1>4. /\ \A i : Taken(n, i)' =>
             Taken(n, i) \/ (n = m /\ i = Len(accepted) + 1 /\ stale' = stale)
      /\ n \in stale' => n \in stale \/ (n = m /\ accepted' = accepted)
    <2>1. CASE accepted' = Append(accepted, m) /\ stale' = stale
        BY <1>w, <2>1 DEF Taken, Dated
    <2>2. CASE accepted' = accepted /\ stale' = stale \cup {m}
        BY <2>2 DEF Taken
    <2> QED
        BY <1>1, <2>1, <2>2
<1>5. CASE n = m
    <2>1. /\ \A t, i : Wired(n, t, i) => t = cur /\ i = 1
          /\ \A i : ~Taken(n, i) /\ n \notin stale
          /\ \A v : ~Held(n, v)
          /\ \A t, i : ~Queued(n, t, i)
        BY <1>2, <1>5, <1>h, Apart, Zenon
    <2>2. /\ \A v : ~Held(n, v)'
          /\ \A t, i : ~Queued(n, t, i)' /\ ~Wired(n, t, i)'
        BY <2>1, <1>1, <1>3, Unmoved, Zenon
    <2>3. CASE stale' = stale
        <3>1. ~(n \in stale)' /\ \A i : Taken(n, i)' => i = Len(accepted) + 1
            BY <1>4, <2>1, <2>3, Zenon
        <3>2. \A p : Place(n, p)' => p = <<"accepted", NoSession, Len(accepted) + 1>>
            BY <2>2, <3>1, Zenon DEF Place
        <3> QED
            BY <3>2, SoleAt
    <2>4. CASE accepted' = accepted
        <3>1. \A i : ~Taken(n, i)'
            BY <2>1, <2>4, Unmoved, Zenon
        <3>2. \A p : Place(n, p)' => p = <<"stale", NoSession, 0>>
            BY <2>2, <3>1, Zenon DEF Place
        <3> QED
            BY <3>2, SoleAt
    <2> QED
        BY <1>1, <2>3, <2>4
<1>6. ASSUME n # m, NEW j, Wired(n, cur, j) PROVE Sole(n)'
    <2>1. /\ \A i : ~Taken(n, i) /\ n \notin stale
          /\ \A v : ~Held(n, v)
          /\ \A t, i : ~Queued(n, t, i)
        BY <1>2, <1>6, Apart, Zenon
    <2>2. /\ \A v : ~Held(n, v)'
          /\ \A t, i : ~Queued(n, t, i)' /\ ~Taken(n, i)' /\ ~(n \in stale)'
        BY <2>1, <1>1, <1>4, <1>6, Unmoved, Zenon
    <2>3. \A t, i : Wired(n, t, i)' => t = cur /\ i \in Nat /\ i + 1 = j
        BY <1>2, <1>3, <1>6, Apart, Zenon
    <2>4. \A t, i : Wired(n, t, i)' => t = cur /\ i = j - 1
        BY <2>3
    <2>5. \A p : Place(n, p)' => p = <<"wire", cur, j - 1>>
        BY <2>2, <2>4, Zenon DEF Place
    <2> QED
        BY <2>5, SoleAt
<1>7. CASE n # m /\ \A j : ~Wired(n, cur, j)
    <2>1. \A t, i : Wired(n, t, i)' => Wired(n, t, i)
        BY <1>3, <1>7, Zenon
    <2> QED
        BY <1>1, <1>2, <1>4, <1>7, <2>1, Unmoved, SoleStays, Zenon
<1> QED
    BY <1>5, <1>6, <1>7, Zenon

\* A broken transport and a restarted backend lose what was in them.
LEMMA LossSole ==
    ASSUME TypeOK, Passing, Dated, NEW n \in commands', n \in commands => Sole(n),
           (\E s \in Sessions : Drop(s)) \/ BackendRestart
    PROVE  Sole(n)'
<1> USE DEF agentVars, backendVars
<1>1. ASSUME NEW s \in Sessions, Drop(s) PROVE Sole(n)'
    <2>1. /\ wire' = [wire EXCEPT ![s] = <<>>]
          /\ UNCHANGED <<held, queue, accepted, stale, commands>>
        BY <1>1, Zenon DEF Drop
    <2>2. \A t, i : Wired(n, t, i)' => Wired(n, t, i)
        BY <2>1 DEF Wired, Passing
    <2> QED
        BY <2>1, <2>2, Unmoved, SoleStays, Zenon
<1>2. CASE BackendRestart
    <2>1. /\ held' = [w \in Signers |-> 0]
          /\ queue' = [s \in Sessions |-> <<>>] /\ wire' = [s \in Sessions |-> <<>>]
          /\ UNCHANGED <<accepted, stale, commands>>
        BY <1>2, Zenon DEF BackendRestart
    <2>2. n # 0
        BY <2>1 DEF Dated
    <2>3. \A w : ~Held(n, w)'
        BY <2>1, <2>2 DEF Held
    <2>4. \A s, i : ~Queued(n, s, i)' /\ ~Wired(n, s, i)'
        BY <2>1 DEF Queued, Wired
    <2> QED
        BY <2>1, <2>3, <2>4, Unmoved, SoleStays, Zenon
<1> QED
    BY <1>1, <1>2

LEMMA SoleStep ==
    ASSUME TypeOK, Passing, Dated, \A n \in commands : Sole(n), [Next]_vars
    PROVE  \A n \in commands' : Sole(n)'
<1> SUFFICES ASSUME NEW n \in commands' PROVE Sole(n)'
    OBVIOUS
<1> USE DEF agentVars, backendVars
<1>1. CASE \/ \E s \in Sessions : \/ Register(s) \/ EndSnapshot(s) \/ ContextDone(s)
                                  \/ Unregister(s)
           \/ \E f \in Fetchers : ServeList(f) \/ ReceiveList(f)
           \/ Connect \/ SyncFails \/ StreamError \/ UNCHANGED vars
    <2>1. UNCHANGED <<held, queue, wire, accepted, stale, commands>>
        BY <1>1, Zenon
        DEF Register, EndSnapshot, ContextDone, Unregister, ServeList, ReceiveList, Connect,
            SyncFails, StreamError, vars
    <2> QED
        BY <2>1, Unmoved, SoleStays, Zenon
<1> QED
    BY <1>1, SignSole, SendSole, SnapshotSole, ForwardSole, ReceiveSole, LossSole, Zenon
    DEF Next

----------------------------------------------------------------------------
LEMMA InitIInv == Init => IInv
<1> SUFFICES ASSUME Init PROVE IInv
    OBVIOUS
<1>1. NumbersOK
    BY DEF Init, NumbersOK
<1>2. QueuesOK
    BY BoundsAssumption DEF Init, QueuesOK
<1>3. PlacesOK
    BY Zenon DEF Init, PlacesOK
<1>4. Passing
    BY DEF Init, Passing
<1>5. SeenAccepted /\ InSigningOrder
    BY DEF Init, SeenAccepted, InSigningOrder, Rising
<1>6. HubTargetsLiveHandler /\ ReachableWithoutOverlap
    BY Zenon DEF Init, HubTargetsLiveHandler, ReachableWithoutOverlap, Live
<1> QED
    BY <1>1, <1>2, <1>3, <1>4, <1>5, <1>6, TypeParts, Zenon DEF IInv

LEMMA NextIInv == IInv /\ [Next]_vars => IInv'
<1> SUFFICES ASSUME IInv, [Next]_vars PROVE IInv'
    OBVIOUS
<1>1. NumbersOK' /\ QueuesOK' /\ PlacesOK' /\ Carried'
    BY NumbersStep, QueuesStep, PlacesStep, CarriedStep, Zenon DEF IInv
<1>2. TypeOK'
    BY <1>1, Zenon DEF TypeOK, NumbersOK, QueuesOK, PlacesOK
<1>3. SeenAccepted' /\ InSigningOrder'
    BY AcceptedStep, Zenon DEF IInv
<1>4. HubTargetsLiveHandler' /\ ReachableWithoutOverlap'
    BY HubInvariantStep, Zenon DEF IInv
<1> QED
    BY <1>1, <1>2, <1>3, <1>4, Zenon DEF IInv, Carried

LEMMA Invariant == Spec => []IInv
BY InitIInv, NextIInv, PTL DEF Spec

\* The channels never hold more than their capacity (the send of SendCommandToAgent does
\* not block), and signers, channels and transports hold only what was signed.
THEOREM TypeCorrect == Spec => [](TypeOK /\ Passing)
<1>1. IInv => TypeOK /\ Passing
    BY Zenon DEF IInv
<1> QED
    BY <1>1, Invariant, PTL

\* processCommand accepts commands in the order in which they were signed, and none
\* twice, whatever the signers, the sessions and the list fetches interleave to (the
\* goroutines that carry them out may overtake one another).
THEOREM AcceptedInOrder == Spec => []InSigningOrder
<1>1. IInv => InSigningOrder
    BY Zenon DEF IInv
<1> QED
    BY <1>1, Invariant, PTL

\* SendCommandToAgent never fills the channel of a StreamBlockCommands call that has
\* unregistered: the ID of the agent is deleted by every call, the last one included.
THEOREM HubReachesLive == Spec => []HubTargetsLiveHandler
<1>1. IInv => HubTargetsLiveHandler
    BY Zenon DEF IInv
<1> QED
    BY <1>1, Invariant, PTL

\* As long as no call registered before its predecessor had unregistered, the hub sends
\* to the call that serves the agent.
THEOREM AloneIsReached == Spec => []ReachableWithoutOverlap
<1>1. IInv => ReachableWithoutOverlap
    BY Zenon DEF IInv
<1> QED
    BY <1>1, Invariant, PTL

\* The signers, the hub, the sessions and the agent together are a path that loses
\* commands but neither makes, repeats nor reorders them.
THEOREM Implementation == Spec => ImplementsOrderedDelivery
<1>1. Init => Delivery!Init
    BY DEF Init, Delivery!Init
<1>2. IInv /\ [Next]_vars => [Delivery!Next]_<<commands, accepted>>
    <2> SUFFICES ASSUME IInv, [Next]_vars PROVE [Delivery!Next]_<<commands, accepted>>
        OBVIOUS
    <2>1. CASE Accepting
        <3>1. PICK n \in commands : n > lastSeen /\ accepted' = Append(accepted, n)
                                    /\ commands' = commands
            BY <2>1 DEF Accepting
        <3>2. lastSeen \in Nat /\ n \in Nat /\ \A i \in 1..Len(accepted) : accepted[i] \in Nat
            BY TypeParts DEF IInv, NumbersOK, QueuesOK
        <3>3. \A i \in 1..Len(accepted) : n > accepted[i]
            BY <3>1, <3>2 DEF IInv, SeenAccepted
        <3> QED
            BY <3>1, <3>3, Zenon DEF Delivery!Next, Delivery!Accept
    <2>2. CASE /\ UNCHANGED accepted
               /\ UNCHANGED commands \/ \E n \in commands' : commands' = commands \cup {n}
        BY <2>2, Zenon DEF Delivery!Next, Delivery!Send
    <2> QED
        BY <2>1, <2>2, AcceptedMoves, Zenon DEF IInv
<1> QED
    BY <1>1, <1>2, Invariant, PTL DEF Spec, ImplementsOrderedDelivery, Delivery!Spec

\* A command is never in two places, nor twice in one: a channel and a transport, a signer
\* and what the agent has accepted or refused never share one, however calls overlap,
\* break and restart.
THEOREM NothingIsDoubled == Spec => []OnePlace
<1> DEFINE Single == Dated /\ \A n \in commands : Sole(n)
<1>1. Init => Single
    BY DEF Init, Dated
<1>2. IInv /\ Single /\ [Next]_vars => Single'
    BY DatedStep, SoleStep, Zenon DEF IInv
<1>3. Single => OnePlace
    BY PlacesAre, Zenon DEF OnePlace, Sole
<1> HIDE DEF Single
<1> QED
    BY <1>1, <1>2, <1>3, Invariant, PTL DEF Spec
=============================================================================
