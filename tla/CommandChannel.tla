--------------------------- MODULE CommandChannel ---------------------------
(***************************************************************************)
(* The path of a signed command from the backend to one agent:             *)
(*   backend/internal/analysis/block_manager.go  signCommand               *)
(*   backend/internal/api/block_grpc.go  signHubCommand,                   *)
(*                        StreamBlockCommands, GetBlockList                *)
(*   backend/internal/api/websocket.go   Hub.RegisterAgent,                *)
(*                        UnregisterAgent, SendCommandToAgent              *)
(*   agent/block_command_client.go       connectAndStream, receiveLoop     *)
(*                                                                         *)
(* The backend goroutines that sign (the BlockManager loop and the HTTP    *)
(* handlers) take the wall clock as the nonce first and reach the hub      *)
(* later.  Each StreamBlockCommands call is a session: it registers its    *)
(* own bounded channel under the agent's one ID, sends the whitelist       *)
(* snapshot, forwards the channel to the wire until its context ends, and  *)
(* a deferred call unregisters the ID.  Nonces come from one clock that    *)
(* advances at each reading.  The agent's verification is one step here:   *)
(* CommandVerify refines it and shows that its interleavings do not matter *)
(* to the receive loop.                                                    *)
(***************************************************************************)
EXTENDS Naturals, Sequences, FiniteSets

CONSTANTS Signers,      \* backend goroutines that sign commands for the agent
          MaxSessions,  \* bound: StreamBlockCommands calls
          ChanCap,      \* capacity of a session's channel (10 in the code)
          MaxClock,     \* bound: readings of the clock
          MaxSnapshot   \* bound: messages of the whitelist snapshots

ASSUME BoundsAssumption ==
    /\ MaxSessions \in Nat /\ ChanCap \in Nat \ {0}
    /\ MaxClock \in Nat /\ MaxSnapshot \in Nat

Sessions == 1..MaxSessions
NoSession == 0

VARIABLES
    clock,      \* last reading of the backend's clock
    held,       \* held[w]: nonce signed by w that has not reached the hub, or 0
    hub,        \* Hub.agentChannels[agent]: the session whose channel it is, or 0
    queue,      \* queue[s]: contents of the session's channel
    handler,    \* handler[s]: where the StreamBlockCommands call stands
    snapshots,  \* whitelist snapshot messages sent so far
    link,       \* link[s]: the transport of the session is up
    wire,       \* wire[s]: messages sent on the stream and not yet received
    client,     \* where connectAndStream stands
    cur,        \* the client's session, 0 between two of them
    listed,     \* nonces of block list responses on their way: SyncBlockList, Reconcile
    lastSeen,   \* the agent's NonceTracker
    accepted,   \* commands accepted by the agent, oldest first
    stale,      \* commands the agent refused as replayed
    commands,   \* nonces given to commands and snapshot messages
    overlap     \* a session has registered while an earlier one was still live

agentVars == <<client, cur, listed, lastSeen, accepted, stale>>
backendVars == <<held, hub, queue, handler, snapshots, commands, overlap>>
vars == <<clock, held, hub, queue, handler, snapshots, link, wire, client, cur,
          listed, lastSeen, accepted, stale, commands, overlap>>

Fetchers == {"sync", "reconcile"}

\* A handler that has registered its channel and not yet unregistered it.
Live(s) == handler[s] \in {"snapshot", "streaming", "leaving"}

TypeOK ==
    /\ clock \in Nat
    /\ held \in [Signers -> Nat]
    /\ hub \in Sessions \cup {NoSession}
    /\ queue \in [Sessions -> Seq(Nat)]
    /\ \A s \in Sessions : Len(queue[s]) <= ChanCap
    /\ handler \in [Sessions -> {"none", "called", "snapshot", "streaming", "leaving", "ended"}]
    /\ snapshots \in Nat
    /\ link \in [Sessions -> BOOLEAN]
    /\ wire \in [Sessions -> Seq(Nat)]
    /\ client \in {"down", "sync", "receiving"}
    /\ cur \in Sessions \cup {NoSession}
    /\ client = "down" <=> cur = NoSession
    /\ listed \in [Fetchers -> Nat]
    /\ lastSeen \in Nat
    /\ accepted \in Seq(Nat)
    /\ stale \subseteq Nat
    /\ commands \subseteq Nat
    /\ overlap \in BOOLEAN

Init ==
    /\ clock = 0
    /\ held = [w \in Signers |-> 0]
    /\ hub = NoSession
    /\ queue = [s \in Sessions |-> <<>>]
    /\ handler = [s \in Sessions |-> "none"]
    /\ snapshots = 0
    /\ link = [s \in Sessions |-> FALSE]
    /\ wire = [s \in Sessions |-> <<>>]
    /\ client = "down"
    /\ cur = NoSession
    /\ listed = [f \in Fetchers |-> 0]
    /\ lastSeen = 0
    /\ accepted = <<>>
    /\ stale = {}
    /\ commands = {}
    /\ overlap = FALSE

----------------------------------------------------------------------------
(* The backend's signers and the hub.                                      *)

\* A reading of the clock, used as a nonce.
Tick == clock < MaxClock /\ clock' = clock + 1

\* The nonce is taken and the command signed, under no lock.
Sign(w) ==
    /\ held[w] = 0
    /\ Tick
    /\ held' = [held EXCEPT ![w] = clock']
    /\ commands' = commands \cup {clock'}
    /\ UNCHANGED <<hub, queue, handler, snapshots, link, wire, overlap, agentVars>>

\* SendCommandToAgent: put on the registered channel if there is room, else drop.
Enqueue(n) ==
    queue' = IF hub # NoSession /\ Len(queue[hub]) < ChanCap
             THEN [queue EXCEPT ![hub] = Append(@, n)]
             ELSE queue

SendCommandToAgent(w) ==
    /\ held[w] # 0
    /\ Enqueue(held[w])
    /\ held' = [held EXCEPT ![w] = 0]
    /\ UNCHANGED <<clock, hub, handler, snapshots, link, wire, commands, overlap, agentVars>>

----------------------------------------------------------------------------
(* One StreamBlockCommands call.                                           *)

\* Mutant: only the first registration since the start is made.
RegisterOnce(s) ==
    /\ handler[s] = "called"
    /\ hub' = IF \A t \in Sessions : handler[t] # "ended" THEN s ELSE hub
    /\ handler' = [handler EXCEPT ![s] = "snapshot"]
    /\ overlap' = (overlap \/ \E t \in Sessions : Live(t))
    /\ UNCHANGED <<clock, held, queue, snapshots, link, wire, commands, agentVars>>

\* RegisterAgent replaces whatever channel the agent's ID had.
Register(s) ==
    /\ handler[s] = "called"
    /\ hub' = s
    /\ handler' = [handler EXCEPT ![s] = "snapshot"]
    /\ overlap' = (overlap \/ \E t \in Sessions : Live(t))
    /\ UNCHANGED <<clock, held, queue, snapshots, link, wire, commands, agentVars>>

\* stream.Send: onto the wire, or an error once the transport is gone.
Transmit(s, n) ==
    wire' = IF link[s] THEN [wire EXCEPT ![s] = Append(@, n)] ELSE wire

\* One snapshot message, signed and sent at once, past the channel.
SendSnapshot(s) ==
    /\ handler[s] = "snapshot"
    /\ snapshots < MaxSnapshot
    /\ Tick
    /\ snapshots' = snapshots + 1
    /\ commands' = commands \cup {clock'}
    /\ Transmit(s, clock')
    /\ handler' = [handler EXCEPT ![s] = IF link[s] THEN "snapshot" ELSE "leaving"]
    /\ UNCHANGED <<held, hub, queue, link, overlap, agentVars>>

\* The snapshot is complete, or the whitelist could not be read.
EndSnapshot(s) ==
    /\ handler[s] = "snapshot"
    /\ handler' = [handler EXCEPT ![s] = "streaming"]
    /\ UNCHANGED <<clock, held, hub, queue, snapshots, link, wire, commands, overlap, agentVars>>

\* The select takes a command from the channel; a failed Send ends the call.
Forward(s) ==
    /\ handler[s] = "streaming"
    /\ queue[s] # <<>>
    /\ Transmit(s, Head(queue[s]))
    /\ queue' = [queue EXCEPT ![s] = Tail(@)]
    /\ handler' = [handler EXCEPT ![s] = IF link[s] THEN "streaming" ELSE "leaving"]
    /\ UNCHANGED <<clock, held, hub, snapshots, link, commands, overlap, agentVars>>

\* The select takes stream.Context().Done().
ContextDone(s) ==
    /\ handler[s] = "streaming"
    /\ ~link[s]
    /\ handler' = [handler EXCEPT ![s] = "leaving"]
    /\ UNCHANGED <<clock, held, hub, queue, snapshots, link, wire, commands, overlap, agentVars>>

\* The deferred UnregisterAgent deletes the ID, whichever channel it holds.
Unregister(s) ==
    /\ handler[s] = "leaving"
    /\ hub' = NoSession
    /\ handler' = [handler EXCEPT ![s] = "ended"]
    /\ UNCHANGED <<clock, held, queue, snapshots, link, wire, commands, overlap, agentVars>>

----------------------------------------------------------------------------
(* The agent.                                                              *)

\* connectAndStream opens the next stream; the call reaches the backend.
Connect ==
    /\ client = "down"
    /\ \E s \in Sessions :
          /\ handler[s] = "none"
          /\ \A t \in Sessions : t < s => handler[t] # "none"
          /\ cur' = s
          /\ handler' = [handler EXCEPT ![s] = "called"]
          /\ link' = [link EXCEPT ![s] = TRUE]
    /\ client' = "sync"
    /\ UNCHANGED <<clock, held, hub, queue, snapshots, wire, listed, lastSeen,
                   accepted, stale, commands, overlap>>

\* GetBlockList signs its response with a nonce of its own.
ServeList(f) ==
    /\ listed[f] = 0
    /\ f = "sync" => client = "sync"
    /\ Tick
    /\ listed' = [listed EXCEPT ![f] = clock']
    /\ UNCHANGED <<link, wire, client, cur, lastSeen, accepted, stale, backendVars>>

\* NonceTracker.Check, then Record: what is not above lastSeen is refused.
Fresh(n) == n > lastSeen

\* Mutant: Record is not called.
RaiseNothing(n) == UNCHANGED lastSeen

Raise(n) == lastSeen' = IF Fresh(n) THEN n ELSE lastSeen

\* The response arrives and is verified; SyncBlockList is done either way.
ReceiveList(f) ==
    /\ listed[f] # 0
    /\ Raise(listed[f])
    /\ listed' = [listed EXCEPT ![f] = 0]
    /\ client' = IF f = "sync" /\ client = "sync" THEN "receiving" ELSE client
    /\ UNCHANGED <<clock, link, wire, cur, accepted, stale, backendVars>>

\* SyncBlockList fails, which is only logged.
SyncFails ==
    /\ client = "sync"
    /\ client' = "receiving"
    /\ listed' = [listed EXCEPT !["sync"] = 0]
    /\ UNCHANGED <<clock, link, wire, cur, lastSeen, accepted, stale, backendVars>>

\* Mutant: a refused command is received again instead of being dropped.
ReceiveRetriesStale ==
    /\ client = "receiving"
    /\ wire[cur] # <<>>
    /\ LET n == Head(wire[cur]) IN
          /\ Raise(n)
          /\ IF Fresh(n)
             THEN /\ accepted' = Append(accepted, n)
                  /\ wire' = [wire EXCEPT ![cur] = Tail(@)]
                  /\ UNCHANGED stale
             ELSE stale' = stale \cup {n} /\ UNCHANGED <<accepted, wire>>
    /\ UNCHANGED <<clock, link, client, cur, listed, backendVars>>

\* stream.Recv, then processCommand: accept what is fresh, refuse the rest.  What is
\* accepted gets a goroutine of its own, so its effect may come after that of a later
\* command: Enforcement has such handlers side by side.
Receive ==
    /\ client = "receiving"
    /\ wire[cur] # <<>>
    /\ LET n == Head(wire[cur]) IN
          /\ Raise(n)
          /\ IF Fresh(n)
             THEN accepted' = Append(accepted, n) /\ UNCHANGED stale
             ELSE stale' = stale \cup {n} /\ UNCHANGED accepted
    /\ wire' = [wire EXCEPT ![cur] = Tail(@)]
    /\ UNCHANGED <<clock, link, client, cur, listed, backendVars>>

\* stream.Recv fails on a dead transport; receiveLoop will connect again.
StreamError ==
    /\ client = "receiving"
    /\ ~link[cur]
    /\ client' = "down"
    /\ cur' = NoSession
    /\ UNCHANGED <<clock, link, wire, listed, lastSeen, accepted, stale, backendVars>>

----------------------------------------------------------------------------
(* Failures.                                                               *)

\* The transport of a session breaks; what is in flight on it is lost.
Drop(s) ==
    /\ link[s]
    /\ link' = [link EXCEPT ![s] = FALSE]
    /\ wire' = [wire EXCEPT ![s] = <<>>]
    /\ UNCHANGED <<clock, agentVars, backendVars>>

\* The backend process restarts: hub, channels and calls are gone.
BackendRestart ==
    /\ \E s \in Sessions : handler[s] \notin {"none", "ended"}
    /\ held' = [w \in Signers |-> 0]
    /\ hub' = NoSession
    /\ queue' = [s \in Sessions |-> <<>>]
    /\ handler' = [s \in Sessions |-> IF handler[s] = "none" THEN "none" ELSE "ended"]
    /\ link' = [s \in Sessions |-> FALSE]
    /\ wire' = [s \in Sessions |-> <<>>]
    /\ UNCHANGED <<clock, snapshots, commands, overlap, agentVars>>

Next ==
    \/ \E w \in Signers : Sign(w) \/ SendCommandToAgent(w)
    \/ \E s \in Sessions : \/ Register(s) \/ SendSnapshot(s) \/ EndSnapshot(s)
                           \/ Forward(s) \/ ContextDone(s) \/ Unregister(s)
                           \/ Drop(s)
    \/ Connect \/ SyncFails \/ Receive \/ StreamError
    \/ \E f \in Fetchers : ServeList(f) \/ ReceiveList(f)
    \/ BackendRestart

Spec == Init /\ [][Next]_vars

\* The goroutines keep running and an RPC returns: the steps of the handlers
\* and of the client are not postponed forever.  Faults and new commands need
\* not happen.
FairSpec ==
    /\ Spec
    /\ \A s \in Sessions :
          /\ WF_vars(Register(s)) /\ WF_vars(EndSnapshot(s)) /\ WF_vars(Forward(s))
          /\ WF_vars(ContextDone(s)) /\ WF_vars(Unregister(s))
    /\ WF_vars(SyncFails \/ ReceiveList("sync"))
    /\ WF_vars(Receive) /\ WF_vars(StreamError) /\ WF_vars(Connect)

----------------------------------------------------------------------------
InSeq(n, q) == \E i \in 1..Len(q) : q[i] = n

Rising(q) == \A i, j \in 1..Len(q) : i < j => q[i] < q[j]

\* SendCommandToAgent never fills the channel of a call that has returned: the
\* deferred UnregisterAgent of every call deletes the ID, even when a second
\* call has registered over it (websocket.go:185-196).
HubTargetsLiveHandler == hub # NoSession => Live(hub)

\* Where a nonce is: the signers that hold it, its positions in channels, transports and
\* the list of the accepted, and the set of the refused.
Places(n) ==
    {<<"held", w, 0>> : w \in {v \in Signers : held[v] = n}}
    \cup (UNION {{<<"queue", s, i>> : i \in {j \in 1..Len(queue[s]) : queue[s][j] = n}} : s \in Sessions})
    \cup (UNION {{<<"wire", s, i>> : i \in {j \in 1..Len(wire[s]) : wire[s][j] = n}} : s \in Sessions})
    \cup {<<"accepted", NoSession, i>> : i \in {j \in 1..Len(accepted) : accepted[j] = n}}
    \cup {<<"stale", NoSession, 0>> : m \in {n} \cap stale}

\* A command is in one place only: what a signer, a channel or a transport holds nobody
\* else holds, nor has the agent accepted or refused it; nor is it twice in one of them.
OnePlace == \A n \in commands : \A p, q \in Places(n) : p = q

\* processCommand accepts commands once and in the order in which they were signed,
\* whatever the two signers, the sessions and the list fetches interleave to.  In which
\* order the goroutines it starts carry them out, it does not say.
InSigningOrder == Rising(accepted)

\* The same as an implementation of the abstract path of OrderedDelivery.
Delivery == INSTANCE OrderedDelivery WITH sent <- commands, got <- accepted

ImplementsOrderedDelivery == Delivery!Spec

\* A session that is being served is the one the hub sends to, as long as no
\* session ever registered before its predecessor had unregistered.
ReachableWithoutOverlap ==
    ~overlap => \A s \in Sessions : Live(s) => hub = s

\* A command in the channel of a session that streams is received (and accepted
\* or refused) by the agent unless the session's transport breaks.
QueuedIsReceived ==
    \A s \in Sessions : \A n \in 1..MaxClock :
        InSeq(n, queue[s]) /\ handler[s] = "streaming"
            ~> InSeq(n, accepted) \/ n \in stale \/ ~link[s]

\* "StreamBlockCommands - Backend streams block/unblock commands to agents": once
\* every earlier call has returned, an agent whose stream is served is registered.
StreamingIsRegistered ==
    \A s \in Sessions :
        (/\ handler[s] = "streaming" /\ link[s]
         /\ \A t \in Sessions \ {s} : handler[t] \in {"none", "ended"})
        => hub = s
============================================================================
