--------------------------- MODULE CommandVerify ---------------------------
(***************************************************************************)
(* The authentication of backend messages in the agent:                    *)
(*   agent/block_command_verify.go   verifyCommand                         *)
(*   agent/block_command_sync.go     fetchBlockList, loadNonce,            *)
(*                                   persistNonce                          *)
(*   shared/cmdsigning/signing.go    Verify and NonceTracker               *)
(*                                                                         *)
(* Several goroutines verify messages against ONE NonceTracker and ONE     *)
(* nonce file: the receive loop (stream commands, and a block list each    *)
(* time it connects), the start-up SyncBlockList of main, and the          *)
(* one-minute Reconcile.  Check, Record and the file write are separate    *)
(* critical sections, so the goroutines interleave between them.           *)
(*                                                                         *)
(* Data is abstracted to what verification tells apart: a message has a    *)
(* nonce, a signature that verifies or not, and is a streamed command or   *)
(* a block list response.  Ageing past the five-minute window is a step    *)
(* that may happen to any message at any time.  A message may be delivered *)
(* repeatedly and in any order: the case the nonce exists for.             *)
(***************************************************************************)
EXTENDS Integers, FiniteSets

CONSTANTS Callers,       \* goroutines that call verifyCommand or fetchBlockList
          ReceiveLoop,   \* the one that also receives streamed commands
          Messages,      \* the signed messages of the backend
          Lists,         \* those that are GetBlockList responses
          Genuine,       \* those whose HMAC verifies
          Nonce,         \* Nonce[m], 0 or less when the message is unsigned
          NoMessage,     \* what a caller that verifies nothing holds
          MaxBoots       \* bound: starts of the agent

ASSUME CallersAssumption == ReceiveLoop \in Callers
ASSUME MessagesAssumption ==
    /\ Lists \subseteq Messages
    /\ Genuine \subseteq Messages
    /\ Nonce \in [Messages -> Int]
    /\ NoMessage \notin Messages
ASSUME BootsAssumption == MaxBoots \in Nat

VARIABLES
    lastSeen,     \* NonceTracker.lastSeen
    disk,         \* what loadNonce finds in the nonce file, 0 when there is nothing to read
    pc,           \* where each caller stands in its verification
    msg,          \* the message each caller is verifying
    expired,      \* commands issued more than maxCommandAge ago
    accepted,     \* accepted[c]: messages c has accepted since the agent started
    newest,       \* newest[c]: nonce of the last of them, 0 when there is none
    boots         \* starts of the agent so far

vars == <<lastSeen, disk, pc, msg, expired, accepted, newest, boots>>

Commands == Messages \ Lists

\* What a caller may be handed: a command arrives on the stream only.
Inbox(c) == IF c = ReceiveLoop THEN Messages ELSE Lists

Signed(m) == Nonce[m] > 0

Max2(a, b) == IF a > b THEN a ELSE b

TypeOK ==
    /\ lastSeen \in Nat
    /\ disk \in Nat
    /\ pc \in [Callers -> {"idle", "checked", "verified", "recorded", "truncated"}]
    /\ msg \in [Callers -> Messages \cup {NoMessage}]
    /\ \A c \in Callers : pc[c] # "idle" => msg[c] \in Inbox(c)
    /\ expired \subseteq Commands
    /\ accepted \in [Callers -> SUBSET Messages]
    /\ newest \in [Callers -> Nat]
    /\ boots \in Nat

Init ==
    /\ lastSeen = 0
    /\ disk = 0
    /\ pc = [c \in Callers |-> "idle"]
    /\ msg = [c \in Callers |-> NoMessage]
    /\ expired = {}
    /\ accepted = [c \in Callers |-> {}]
    /\ newest = [c \in Callers |-> 0]
    /\ boots = 1

\* Mutant: the caller goes back to waiting for Verify without its message.
RejectKeepsPc(c) == UNCHANGED pc /\ msg' = [msg EXCEPT ![c] = NoMessage]

\* The caller gives the message up (the error returns of the two functions).
Reject(c) ==
    /\ pc' = [pc EXCEPT ![c] = "idle"]
    /\ msg' = [msg EXCEPT ![c] = NoMessage]

\* Mutant: an equal nonce counts as fresh.
CheckAllowsEqual(n) == n >= lastSeen

\* NonceTracker.Check: TRUE iff the nonce is above the last one recorded.
CheckOK(n) == n > lastSeen

\* Unsigned messages are refused, then the nonce is checked (and the lock dropped).
Check(c, m) ==
    /\ pc[c] = "idle"
    /\ m \in Inbox(c)
    /\ Signed(m)
    /\ CheckOK(Nonce[m])
    /\ pc' = [pc EXCEPT ![c] = "checked"]
    /\ msg' = [msg EXCEPT ![c] = m]
    /\ UNCHANGED <<lastSeen, disk, expired, accepted, newest, boots>>

\* Mutant: the HMAC is not checked.
AgeOnly(m) == m \in Commands => m \notin expired

\* The age of a command (a list carries no timestamp) and the HMAC.
Authentic(m) ==
    /\ m \in Commands => m \notin expired
    /\ m \in Genuine

Verify(c) ==
    /\ pc[c] = "checked"
    /\ IF Authentic(msg[c])
       THEN pc' = [pc EXCEPT ![c] = "verified"] /\ UNCHANGED msg
       ELSE Reject(c)
    /\ UNCHANGED <<lastSeen, disk, expired, accepted, newest, boots>>

\* Mutant: Record stores the nonce without comparing.
RecordOverwrites(n) == lastSeen' = n

\* NonceTracker.Record keeps the larger of the two.
RecordNonce(n) == lastSeen' = Max2(lastSeen, n)

Record(c) ==
    /\ pc[c] = "verified"
    /\ RecordNonce(Nonce[msg[c]])
    /\ pc' = [pc EXCEPT ![c] = "recorded"]
    /\ UNCHANGED <<disk, msg, expired, accepted, newest, boots>>

\* persistNonce: os.WriteFile opens the file, which empties it.
Truncate(c) ==
    /\ pc[c] = "recorded"
    /\ disk' = 0
    /\ pc' = [pc EXCEPT ![c] = "truncated"]
    /\ UNCHANGED <<lastSeen, msg, expired, accepted, newest, boots>>

\* What a write of the nonce n leaves in the file: n, what was there, or, where the disk
\* is full, the first digits of n, which are a smaller number (or none).
Written(n) == IF disk = 0 THEN 0 .. n ELSE {disk, n}

\* It writes this message's own nonce, unless the file could not be opened; an error is
\* only logged.  Then verification returns and the message is accepted.
Persist(c) ==
    /\ \/ pc[c] = "recorded" /\ UNCHANGED disk
       \/ pc[c] = "truncated" /\ disk' \in Written(Nonce[msg[c]])
    /\ accepted' = [accepted EXCEPT ![c] = @ \cup {msg[c]}]
    /\ newest' = [newest EXCEPT ![c] = Nonce[msg[c]]]
    /\ Reject(c)
    /\ UNCHANGED <<lastSeen, expired, boots>>

\* Five minutes pass for the command m.
Expire(m) ==
    /\ m \in Commands \ expired
    /\ expired' = expired \cup {m}
    /\ UNCHANGED <<lastSeen, disk, pc, msg, accepted, newest, boots>>

\* The agent dies anywhere and starts again: loadNonce is all it remembers.
Restart ==
    /\ boots < MaxBoots
    /\ boots' = boots + 1
    /\ lastSeen' = disk
    /\ pc' = [c \in Callers |-> "idle"]
    /\ msg' = [c \in Callers |-> NoMessage]
    /\ accepted' = [c \in Callers |-> {}]
    /\ newest' = [c \in Callers |-> 0]
    /\ UNCHANGED <<disk, expired>>

Next ==
    \/ \E c \in Callers :
          \/ \E m \in Messages : Check(c, m)
          \/ Verify(c)
          \/ Record(c)
          \/ Truncate(c)
          \/ Persist(c)
    \/ \E m \in Commands : Expire(m)
    \/ Restart

Spec == Init /\ [][Next]_vars

----------------------------------------------------------------------------
\* Since the agent started, no streamed command has been accepted twice: the
\* promise of NonceTracker ("Prevents replay attacks", block_command_client.go:40)
\* although Check and Record are separate critical sections of three goroutines.
\* Stated on what a caller is about to accept against what it has accepted.
NoReplay ==
    \A c \in Callers :
        pc[c] \in {"checked", "verified", "recorded", "truncated"} => msg[c] \notin accepted[c]

\* A message that does not verify cannot raise the nonce, in memory or on disk,
\* and so cannot lock out later commands: verifyCommand records only after the
\* HMAC is checked, and persistNonce follows Record.  (A write that was cut short
\* leaves a smaller number than that of the message.)
OnlyGenuineAdvance ==
    \A n \in {lastSeen, disk} : n = 0 \/ \E m \in Genuine : n <= Nonce[m]

\* The nonce file is never ahead of the tracker: a restart cannot make the
\* agent refuse a command it would have accepted without the restart.
DiskBehindMemory == disk <= lastSeen

\* What every caller accepted is covered by the tracker, so that every later
\* check of any caller refuses it.
AcceptedCovered ==
    \A c \in Callers : \A m \in accepted[c] : Nonce[m] <= lastSeen

\* The tracker never forgets while the agent runs: lastSeen falls only when the
\* agent starts again, and then to the value of the file.
MonotoneTracker ==
    [][lastSeen' < lastSeen => boots' > boots /\ lastSeen' = disk]_vars

\* Refinement: although its check and its record are separate critical sections
\* that two other goroutines interleave with, the receive loop accepts a command
\* only above everything it accepted before (abstract module ReplayGuard).
Guard == INSTANCE ReplayGuard WITH high <- newest[ReceiveLoop]

ReceiveLoopGuarded == Guard!Spec
============================================================================
