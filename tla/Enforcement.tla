---------------------------- MODULE Enforcement ----------------------------
(***************************************************************************)
(* What the agent does to one source address:                              *)
(*   agent/main.go                     onBlock, onUnblock, onRateLimit     *)
(*   agent/block_command_verify.go     processCommand                      *)
(*   agent/block_command_sync.go       Reconcile, SyncBlockList            *)
(*   agent/remediation/hybrid_remediator.go   Block, Unblock, RateLimit    *)
(*   agent/remediation/ipset_block.go, ipset_state.go, xdp_block.go,       *)
(*   agent/remediation/xdp_cleanup.go                                      *)
(*                                                                         *)
(* processCommand starts a goroutine for every accepted command, and the   *)
(* reconcile goroutine calls the same handlers, so any number of handlers  *)
(* run at once for one address.  A handler goes through four places that   *)
(* no lock spans: the local whitelist, the XDP map, the ipset sets and the *)
(* in-memory map that IsBlocked reads.                                     *)
(*                                                                         *)
(* An entry of one of these is None, or the time it has left: 0 when it    *)
(* has expired but is still there, Forever when it has no expiry.  What an *)
(* entry of the XDP map does to a packet is in PacketFilter.               *)
(***************************************************************************)
EXTENDS PacketFilter, FiniteSets

CONSTANTS Handlers,     \* goroutines that may run a handler
          Reconciler,   \* the one that runs Reconcile once a minute
          EnableXDP,    \* the XDP program is attached
          MaxDuration,  \* bound: longest duration of a timed block, in ticks
          MaxFails      \* bound: failures of XDP map writes and of ipset, and kills of the agent

ASSUME HandlersAssumption == Reconciler \in Handlers
ASSUME BoundsAssumption ==
    /\ EnableXDP \in BOOLEAN
    /\ MaxDuration \in Nat \ {0}
    /\ MaxFails \in Nat

VARIABLES
    xdp,         \* entry of the XDP blocklist map
    ipset,       \* entry of the ipset that is dropped
    limited,     \* entry of the ipset that is rate-limited
    tracked,     \* entry of IPSetRemediator.blockedIPs
    bypass,      \* the address is in the agent's whitelistedIPs
    listed,      \* the backend's block list for this agent has the address
    pc,          \* where each handler stands
    job,         \* what each handler was asked to do
    sweeping,    \* the XDP cleanup has read the entry and will delete it
    fails,       \* failures so far
    cleared,     \* kinds a "whitelisted" unblock has removed since bypass was set
    overlapped   \* two handlers have run at the same time

kernelVars == <<xdp, ipset, limited>>
vars == <<xdp, ipset, limited, tracked, bypass, listed, pc, job, sweeping,
          fails, cleared, overlapped>>

None == -1
Forever == MaxDuration + 1
Entries == None .. Forever

Present(e) == e # None
Alive(e) == e > 0

Durations == 0 .. MaxDuration
Kinds == {"blocklist", "ratelimit"}
Reasons == {"manual", "whitelisted", "whitelist_removed"}

BlockJobs == [op : {"block"}, duration : Durations]
LimitJobs == [op : {"ratelimit"}, duration : Durations]
UnblockJobs == [op : {"unblock"}, kind : Kinds, reason : Reasons]
\* A block or a rate limit whose reason is "whitelist_removed" (the backend gives that
\* reason to unblocks; Reconcile gives "reconcile").
RemovalJobs == [op : {"removal"}]
Jobs == BlockJobs \cup LimitJobs \cup UnblockJobs \cup RemovalJobs
NoJob == [op |-> "none"]

\* A duration of zero is a permanent block.
Lasting(d) == IF d = 0 THEN Forever ELSE d

TypeOK ==
    /\ xdp \in Entries /\ ipset \in Entries /\ limited \in Entries /\ tracked \in Entries
    /\ bypass \in BOOLEAN /\ listed \in BOOLEAN /\ sweeping \in BOOLEAN
    /\ pc \in [Handlers -> {"idle", "begin", "check", "purge", "xdp", "ipset", "track",
                            "xdpdel", "ipsetdel", "untrack", "limit"}]
    /\ job \in [Handlers -> Jobs \cup {NoJob}]
    /\ \A h \in Handlers : pc[h] = "idle" <=> job[h] = NoJob
    /\ fails \in 0 .. MaxFails
    /\ cleared \subseteq Kinds
    /\ overlapped \in BOOLEAN

Init ==
    /\ xdp = None /\ ipset = None /\ limited = None /\ tracked = None
    /\ bypass = FALSE /\ listed = FALSE /\ sweeping = FALSE
    /\ pc = [h \in Handlers |-> "idle"]
    /\ job = [h \in Handlers |-> NoJob]
    /\ fails = 0
    /\ cleared = {}
    /\ overlapped = FALSE

----------------------------------------------------------------------------
(* Handlers start, go on and end.                                          *)

Start(h, j) ==
    /\ pc[h] = "idle"
    /\ pc' = [pc EXCEPT ![h] = "begin"]
    /\ job' = [job EXCEPT ![h] = j]
    /\ overlapped' = (overlapped \/ \E g \in Handlers : pc[g] # "idle")
    /\ UNCHANGED <<kernelVars, tracked, bypass, listed, sweeping, fails, cleared>>

\* A command is accepted, or SyncBlockList applies an entry of its list.
Command(h) == h # Reconciler /\ \E j \in Jobs : Start(h, j)

\* Reconcile calls onBlock for every address of the list, whatever its type.
Reconcile == listed /\ \E j \in BlockJobs : Start(Reconciler, j)

Goto(h, l) == pc' = [pc EXCEPT ![h] = l] /\ UNCHANGED job
Done(h) == pc' = [pc EXCEPT ![h] = "idle"] /\ job' = [job EXCEPT ![h] = NoJob]

\* A kernel operation of a handler fails, or the agent is killed.
Fail == fails < MaxFails /\ fails' = fails + 1

----------------------------------------------------------------------------
(* onBlock and onRateLimit.                                                *)

\* Mutant: onRateLimit does not look at the whitelist.
CheckWhitelistBlockOnly(h) ==
    /\ pc[h] = "begin"
    /\ job[h].op \in {"block", "ratelimit"}
    /\ IF job[h].op = "ratelimit" THEN Goto(h, "limit")
       ELSE IF bypass THEN Done(h) ELSE Goto(h, "check")
    /\ UNCHANGED <<kernelVars, tracked, bypass, listed, sweeping, fails, cleared, overlapped>>

\* Both return at once for a whitelisted address.
CheckWhitelist(h) ==
    /\ pc[h] = "begin"
    /\ job[h].op \in {"block", "ratelimit"}
    /\ IF bypass THEN Done(h)
       ELSE Goto(h, IF job[h].op = "block" THEN "check" ELSE "limit")
    /\ UNCHANGED <<kernelVars, tracked, bypass, listed, sweeping, fails, cleared, overlapped>>

\* They do no more than drop the address from the whitelist when that is the reason.
LeaveWhitelist(h) ==
    /\ pc[h] = "begin"
    /\ job[h].op = "removal"
    /\ bypass' = FALSE
    /\ cleared' = {}
    /\ Done(h)
    /\ UNCHANGED <<kernelVars, tracked, listed, sweeping, fails, overlapped>>

\* Mutant: an entry counts whether or not it has expired.
IsBlockedIgnoresExpiry(h) ==
    /\ pc[h] = "check"
    /\ IF Present(tracked) THEN Done(h) ELSE Goto(h, "xdp")
    /\ UNCHANGED <<kernelVars, tracked, bypass, listed, sweeping, fails, cleared, overlapped>>

\* IsBlocked reads the map under its read lock; it deletes an expired entry later.
IsBlocked(h) ==
    /\ pc[h] = "check"
    /\ IF Alive(tracked) THEN Done(h)
       ELSE Goto(h, IF Present(tracked) THEN "purge" ELSE "xdp")
    /\ UNCHANGED <<kernelVars, tracked, bypass, listed, sweeping, fails, cleared, overlapped>>

PurgeExpired(h) ==
    /\ pc[h] = "purge"
    /\ tracked' = None
    /\ Goto(h, "xdp")
    /\ UNCHANGED <<kernelVars, bypass, listed, sweeping, fails, cleared, overlapped>>

\* HybridRemediator.Block, the XDP map first: a failure falls back to ipset.
XDPBlock(h) ==
    /\ pc[h] = "xdp"
    /\ \/ EnableXDP /\ xdp' = Lasting(job[h].duration) /\ UNCHANGED fails
       \/ EnableXDP /\ Fail /\ UNCHANGED xdp
       \/ ~EnableXDP /\ UNCHANGED <<xdp, fails>>
    /\ Goto(h, "ipset")
    /\ UNCHANGED <<ipset, limited, tracked, bypass, listed, sweeping, cleared, overlapped>>

\* Mutant: the error of "ipset add" is ignored.
IPSetBlockIgnoresError(h) ==
    /\ pc[h] = "ipset"
    /\ \/ ipset' = Lasting(job[h].duration) /\ UNCHANGED fails
       \/ Fail /\ UNCHANGED ipset
    /\ Goto(h, "track")
    /\ UNCHANGED <<xdp, limited, tracked, bypass, listed, sweeping, cleared, overlapped>>

\* IPSetRemediator.Block: "ipset add -exist"; a failure returns before tracking.
IPSetBlock(h) ==
    /\ pc[h] = "ipset"
    /\ \/ ipset' = Lasting(job[h].duration) /\ Goto(h, "track") /\ UNCHANGED fails
       \/ Fail /\ Done(h) /\ UNCHANGED ipset
    /\ UNCHANGED <<xdp, limited, tracked, bypass, listed, sweeping, cleared, overlapped>>

\* The address is entered in blockedIPs and the block reported.
Track(h) ==
    /\ pc[h] = "track"
    /\ tracked' = Lasting(job[h].duration)
    /\ Done(h)
    /\ UNCHANGED <<kernelVars, bypass, listed, sweeping, fails, cleared, overlapped>>

\* RateLimit: ipset only, with a default duration, and not tracked.
RateLimit(h) ==
    /\ pc[h] = "limit"
    /\ \/ /\ limited' = IF job[h].duration = 0 THEN MaxDuration ELSE job[h].duration
          /\ UNCHANGED fails
       \/ Fail /\ UNCHANGED limited
    /\ Done(h)
    /\ UNCHANGED <<xdp, ipset, tracked, bypass, listed, sweeping, cleared, overlapped>>

----------------------------------------------------------------------------
(* onUnblock.                                                              *)

SetWhitelist(h) ==
    /\ pc[h] = "begin"
    /\ job[h].op = "unblock"
    /\ bypass' = CASE job[h].reason = "whitelisted" -> TRUE
                   [] job[h].reason = "whitelist_removed" -> FALSE
                   [] OTHER -> bypass
    /\ cleared' = IF bypass' /\ bypass THEN cleared ELSE {}
    /\ Goto(h, "xdpdel")
    /\ UNCHANGED <<kernelVars, tracked, listed, sweeping, fails, overlapped>>

\* The XDP entry goes whatever the kind; an error does not stop the rest.
XDPUnblock(h) ==
    /\ pc[h] = "xdpdel"
    /\ \/ EnableXDP /\ xdp' = None /\ UNCHANGED fails
       \/ EnableXDP /\ Fail /\ UNCHANGED xdp
       \/ ~EnableXDP /\ UNCHANGED <<xdp, fails>>
    /\ Goto(h, "ipsetdel")
    /\ UNCHANGED <<ipset, limited, tracked, bypass, listed, sweeping, cleared, overlapped>>

IPSetUnblock(h) ==
    /\ pc[h] = "ipsetdel"
    /\ \/ /\ ipset' = IF job[h].kind = "blocklist" THEN None ELSE ipset
          /\ limited' = IF job[h].kind = "ratelimit" THEN None ELSE limited
          /\ Goto(h, "untrack")
          /\ UNCHANGED fails
       \/ Fail /\ Done(h) /\ UNCHANGED <<ipset, limited>>
    /\ UNCHANGED <<xdp, tracked, bypass, listed, sweeping, cleared, overlapped>>

\* blockedIPs loses the address, again whatever the kind.
Untrack(h) ==
    /\ pc[h] = "untrack"
    /\ tracked' = None
    /\ cleared' = IF bypass /\ job[h].reason = "whitelisted"
                  THEN cleared \cup {job[h].kind} ELSE cleared
    /\ Done(h)
    /\ UNCHANGED <<kernelVars, bypass, listed, sweeping, fails, overlapped>>

----------------------------------------------------------------------------
(* Time, the XDP cleanup, the backend's list and restarts of the agent.    *)

Aged(e) == IF e \in 1 .. MaxDuration THEN e - 1 ELSE e

\* Time passes.  The kernel drops ipset entries when they expire; XDP entries
\* and tracked ones stay until something deletes them.
Tick ==
    /\ xdp' = Aged(xdp)
    /\ tracked' = Aged(tracked)
    /\ ipset' = IF ipset = 1 THEN None ELSE Aged(ipset)
    /\ limited' = IF limited = 1 THEN None ELSE Aged(limited)
    /\ UNCHANGED <<bypass, listed, pc, job, sweeping, fails, cleared, overlapped>>

\* cleanupMap sees an expired entry, then deletes whatever the key has.
SweepRead ==
    /\ ~sweeping /\ xdp = 0
    /\ sweeping' = TRUE
    /\ UNCHANGED <<kernelVars, tracked, bypass, listed, pc, job, fails, cleared, overlapped>>

SweepDelete ==
    /\ sweeping
    /\ xdp' = None
    /\ sweeping' = FALSE
    /\ UNCHANGED <<ipset, limited, tracked, bypass, listed, pc, job, fails, cleared, overlapped>>

\* The backend adds the address to the agent's block list or takes it off.
BackendList ==
    /\ listed' \in BOOLEAN
    /\ UNCHANGED <<kernelVars, tracked, bypass, pc, job, sweeping, fails, cleared, overlapped>>

\* The agent is killed and starts again: the sets and the pinned map stay, and
\* Restore finds no file, because nothing calls Save.
Restart ==
    /\ Fail
    /\ tracked' = None /\ bypass' = FALSE /\ sweeping' = FALSE
    /\ pc' = [h \in Handlers |-> "idle"]
    /\ job' = [h \in Handlers |-> NoJob]
    /\ cleared' = {}
    /\ UNCHANGED <<kernelVars, listed, overlapped>>

Step(h) ==
    \/ CheckWhitelist(h) \/ LeaveWhitelist(h) \/ IsBlocked(h) \/ PurgeExpired(h)
    \/ XDPBlock(h) \/ IPSetBlock(h) \/ Track(h) \/ RateLimit(h)
    \/ SetWhitelist(h) \/ XDPUnblock(h) \/ IPSetUnblock(h) \/ Untrack(h)

Next ==
    \/ \E h \in Handlers : Command(h) \/ Step(h)
    \/ Reconcile \/ Tick \/ SweepRead \/ SweepDelete \/ BackendList
    \/ Restart

Spec == Init /\ [][Next]_vars

\* The goroutines of the agent run, its tickers fire and time passes.  Commands,
\* the backend's list, failures and kills are the environment's.
FairSpec ==
    /\ Spec
    /\ \A h \in Handlers : WF_vars(Step(h))
    /\ WF_vars(Reconcile) /\ WF_vars(Tick) /\ WF_vars(SweepDelete)

----------------------------------------------------------------------------
AtRest == \A h \in Handlers : pc[h] = "idle"

\* Every packet of the address is dropped, by the XDP program or by iptables.
XDPDrops == EnableXDP /\ \A f \in Frames : xdp_firewall(f, Alive(xdp), FALSE) = "drop"
Blocked == XDPDrops \/ Alive(ipset)
Untouched == ~Alive(xdp) /\ ~Alive(ipset) /\ ~Alive(limited)

\* "IsBlocked checks if an IP is currently blocked (fast memory check)", stated
\* for permanent blocks when no handler runs and nothing has failed.
TrackedIsBlocked == (AtRest /\ fails = 0 /\ tracked = Forever) => Blocked

\* As long as handlers ran one at a time it holds, failures, sweeps and kills
\* included, and the redundant ipset entry is there even if the XDP one is not.
AloneTrackedIsBlocked == (~overlapped /\ AtRest /\ tracked = Forever) => Alive(ipset)

\* "so the whitelist takes effect immediately for both blocklist and ratelimit":
\* after both unblocks of a whitelisted address nothing is enforced on it.
WhitelistTakesEffect ==
    (AtRest /\ fails = 0 /\ bypass /\ cleared = Kinds) => Untouched

\* It does as long as handlers ran one at a time: whatever came before, and
\* whatever commands and reconciliations follow while the address is whitelisted.
AloneWhitelistTakesEffect == ~overlapped => WhitelistTakesEffect

\* Reconciliation repairs everything but a false permanent memory: a listed
\* address is enforced at some moment, unless it is taken off the list,
\* whitelisted, or remembered as blocked for ever.
ListedIsBlocked == listed ~> Blocked \/ ~listed \/ bypass \/ tracked = Forever

\* Not so on a little-endian host: "XDP: Used for fast packet drops (blocked IPs)",
\* hybrid_remediator.go:10.
EntryDrops == EnableXDP /\ Alive(xdp) => XDPDrops
============================================================================
