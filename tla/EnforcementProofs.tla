------------------------- MODULE EnforcementProofs -------------------------
(***************************************************************************)
(* What holds of Enforcement for any set of handlers, any durations and    *)
(* any number of failures, with or without XDP.                            *)
(*                                                                         *)
(* Both properties are about handlers that run one at a time, and neither  *)
(* is inductive: between the four places a handler changes they disagree.  *)
(* The invariant says how far they may, by where the one handler stands.   *)
(*                                                                         *)
(* The second half is about Analyzer, through the instance An: what makes  *)
(* the decisions that end in these handlers.                               *)
(***************************************************************************)
EXTENDS Enforcement, FiniteSetTheorems, NaturalsInduction, WellFoundedInduction, TLAPS

\* What Analyzer is about: the decision under way, the rate limits in the kernel, blockedIPs
\* and the failures have other names here, since Enforcement has variables of those names.
CONSTANTS Addresses, HostPorts, RemotePorts, Ephemeral, SynFloodThreshold, SynFloodWindow,
          PortScanThreshold, PortScanWindow, MaxStates, PruneEvery, EvictAge, LimitTime,
          BlockTime, MaxEvents, MaxFailures
VARIABLES states, lru, idle, task, repair, blocked, limits, remembered, whitelist, rows, events,
          failures, accepts, services, decided, excused

An == INSTANCE Analyzer
      WITH job <- task, limited <- limits, tracked <- remembered, fails <- failures,
           MaxFails <- MaxFailures

\* What a handler was asked to do is what it does.
Places ==
    \A h \in Handlers :
        /\ pc[h] \in {"check", "purge", "xdp", "ipset", "track"} => job[h] \in BlockJobs
        /\ pc[h] = "limit" => job[h] \in LimitJobs
        /\ pc[h] \in {"xdpdel", "ipsetdel", "untrack"} => job[h] \in UnblockJobs

\* Without the XDP program nothing writes its map.
NoXDPNoEntry == ~EnableXDP => xdp = None

Alone == \A g, h \in Handlers : pc[g] # "idle" /\ pc[h] # "idle" => g = h

\* Block adds to the set before it remembers, and only what it does not remember as
\* permanent; Unblock deletes from the set before it forgets.
Remembered ==
    /\ tracked = Forever => ipset = Forever \/ \E h \in Handlers : pc[h] = "untrack"
    /\ \A h \in Handlers :
        /\ pc[h] \in {"purge", "xdp", "ipset"} => tracked # Forever
        /\ pc[h] = "track" /\ job[h].duration = 0 => ipset = Forever

\* An unblock that has come this far has removed what it was to remove.
Removed(kind) ==
    /\ ~Alive(xdp)
    /\ kind = "blocklist" => ~Alive(ipset)
    /\ kind = "ratelimit" => ~Alive(limited)

Unblocking ==
    \A h \in Handlers :
        /\ pc[h] = "ipsetdel" => ~Alive(xdp)
        /\ pc[h] = "untrack" => Removed(job[h].kind)

\* No handler that enforces passes the whitelist, and none is ahead of it when the
\* address is entered: it is the one that enters it.
Bypassed ==
    /\ \A h \in Handlers : pc[h] \in {"idle", "begin", "xdpdel", "ipsetdel", "untrack"}
    /\ \A kind \in cleared : Removed(kind)

IInv ==
    /\ TypeOK /\ Places /\ NoXDPNoEntry
    /\ ~overlapped => Alone /\ Remembered
    /\ ~overlapped /\ fails = 0 => Unblocking
    /\ ~overlapped /\ fails = 0 /\ bypass => Bypassed

----------------------------------------------------------------------------
\* The kinds of job are told apart by their operation.
LEMMA JobKinds ==
    /\ NoJob \notin Jobs
    /\ \A j \in Jobs : /\ j.op = "block" => j \in BlockJobs
                       /\ j.op = "ratelimit" => j \in LimitJobs
                       /\ j.op = "unblock" => j \in UnblockJobs
    /\ BlockJobs \subseteq Jobs
<1>1. \A j \in BlockJobs : j.op = "block"
    BY DEF BlockJobs
<1>2. \A j \in LimitJobs : j.op = "ratelimit"
    BY DEF LimitJobs
<1>3. \A j \in UnblockJobs : j.op = "unblock"
    BY DEF UnblockJobs
<1>4. NoJob.op = "none"
    BY DEF NoJob
<1>5. \A j \in RemovalJobs : j.op = "removal"
    BY DEF RemovalJobs
<1> QED
    BY <1>1, <1>2, <1>3, <1>4, <1>5, Zenon DEF Jobs

\* What a job carries.
LEMMA JobFields ==
    /\ \A j \in BlockJobs : j.duration \in Durations
    /\ \A j \in LimitJobs : j.duration \in Durations
    /\ \A j \in UnblockJobs : j.kind \in Kinds
BY DEF BlockJobs, LimitJobs, UnblockJobs

\* A block lasts some time, and a permanent one for ever.
LEMMA LastingEntry ==
    \A d \in Durations : Lasting(d) \in Entries /\ (d = 0 <=> Lasting(d) = Forever)
BY BoundsAssumption DEF Durations, Lasting, Entries, Forever, None

\* Time keeps a permanent entry, makes none permanent and revives none.
LEMMA AgedEntry ==
    ASSUME NEW e \in Entries
    PROVE  /\ Aged(e) \in Entries
           /\ Aged(e) = Forever <=> e = Forever
           /\ Alive(Aged(e)) => Alive(e)
           /\ e = None => Aged(e) = None
BY BoundsAssumption DEF Aged, Entries, Forever, None, Alive

LEMMA EntryValues ==
    /\ None \in Entries /\ Forever \in Entries /\ None # Forever
    /\ ~Alive(None) /\ Alive(Forever)
    /\ MaxDuration \in Entries /\ Durations \subseteq Entries
BY BoundsAssumption DEF Entries, Forever, None, Alive, Durations

\* The four entries hold times.
EntriesOK == xdp \in Entries /\ ipset \in Entries /\ limited \in Entries /\ tracked \in Entries

\* The handlers and their jobs.
HandlersOK ==
    /\ pc \in [Handlers -> {"idle", "begin", "check", "purge", "xdp", "ipset", "track",
                            "xdpdel", "ipsetdel", "untrack", "limit"}]
    /\ job \in [Handlers -> Jobs \cup {NoJob}]
    /\ \A h \in Handlers : pc[h] = "idle" <=> job[h] = NoJob

FlagsOK ==
    /\ bypass \in BOOLEAN /\ listed \in BOOLEAN /\ sweeping \in BOOLEAN
    /\ fails \in 0 .. MaxFails
    /\ cleared \subseteq Kinds
    /\ overlapped \in BOOLEAN

LEMMA TypeParts == TypeOK <=> EntriesOK /\ HandlersOK /\ FlagsOK
BY Zenon DEF TypeOK, EntriesOK, HandlersOK, FlagsOK

\* A handler is started only when it is idle, and only with a job.
Starts(h) ==
    /\ pc[h] = "idle"
    /\ \E j \in Jobs : job' = [job EXCEPT ![h] = j]
    /\ pc' = [pc EXCEPT ![h] = "begin"]
    /\ overlapped' = (overlapped \/ \E g \in Handlers : pc[g] # "idle")
    /\ UNCHANGED <<xdp, ipset, limited, tracked, bypass, listed, sweeping, fails, cleared>>

LEMMA StartStep ==
    ASSUME (\E h \in Handlers : Command(h)) \/ Reconcile
    PROVE  \E h \in Handlers : Starts(h)
<1>1. CASE \E h \in Handlers : Command(h)
    BY <1>1, Zenon DEF Command, Start, Starts, kernelVars
<1>2. CASE Reconcile
    <2>1. PICK j \in BlockJobs : Start(Reconciler, j)
        BY <1>2 DEF Reconcile
    <2>2. Starts(Reconciler)
        BY <2>1, JobKinds, Zenon DEF Start, Starts, kernelVars
    <2> QED
        BY <2>2, HandlersAssumption
<1> QED
    BY <1>1, <1>2

\* The steps of one handler and those of the environment.
LEMMA StepCases ==
    ASSUME [Next]_vars
    PROVE  \/ \E h \in Handlers : Starts(h) \/ Step(h)
           \/ Tick \/ SweepRead \/ SweepDelete \/ BackendList \/ Restart
           \/ UNCHANGED vars
BY StartStep, Zenon DEF Next

\* Steps that leave every handler where it is.
LEMMA Elsewhere ==
    ASSUME Tick \/ SweepRead \/ SweepDelete \/ BackendList \/ UNCHANGED vars
    PROVE  UNCHANGED <<pc, job, fails, cleared, overlapped, bypass>>
BY Zenon DEF Tick, SweepRead, SweepDelete, BackendList, vars, kernelVars

LEMMA EntriesStep == TypeOK /\ Places /\ [Next]_vars => EntriesOK'
<1> SUFFICES ASSUME TypeOK, Places, [Next]_vars PROVE EntriesOK'
    OBVIOUS
<1>e. EntriesOK
    BY TypeParts
<1> USE <1>e DEF EntriesOK
<1>1. ASSUME NEW h \in Handlers, Starts(h) PROVE EntriesOK'
    BY <1>1, Zenon DEF Starts
<1>2. ASSUME NEW h \in Handlers, Step(h) PROVE EntriesOK'
    <2> USE DEF kernelVars
    <2>1. CASE CheckWhitelist(h) \/ LeaveWhitelist(h) \/ IsBlocked(h) \/ SetWhitelist(h)
        BY <2>1, Zenon DEF CheckWhitelist, LeaveWhitelist, IsBlocked, SetWhitelist
    <2>2. CASE PurgeExpired(h) \/ Untrack(h) \/ XDPUnblock(h) \/ IPSetUnblock(h)
        BY <2>2, EntryValues, Zenon DEF PurgeExpired, Untrack, XDPUnblock, IPSetUnblock
    <2>3. CASE XDPBlock(h) \/ IPSetBlock(h) \/ Track(h)
        <3>1. Lasting(job[h].duration) \in Entries
            BY <2>3, LastingEntry, JobFields, Zenon
            DEF Places, XDPBlock, IPSetBlock, Track
        <3> QED
            BY <2>3, <3>1, Zenon DEF XDPBlock, IPSetBlock, Track
    <2>4. CASE RateLimit(h)
        <3>1. job[h].duration \in Entries
            BY <2>4, EntryValues, JobFields, Zenon DEF Places, RateLimit
        <3> QED
            BY <2>4, <3>1, EntryValues, Zenon DEF RateLimit
    <2> QED
        BY <1>2, <2>1, <2>2, <2>3, <2>4, Zenon DEF Step
<1>3. CASE Tick
    BY <1>3, AgedEntry, EntryValues, Zenon DEF Tick
<1>4. CASE SweepDelete
    BY <1>4, EntryValues, Zenon DEF SweepDelete
<1>5. CASE SweepRead \/ BackendList \/ UNCHANGED vars
    BY <1>5, Zenon DEF SweepRead, BackendList, vars, kernelVars
<1>6. CASE Restart
    BY <1>6, EntryValues, Zenon DEF Restart, kernelVars
<1> QED
    BY StepCases, <1>1, <1>2, <1>3, <1>4, <1>5, <1>6, Zenon

\* Neither time nor the sweep nor the backend's list brings an entry to life.
LEMMA TimeOnlyTakes ==
    ASSUME EntriesOK, Tick \/ SweepRead \/ SweepDelete \/ BackendList \/ UNCHANGED vars
    PROVE  /\ Alive(xdp') => Alive(xdp)
           /\ Alive(ipset') => Alive(ipset)
           /\ Alive(limited') => Alive(limited)
<1>1. CASE Tick
    <2>1. /\ Alive(Aged(xdp)) => Alive(xdp)
          /\ Alive(Aged(ipset)) => Alive(ipset)
          /\ Alive(Aged(limited)) => Alive(limited)
        BY AgedEntry, Zenon DEF EntriesOK
    <2>2. xdp' = Aged(xdp) /\ ipset' \in {None, Aged(ipset)} /\ limited' \in {None, Aged(limited)}
        BY <1>1, Zenon DEF Tick
    <2> QED
        BY <2>1, <2>2, EntryValues, Zenon
<1>2. CASE SweepRead \/ BackendList \/ UNCHANGED vars
    BY <1>2, Zenon DEF SweepRead, BackendList, vars, kernelVars
<1>3. CASE SweepDelete
    BY <1>3, EntryValues, Zenon DEF SweepDelete
<1> QED
    BY <1>1, <1>2, <1>3, Zenon

\* A handler that goes on stays one that has a job, and one that is done has none.
LEMMA GoesOn ==
    ASSUME HandlersOK, NEW h \in Handlers, pc[h] # "idle",
           NEW l \in {"check", "purge", "xdp", "ipset", "track", "xdpdel", "ipsetdel",
                      "untrack", "limit"},
           Goto(h, l)
    PROVE  HandlersOK'
<1>1. pc'[h] # "idle" /\ \A g \in Handlers : g # h => pc'[g] = pc[g]
    BY Zenon DEF HandlersOK, Goto
<1> QED
    BY <1>1, Zenon DEF HandlersOK, Goto

LEMMA IsDone == ASSUME HandlersOK, NEW h \in Handlers, Done(h) PROVE HandlersOK'
<1>1. pc'[h] = "idle" /\ job'[h] = NoJob
      /\ \A g \in Handlers : g # h => pc'[g] = pc[g] /\ job'[g] = job[g]
    BY Zenon DEF HandlersOK, Done
<1> QED
    BY <1>1, Zenon DEF HandlersOK, Done

LEMMA HandlersStep == TypeOK /\ [Next]_vars => HandlersOK'
<1> SUFFICES ASSUME TypeOK, [Next]_vars PROVE HandlersOK'
    OBVIOUS
<1>h. HandlersOK
    BY TypeParts
<1>1. ASSUME NEW h \in Handlers, Starts(h) PROVE HandlersOK'
    <2>1. PICK j \in Jobs : job' = [job EXCEPT ![h] = j]
        BY <1>1 DEF Starts
    <2>2. pc'[h] = "begin" /\ job'[h] = j /\ j # NoJob
          /\ \A g \in Handlers : g # h => pc'[g] = pc[g] /\ job'[g] = job[g]
        BY <1>1, <1>h, <2>1, JobKinds, Zenon DEF Starts, HandlersOK
    <2>3. job' \in [Handlers -> Jobs \cup {NoJob}]
        BY <1>h, <2>1, Zenon DEF HandlersOK
    <2> QED
        BY <1>1, <1>h, <2>2, <2>3, Zenon DEF Starts, HandlersOK
<1>2. ASSUME NEW h \in Handlers, Step(h) PROVE HandlersOK'
    <2>1. CASE CheckWhitelist(h)
        BY <2>1, <1>h, GoesOn, IsDone, Zenon DEF CheckWhitelist
    <2>2. CASE IsBlocked(h)
        BY <2>2, <1>h, GoesOn, IsDone, Zenon DEF IsBlocked
    <2>3. CASE PurgeExpired(h) \/ XDPBlock(h) \/ SetWhitelist(h) \/ XDPUnblock(h)
        BY <2>3, <1>h, GoesOn, Zenon DEF PurgeExpired, XDPBlock, SetWhitelist, XDPUnblock
    <2>4. CASE IPSetBlock(h) \/ IPSetUnblock(h)
        BY <2>4, <1>h, GoesOn, IsDone, Zenon DEF IPSetBlock, IPSetUnblock
    <2>5. CASE Track(h) \/ RateLimit(h) \/ Untrack(h) \/ LeaveWhitelist(h)
        BY <2>5, <1>h, IsDone, Zenon DEF Track, RateLimit, Untrack, LeaveWhitelist
    <2> QED
        BY <1>2, <2>1, <2>2, <2>3, <2>4, <2>5, Zenon DEF Step
<1>3. CASE UNCHANGED <<pc, job>>
    BY <1>3, <1>h, Zenon DEF HandlersOK
<1>4. CASE Restart
    BY <1>4, Zenon DEF Restart, HandlersOK
<1> QED
    BY StepCases, Elsewhere, <1>1, <1>2, <1>3, <1>4, Zenon

LEMMA FlagsStep == TypeOK /\ Places /\ [Next]_vars => FlagsOK'
<1> SUFFICES ASSUME TypeOK, Places, [Next]_vars PROVE FlagsOK'
    OBVIOUS
<1>f. FlagsOK
    BY TypeParts
<1>g. Fail => fails' \in 0 .. MaxFails
    BY <1>f, BoundsAssumption DEF FlagsOK, Fail
<1> USE <1>f DEF FlagsOK, kernelVars
<1>1. ASSUME NEW h \in Handlers, Starts(h) PROVE FlagsOK'
    BY <1>1, Zenon DEF Starts
<1>2. ASSUME NEW h \in Handlers, Step(h) PROVE FlagsOK'
    <2>1. CASE CheckWhitelist(h) \/ IsBlocked(h) \/ PurgeExpired(h) \/ Track(h)
        BY <2>1, Zenon DEF CheckWhitelist, IsBlocked, PurgeExpired, Track
    <2>2. CASE XDPBlock(h) \/ IPSetBlock(h) \/ RateLimit(h)
        BY <2>2, <1>g, Zenon DEF XDPBlock, IPSetBlock, RateLimit
    <2>3. CASE XDPUnblock(h) \/ IPSetUnblock(h)
        BY <2>3, <1>g, Zenon DEF XDPUnblock, IPSetUnblock
    <2>4. CASE SetWhitelist(h)
        <3>1. bypass' \in BOOLEAN
            BY <2>4, Zenon DEF SetWhitelist
        <3>2. cleared' \subseteq Kinds
            BY <2>4, Zenon DEF SetWhitelist
        <3> QED
            BY <2>4, <3>1, <3>2, Zenon DEF SetWhitelist
    <2>5. CASE Untrack(h)
        <3>1. job[h].kind \in Kinds
            BY <2>5, JobFields, Zenon DEF Places, Untrack
        <3> QED
            BY <2>5, <3>1, Zenon DEF Untrack
    <2>6. CASE LeaveWhitelist(h)
        BY <2>6, Zenon DEF LeaveWhitelist
    <2> QED
        BY <1>2, <2>1, <2>2, <2>3, <2>4, <2>5, <2>6, Zenon DEF Step
<1>3. CASE Tick \/ SweepRead \/ SweepDelete \/ BackendList \/ UNCHANGED vars
    BY <1>3, Zenon DEF Tick, SweepRead, SweepDelete, BackendList, vars
<1>4. CASE Restart
    BY <1>4, <1>g, Zenon DEF Restart
<1> QED
    BY StepCases, <1>1, <1>2, <1>3, <1>4, Zenon

----------------------------------------------------------------------------
\* Where a handler goes is where its job takes it.
LEMMA PlacesStep == TypeOK /\ Places /\ [Next]_vars => Places'
<1> SUFFICES ASSUME TypeOK, Places, [Next]_vars PROVE Places'
    OBVIOUS
<1>h. HandlersOK
    BY TypeParts
<1>1. ASSUME NEW h \in Handlers, Starts(h) PROVE Places'
    BY <1>1, <1>h, Zenon DEF Starts, Places, HandlersOK
<1>2. ASSUME NEW h \in Handlers, Done(h) PROVE Places'
    BY <1>2, <1>h, Zenon DEF Done, Places, HandlersOK
<1>3. ASSUME NEW h \in Handlers, job[h] \in BlockJobs,
             NEW l \in {"check", "purge", "xdp", "ipset", "track"}, Goto(h, l)
      PROVE  Places'
    BY <1>3, <1>h, Zenon DEF Goto, Places, HandlersOK
<1>4. ASSUME NEW h \in Handlers, job[h] \in UnblockJobs,
             NEW l \in {"xdpdel", "ipsetdel", "untrack"}, Goto(h, l)
      PROVE  Places'
    BY <1>4, <1>h, Zenon DEF Goto, Places, HandlersOK
<1>5. ASSUME NEW h \in Handlers, job[h] \in LimitJobs, Goto(h, "limit")
      PROVE  Places'
    BY <1>5, <1>h, Zenon DEF Goto, Places, HandlersOK
<1>6. ASSUME NEW h \in Handlers, Step(h) PROVE Places'
    <2>j. pc[h] = "begin" => job[h] \in Jobs
        BY <1>h, Zenon DEF HandlersOK
    <2>1. CASE CheckWhitelist(h)
        BY <2>1, <2>j, <1>2, <1>3, <1>5, JobKinds, Zenon DEF CheckWhitelist
    <2>2. CASE IsBlocked(h) \/ PurgeExpired(h) \/ XDPBlock(h) \/ IPSetBlock(h)
        <3>1. job[h] \in BlockJobs
            BY <2>2, Zenon DEF Places, IsBlocked, PurgeExpired, XDPBlock, IPSetBlock
        <3> QED
            BY <2>2, <3>1, <1>2, <1>3, Zenon
            DEF IsBlocked, PurgeExpired, XDPBlock, IPSetBlock
    <2>3. CASE Track(h) \/ RateLimit(h) \/ Untrack(h) \/ LeaveWhitelist(h)
        BY <2>3, <1>2, Zenon DEF Track, RateLimit, Untrack, LeaveWhitelist
    <2>4. CASE SetWhitelist(h)
        BY <2>4, <2>j, <1>4, JobKinds, Zenon DEF SetWhitelist
    <2>5. CASE XDPUnblock(h) \/ IPSetUnblock(h)
        <3>1. job[h] \in UnblockJobs
            BY <2>5, Zenon DEF Places, XDPUnblock, IPSetUnblock
        <3> QED
            BY <2>5, <3>1, <1>2, <1>4, Zenon DEF XDPUnblock, IPSetUnblock
    <2> QED
        BY <1>6, <2>1, <2>2, <2>3, <2>4, <2>5, Zenon DEF Step
<1>7. CASE UNCHANGED <<pc, job>>
    BY <1>7, Zenon DEF Places
<1>8. CASE Restart
    BY <1>8, Zenon DEF Restart, Places
<1> QED
    BY StepCases, Elsewhere, <1>1, <1>6, <1>7, <1>8, Zenon

LEMMA NoXDPStep == TypeOK /\ NoXDPNoEntry /\ [Next]_vars => NoXDPNoEntry'
<1> SUFFICES ASSUME TypeOK, NoXDPNoEntry, [Next]_vars, ~EnableXDP PROVE xdp' = None
    BY DEF NoXDPNoEntry
<1>x. xdp = None
    BY DEF NoXDPNoEntry
<1>1. ASSUME NEW h \in Handlers, Starts(h) PROVE xdp' = None
    BY <1>1, <1>x, Zenon DEF Starts
<1>2. ASSUME NEW h \in Handlers, Step(h) PROVE xdp' = None
    BY <1>2, <1>x, Zenon
    DEF Step, CheckWhitelist, IsBlocked, PurgeExpired, XDPBlock, IPSetBlock, Track,
        RateLimit, SetWhitelist, LeaveWhitelist, XDPUnblock, IPSetUnblock, Untrack, kernelVars
<1>3. CASE Tick
    BY <1>3, <1>x, EntryValues, AgedEntry, Zenon DEF Tick
<1>4. CASE SweepRead \/ SweepDelete \/ BackendList \/ Restart \/ UNCHANGED vars
    BY <1>4, <1>x, Zenon DEF SweepRead, SweepDelete, BackendList, Restart, vars, kernelVars
<1> QED
    BY StepCases, <1>1, <1>2, <1>3, <1>4, Zenon

----------------------------------------------------------------------------
(* One handler at a time.                                                  *)

\* A step of one handler is not a step of another.
LEMMA OwnStep ==
    ASSUME HandlersOK, NEW h \in Handlers, Step(h)
    PROVE  /\ pc[h] # "idle"
           /\ \A g \in Handlers : g # h => pc'[g] = pc[g] /\ job'[g] = job[g]
           /\ UNCHANGED overlapped
<1>1. ASSUME Done(h) PROVE \A g \in Handlers : g # h => pc'[g] = pc[g] /\ job'[g] = job[g]
    BY <1>1, Zenon DEF Done, HandlersOK
<1>2. ASSUME NEW l, Goto(h, l)
      PROVE  \A g \in Handlers : g # h => pc'[g] = pc[g] /\ job'[g] = job[g]
    BY <1>2, Zenon DEF Goto, HandlersOK
<1>3. CASE CheckWhitelist(h) \/ IsBlocked(h) \/ PurgeExpired(h) \/ XDPBlock(h)
    BY <1>3, <1>1, <1>2, Zenon DEF CheckWhitelist, IsBlocked, PurgeExpired, XDPBlock
<1>4. CASE IPSetBlock(h) \/ Track(h) \/ RateLimit(h) \/ SetWhitelist(h)
    BY <1>4, <1>1, <1>2, Zenon DEF IPSetBlock, Track, RateLimit, SetWhitelist
<1>5. CASE XDPUnblock(h) \/ IPSetUnblock(h) \/ Untrack(h) \/ LeaveWhitelist(h)
    BY <1>5, <1>1, <1>2, Zenon DEF XDPUnblock, IPSetUnblock, Untrack, LeaveWhitelist
<1> QED
    BY <1>3, <1>4, <1>5, Zenon DEF Step

\* Two handlers overlap from then on.
LEMMA AloneStep ==
    ASSUME HandlersOK, ~overlapped => Alone, [Next]_vars, ~overlapped'
    PROVE  ~overlapped /\ Alone /\ Alone'
<1>1. ASSUME NEW h \in Handlers, Starts(h) PROVE ~overlapped /\ Alone /\ Alone'
    <2>1. ~overlapped /\ \A g \in Handlers : pc[g] = "idle"
        BY <1>1, Zenon DEF Starts
    <2>2. \A g \in Handlers : g # h => pc'[g] = "idle"
        BY <1>1, <2>1, Zenon DEF Starts, HandlersOK
    <2> QED
        BY <2>1, <2>2, Zenon DEF Alone
<1>2. ASSUME NEW h \in Handlers, Step(h) PROVE ~overlapped /\ Alone /\ Alone'
    BY <1>2, OwnStep, Zenon DEF Alone
<1>3. CASE Tick \/ SweepRead \/ SweepDelete \/ BackendList \/ UNCHANGED vars
    <2>1. UNCHANGED <<pc, overlapped>>
        BY <1>3, Elsewhere, Zenon
    <2> QED
        BY <2>1, Zenon DEF Alone
<1>4. CASE Restart
    BY <1>4, Zenon DEF Restart, Alone
<1> QED
    BY StepCases, <1>1, <1>2, <1>3, <1>4, Zenon

\* A handler that is alone leaves the others idle.
LEMMA OthersIdle ==
    ASSUME HandlersOK, Alone, NEW h \in Handlers, Step(h)
    PROVE  \A g \in Handlers : g # h => pc[g] = "idle" /\ pc'[g] = "idle"
BY OwnStep, Zenon DEF Alone

\* Where the step of a handler that is done, or that goes on, leaves it.
LEMMA Now ==
    ASSUME HandlersOK, NEW h \in Handlers
    PROVE  /\ Done(h) => pc'[h] = "idle"
           /\ \A l : Goto(h, l) => pc'[h] = l /\ job'[h] = job[h]
BY Zenon DEF Done, Goto, HandlersOK

LEMMA FailsGrow == TypeOK /\ [Next]_vars => fails' = fails \/ fails' # 0
<1> SUFFICES ASSUME TypeOK, [Next]_vars PROVE fails' = fails \/ fails' # 0
    OBVIOUS
<1>f. Fail => fails' # 0
    BY BoundsAssumption DEF TypeOK, Fail
<1>1. ASSUME NEW h \in Handlers, Starts(h) PROVE fails' = fails
    BY <1>1, Zenon DEF Starts
<1>2. ASSUME NEW h \in Handlers, Step(h) PROVE fails' = fails \/ Fail
    BY <1>2, Zenon
    DEF Step, CheckWhitelist, IsBlocked, PurgeExpired, XDPBlock, IPSetBlock, Track,
        RateLimit, SetWhitelist, LeaveWhitelist, XDPUnblock, IPSetUnblock, Untrack
<1>3. Restart => Fail
    BY DEF Restart
<1> QED
    BY StepCases, Elsewhere, <1>f, <1>1, <1>2, <1>3, Zenon

\* Nothing remembers a permanent block that the set does not have.
LEMMA RememberedStep ==
    ASSUME TypeOK, Places, Alone, Remembered, [Next]_vars, ~overlapped'
    PROVE  Remembered'
<1>h. HandlersOK /\ EntriesOK
    BY TypeParts
<1>1. ASSUME NEW h \in Handlers, Starts(h) PROVE Remembered'
    <2>1. \A g \in Handlers : pc[g] = "idle"
        BY <1>1, Zenon DEF Starts
    <2>2. \A g \in Handlers : pc'[g] \in {"idle", "begin"}
        BY <1>1, <1>h, <2>1, Zenon DEF Starts, HandlersOK
    <2>3. tracked = Forever => ipset = Forever
        BY <2>1 DEF Remembered
    <2>4. tracked' = tracked /\ ipset' = ipset
        BY <1>1, Zenon DEF Starts
    <2>5. \A g \in Handlers : pc'[g] \notin {"purge", "xdp", "ipset", "track"}
        BY <2>2
    <2> QED
        BY <2>3, <2>4, <2>5, Zenon DEF Remembered
<1>2. ASSUME NEW h \in Handlers, Step(h) PROVE Remembered'
    <2>i. \A g \in Handlers : g # h => pc[g] = "idle" /\ pc'[g] = "idle"
        BY <1>2, <1>h, OthersIdle, Zenon
    <2> USE <2>i DEF Remembered, kernelVars
    <2>1. CASE CheckWhitelist(h) \/ LeaveWhitelist(h)
        <3>1. pc'[h] \in {"idle", "check", "limit"} /\ pc[h] = "begin"
            BY <2>1, <1>h, Now, Zenon DEF CheckWhitelist, LeaveWhitelist
        <3>2. UNCHANGED <<ipset, tracked>>
            BY <2>1, Zenon DEF CheckWhitelist, LeaveWhitelist
        <3> QED
            BY <3>1, <3>2, Zenon
    <2>2. CASE IsBlocked(h)
        <3>1. pc'[h] \in {"idle", "purge", "xdp"} /\ pc[h] = "check"
            BY <2>2, <1>h, Now, Zenon DEF IsBlocked
        <3>2. pc'[h] # "idle" => tracked # Forever
            BY <2>2, <1>h, Now, EntryValues, Zenon DEF IsBlocked
        <3>3. UNCHANGED <<ipset, tracked>>
            BY <2>2, Zenon DEF IsBlocked
        <3> QED
            BY <3>1, <3>2, <3>3, Zenon
    <2>3. CASE PurgeExpired(h)
        BY <2>3, <1>h, Now, EntryValues, Zenon DEF PurgeExpired
    <2>4. CASE XDPBlock(h)
        BY <2>4, <1>h, Now, Zenon DEF XDPBlock
    <2>5. CASE IPSetBlock(h)
        <3>1. job[h].duration \in Durations
            BY <2>5, JobFields, Zenon DEF Places, IPSetBlock
        <3> QED
            BY <2>5, <3>1, <1>h, Now, LastingEntry, Zenon DEF IPSetBlock
    <2>6. CASE Track(h)
        <3>1. job[h].duration \in Durations
            BY <2>6, JobFields, Zenon DEF Places, Track
        <3> QED
            BY <2>6, <3>1, <1>h, Now, LastingEntry, Zenon DEF Track
    <2>7. CASE RateLimit(h) \/ SetWhitelist(h) \/ XDPUnblock(h)
        <3>1. pc'[h] \in {"idle", "xdpdel", "ipsetdel"} /\ pc[h] # "untrack"
            BY <2>7, <1>h, Now, Zenon DEF RateLimit, SetWhitelist, XDPUnblock
        <3>2. UNCHANGED <<ipset, tracked>>
            BY <2>7, Zenon DEF RateLimit, SetWhitelist, XDPUnblock
        <3> QED
            BY <3>1, <3>2, Zenon
    <2>8. CASE IPSetUnblock(h)
        <3>1. pc'[h] \in {"idle", "untrack"} /\ pc[h] = "ipsetdel" /\ tracked' = tracked
            BY <2>8, <1>h, Now, Zenon DEF IPSetUnblock
        <3>2. pc'[h] = "untrack" \/ ipset' = ipset
            BY <2>8, <1>h, Now, Zenon DEF IPSetUnblock
        <3> QED
            BY <3>1, <3>2, Zenon
    <2>9. CASE Untrack(h)
        BY <2>9, <1>h, Now, EntryValues, Zenon DEF Untrack
    <2> QED
        BY <1>2, <2>1, <2>2, <2>3, <2>4, <2>5, <2>6, <2>7, <2>8, <2>9, Zenon DEF Step
<1>3. CASE Tick
    <2>1. (tracked' = Forever => tracked = Forever) /\ (tracked = Forever => tracked' = Forever)
        BY <1>3, <1>h, AgedEntry, Zenon DEF Tick, EntriesOK
    <2>2. ipset = Forever => ipset' = Forever
        BY <1>3, <1>h, AgedEntry, BoundsAssumption DEF Tick, EntriesOK, Forever
    <2> QED
        BY <1>3, <2>1, <2>2, Zenon DEF Tick, Remembered
<1>4. CASE SweepRead \/ SweepDelete \/ BackendList \/ UNCHANGED vars
    BY <1>4, Zenon DEF SweepRead, SweepDelete, BackendList, vars, kernelVars, Remembered
<1>5. CASE Restart
    BY <1>5, EntryValues, Zenon DEF Restart, Remembered
<1> QED
    BY StepCases, <1>1, <1>2, <1>3, <1>4, <1>5, Zenon

\* What an unblock has removed stays removed while it runs.
LEMMA UnblockingStep ==
    ASSUME TypeOK, Places, NoXDPNoEntry, Alone, Unblocking, [Next]_vars,
           ~overlapped', fails' = 0
    PROVE  Unblocking'
<1>h. HandlersOK /\ EntriesOK /\ fails \in Nat
    BY TypeParts, BoundsAssumption DEF FlagsOK
<1>f. ~Fail
    BY <1>h DEF Fail
<1>1. ASSUME NEW h \in Handlers, Starts(h) PROVE Unblocking'
    <2>1. \A g \in Handlers : pc[g] = "idle"
        BY <1>1, Zenon DEF Starts
    <2>2. \A g \in Handlers : pc'[g] \in {"idle", "begin"}
        BY <1>1, <1>h, <2>1, Zenon DEF Starts, HandlersOK
    <2> QED
        BY <2>2, Zenon DEF Unblocking
<1>2. ASSUME NEW h \in Handlers, Step(h) PROVE Unblocking'
    <2>i. \A g \in Handlers : g # h => pc[g] = "idle" /\ pc'[g] = "idle"
        BY <1>2, <1>h, OthersIdle, Zenon
    <2> USE <2>i DEF Unblocking
    <2>1. CASE CheckWhitelist(h) \/ IsBlocked(h) \/ PurgeExpired(h) \/ XDPBlock(h)
        <3>1. pc'[h] \in {"idle", "check", "limit", "purge", "xdp", "ipset"}
            BY <2>1, <1>h, Now, Zenon DEF CheckWhitelist, IsBlocked, PurgeExpired, XDPBlock
        <3> QED
            BY <3>1, Zenon
    <2>2. CASE \/ IPSetBlock(h) \/ Track(h) \/ RateLimit(h)
               \/ SetWhitelist(h) \/ LeaveWhitelist(h) \/ Untrack(h)
        <3>1. pc'[h] \in {"idle", "track", "xdpdel"}
            BY <2>2, <1>h, Now, Zenon
            DEF IPSetBlock, Track, RateLimit, SetWhitelist, LeaveWhitelist, Untrack
        <3> QED
            BY <3>1, Zenon
    <2>3. CASE XDPUnblock(h)
        <3>1. ~Alive(xdp')
            BY <2>3, <1>f, EntryValues, Zenon DEF XDPUnblock, NoXDPNoEntry
        <3> QED
            BY <2>3, <3>1, <1>h, Now, Zenon DEF XDPUnblock, Alive
    <2>4. CASE IPSetUnblock(h)
        <3>1. ~Alive(xdp) /\ UNCHANGED xdp
            BY <2>4, Zenon DEF IPSetUnblock
        <3>2. /\ job[h].kind = "blocklist" => ipset' = None
              /\ job[h].kind = "ratelimit" => limited' = None
              /\ Goto(h, "untrack")
            BY <2>4, <1>f, Zenon DEF IPSetUnblock
        <3>3. pc'[h] = "untrack" /\ job'[h] = job[h]
            BY <3>2, <1>h, Now, Zenon
        <3> QED
            BY <3>1, <3>2, <3>3, EntryValues, Zenon DEF Removed, Alive
    <2> QED
        BY <1>2, <2>1, <2>2, <2>3, <2>4, Zenon DEF Step
<1>3. ASSUME Tick \/ SweepRead \/ SweepDelete \/ BackendList \/ UNCHANGED vars
      PROVE  /\ Alive(xdp') => Alive(xdp)
             /\ Alive(ipset') => Alive(ipset)
             /\ Alive(limited') => Alive(limited)
    BY <1>3, <1>h, TimeOnlyTakes, Zenon
<1>4. CASE Tick \/ SweepRead \/ SweepDelete \/ BackendList \/ UNCHANGED vars
    BY <1>4, <1>3, Elsewhere, Zenon DEF Unblocking, Removed, Alive
<1>5. CASE Restart
    BY <1>5, <1>f, Zenon DEF Restart
<1> QED
    BY StepCases, <1>1, <1>2, <1>4, <1>5, Zenon

\* The sets stay empty of what was cleared since the address was whitelisted.
LEMMA BypassedStep ==
    ASSUME TypeOK, Places, NoXDPNoEntry, Alone, Unblocking, bypass => Bypassed,
           [Next]_vars, ~overlapped', fails' = 0, bypass'
    PROVE  Bypassed'
<1>h. HandlersOK /\ EntriesOK /\ FlagsOK /\ fails \in Nat
    BY TypeParts, BoundsAssumption DEF FlagsOK
<1>f. ~Fail
    BY <1>h DEF Fail
<1>1. ASSUME NEW h \in Handlers, Starts(h) PROVE Bypassed'
    <2>1. \A g \in Handlers : pc[g] = "idle"
        BY <1>1, Zenon DEF Starts
    <2>2. \A g \in Handlers : pc'[g] \in {"idle", "begin"}
        BY <1>1, <1>h, <2>1, Zenon DEF Starts, HandlersOK
    <2>3. bypass /\ UNCHANGED <<xdp, ipset, limited, cleared>>
        BY <1>1, Zenon DEF Starts
    <2> QED
        BY <2>2, <2>3, Zenon DEF Bypassed, Removed, Alive
<1>2. ASSUME NEW h \in Handlers, Step(h) PROVE Bypassed'
    <2>i. \A g \in Handlers : g # h => pc[g] = "idle" /\ pc'[g] = "idle"
        BY <1>2, <1>h, OthersIdle, Zenon
    <2> USE <2>i DEF kernelVars
    <2>1. CASE CheckWhitelist(h)
        BY <2>1, <1>h, Now, Zenon DEF CheckWhitelist, Bypassed, Removed, Alive
    <2>2. CASE IsBlocked(h) \/ PurgeExpired(h) \/ XDPBlock(h) \/ IPSetBlock(h)
        BY <2>2, Zenon DEF IsBlocked, PurgeExpired, XDPBlock, IPSetBlock, Bypassed
    <2>3. CASE Track(h) \/ RateLimit(h) \/ LeaveWhitelist(h)
        BY <2>3, Zenon DEF Track, RateLimit, LeaveWhitelist, Bypassed
    <2>4. CASE SetWhitelist(h)
        <3>1. cleared' = {} \/ (bypass /\ cleared' = cleared)
            BY <2>4, Zenon DEF SetWhitelist
        <3>2. pc'[h] = "xdpdel" /\ UNCHANGED <<xdp, ipset, limited>>
            BY <2>4, <1>h, Now, Zenon DEF SetWhitelist
        <3> QED
            BY <3>1, <3>2, Zenon DEF Bypassed, Removed, Alive
    <2>5. CASE XDPUnblock(h)
        <3>1. ~Alive(xdp')
            BY <2>5, <1>f, EntryValues, Zenon DEF XDPUnblock, NoXDPNoEntry
        <3>2. pc'[h] = "ipsetdel" /\ UNCHANGED <<ipset, limited, bypass, cleared>>
            BY <2>5, <1>h, Now, Zenon DEF XDPUnblock
        <3> QED
            BY <3>1, <3>2, Zenon DEF Bypassed, Removed, Alive
    <2>6. CASE IPSetUnblock(h)
        <3>1. /\ ipset' \in {ipset, None} /\ limited' \in {limited, None}
              /\ UNCHANGED <<xdp, bypass, cleared>>
            BY <2>6, <1>f, Zenon DEF IPSetUnblock
        <3>2. pc'[h] = "untrack"
            BY <2>6, <1>f, <1>h, Now, Zenon DEF IPSetUnblock
        <3> QED
            BY <3>1, <3>2, EntryValues, Zenon DEF Bypassed, Removed, Alive
    <2>7. CASE Untrack(h)
        <3>1. Removed(job[h].kind) /\ UNCHANGED <<xdp, ipset, limited, bypass>>
            BY <2>7, Zenon DEF Untrack, Unblocking
        <3>2. cleared' \subseteq cleared \cup {job[h].kind}
            BY <2>7, Zenon DEF Untrack
        <3>3. pc'[h] = "idle"
            BY <2>7, <1>h, Now, Zenon DEF Untrack
        <3> QED
            BY <3>1, <3>2, <3>3, Zenon DEF Bypassed, Removed, Alive
    <2> QED
        BY <1>2, <2>1, <2>2, <2>3, <2>4, <2>5, <2>6, <2>7, Zenon DEF Step
<1>3. ASSUME Tick \/ SweepRead \/ SweepDelete \/ BackendList \/ UNCHANGED vars
      PROVE  /\ Alive(xdp') => Alive(xdp)
             /\ Alive(ipset') => Alive(ipset)
             /\ Alive(limited') => Alive(limited)
    BY <1>3, <1>h, TimeOnlyTakes, Zenon
<1>4. CASE Tick \/ SweepRead \/ SweepDelete \/ BackendList \/ UNCHANGED vars
    BY <1>4, <1>3, Elsewhere, Zenon DEF Bypassed, Removed, Alive
<1>5. CASE Restart
    BY <1>5, <1>f, Zenon DEF Restart
<1> QED
    BY StepCases, <1>1, <1>2, <1>4, <1>5, Zenon

----------------------------------------------------------------------------
\* The entries, the handlers and the failures are what the code means them to be.
LEMMA InitIInv == Init => IInv
<1> SUFFICES ASSUME Init PROVE IInv
    OBVIOUS
<1>1. EntriesOK /\ NoXDPNoEntry
    BY EntryValues, Zenon DEF Init, EntriesOK, NoXDPNoEntry
<1>2. HandlersOK
    BY Zenon DEF Init, HandlersOK
<1>3. FlagsOK
    <2>1. /\ bypass = FALSE /\ listed = FALSE /\ sweeping = FALSE
          /\ cleared = {} /\ overlapped = FALSE
        BY Zenon DEF Init
    <2>2. fails \in 0 .. MaxFails
        BY BoundsAssumption DEF Init
    <2> QED
        BY <2>1, <2>2, Zenon DEF FlagsOK
<1>4. Places /\ Alone
    BY Zenon DEF Init, Places, Alone
<1>5. Remembered
    BY EntryValues, Zenon DEF Init, Remembered
<1>6. Unblocking /\ ~bypass
    BY Zenon DEF Init, Unblocking
<1> QED
    BY <1>1, <1>2, <1>3, <1>4, <1>5, <1>6, TypeParts, Zenon DEF IInv

LEMMA NextIInv == IInv /\ [Next]_vars => IInv'
<1> SUFFICES ASSUME IInv, [Next]_vars PROVE IInv'
    OBVIOUS
<1>1. TypeOK' /\ Places' /\ NoXDPNoEntry'
    <2>1. EntriesOK' /\ HandlersOK' /\ FlagsOK'
        BY EntriesStep, HandlersStep, FlagsStep, Zenon DEF IInv
    <2>2. TypeOK'
        BY <2>1, Zenon DEF TypeOK, EntriesOK, HandlersOK, FlagsOK
    <2> QED
        BY <2>2, PlacesStep, NoXDPStep, Zenon DEF IInv
<1>2. ASSUME ~overlapped' PROVE ~overlapped /\ Alone /\ Alone'
    BY <1>2, AloneStep, TypeParts, Zenon DEF IInv
<1>3. ASSUME ~overlapped' PROVE Remembered'
    BY <1>2, <1>3, RememberedStep, Zenon DEF IInv
<1>4. ASSUME fails' = 0 PROVE fails = 0
    BY <1>4, FailsGrow, Zenon DEF IInv
<1>5. ASSUME ~overlapped', fails' = 0 PROVE Unblocking'
    BY <1>2, <1>4, <1>5, UnblockingStep, Zenon DEF IInv
<1>6. ASSUME ~overlapped', fails' = 0, bypass' PROVE Bypassed'
    BY <1>2, <1>4, <1>6, BypassedStep, Zenon DEF IInv
<1> QED
    BY <1>1, <1>2, <1>3, <1>5, <1>6, Zenon DEF IInv

LEMMA Invariant == Spec => []IInv
BY InitIInv, NextIInv, PTL DEF Spec

\* Every handler that runs does the job it was started for, in the order of its code:
\* onBlock, onRateLimit and onUnblock, and no goroutine is left with a job when done.
THEOREM TypeCorrect == Spec => [](TypeOK /\ Places)
<1>1. IInv => TypeOK /\ Places
    BY Zenon DEF IInv
<1> QED
    BY <1>1, Invariant, PTL

\* What IsBlocked answers for a permanent block is true, as long as one handler runs at
\* a time: IPSetRemediator.Block adds to the set before it remembers and Unblock
\* deletes before it forgets, whatever fails and whenever the agent is killed.
THEOREM MemoryIsTrue == Spec => []AloneTrackedIsBlocked
<1>1. IInv => AloneTrackedIsBlocked
    <2> SUFFICES ASSUME IInv, ~overlapped, AtRest, tracked = Forever PROVE Alive(ipset)
        BY DEF AloneTrackedIsBlocked
    <2>1. \A h \in Handlers : pc[h] # "untrack"
        BY Zenon DEF AtRest
    <2> QED
        BY <2>1, EntryValues, Zenon DEF IInv, Remembered
<1> QED
    BY <1>1, Invariant, PTL

\* The two unblocks that onUnblock gets for a whitelisted address leave nothing enforced
\* on it, as long as one handler runs at a time and nothing fails, whatever the handlers
\* before them did and whatever commands come after.
THEOREM WhitelistHolds == Spec => []AloneWhitelistTakesEffect
<1>1. IInv => AloneWhitelistTakesEffect
    <2> SUFFICES ASSUME IInv, ~overlapped, fails = 0, bypass, cleared = Kinds
                 PROVE  Untouched
        BY DEF AloneWhitelistTakesEffect, WhitelistTakesEffect
    <2>1. Removed("blocklist") /\ Removed("ratelimit")
        BY Zenon DEF IInv, Bypassed, Kinds
    <2> QED
        BY <2>1, Zenon DEF Removed, Untouched
<1> QED
    BY <1>1, Invariant, PTL

----------------------------------------------------------------------------
(* What the entries of the XDP map are worth.                              *)

\* The program compares a type read in network order with a swapped constant: on a
\* little-endian host it takes no frame for IPv4.
LEMMA SwappedTypes ==
    ASSUME LittleEndian
    PROVE  /\ bpf_htons(ETH_P_IP) = 8 /\ bpf_htons(ETH_P_IPV6) = 56710
           /\ bpf_htons(ETH_P_8021Q) = 129 /\ bpf_htons(ETH_P_8021AD) = 43144
BY DEF bpf_htons, ETH_P_IP, ETH_P_IPV6, ETH_P_8021Q, ETH_P_8021AD

LEMMA UntaggedPasses ==
    ASSUME LittleEndian, NEW b \in BOOLEAN
    PROVE  xdp_firewall(Frame(<<ETH_P_IP, 0, 0>>, 60), b, FALSE) = "pass"
<1> DEFINE f == Frame(<<ETH_P_IP, 0, 0>>, 60)
<1>1. f.len = 60 /\ f.types[1] = 2048 /\ f.types = <<2048, 0, 0>>
    BY DEF Frame, ETH_P_IP
<1> HIDE DEF f
<1>2. Tags(f) = 0
    BY <1>1, SwappedTypes DEF Tags
<1>3. EtherType(f) = 2048 /\ Offset(f) = 14
    BY <1>1, <1>2 DEF EtherType, Offset
<1>4. Counter(f, b, FALSE) = "passed"
    BY <1>1, <1>3, SwappedTypes DEF Counter
<1> QED
    BY <1>4 DEF xdp_firewall, f

\* As built for x86, what HybridRemediator.Block writes to the XDP map drops nothing: an
\* address is blocked if and only if ipset has it.
THEOREM OnlyIPSetDrops == LittleEndian => (Spec => [](Blocked <=> Alive(ipset)))
<1> SUFFICES ASSUME LittleEndian PROVE Spec => [](Blocked <=> Alive(ipset))
    OBVIOUS
<1>1. Blocked <=> Alive(ipset)
    <2>1. Frame(<<ETH_P_IP, 0, 0>>, 60) \in Frames
        BY DEF Frames
    <2>2. Alive(xdp) \in BOOLEAN
        BY DEF Alive
    <2>3. ~XDPDrops
        BY <2>1, <2>2, UntaggedPasses DEF XDPDrops
    <2> QED
        BY <2>3 DEF Blocked
<1> QED
    BY <1>1, PTL

----------------------------------------------------------------------------
(* Analyzer: what it remembers of an address, and what it decides. *)

\* The instance has a Cardinality of its own.
LEMMA SameSize == \A S : An!Cardinality(S) = Cardinality(S)
BY DEF An!Cardinality, Cardinality

\* What the theorems on the analyzer assume of its constants.
AnalyzerConstants ==
    /\ SynFloodThreshold \in Nat \ {0} /\ PortScanThreshold \in Nat
    /\ {PortScanWindow, SynFloodWindow, PruneEvery, EvictAge, LimitTime, BlockTime} \subseteq Nat
    /\ EvictAge + PruneEvery < BlockTime

\* Every address has a state or none, and the decision under way is one.
Decisions == [pc : {"act", "report", "context"}, ip : Addresses,
              action : {"block", "limit"}, late : BOOLEAN]
StatesOK == \A ip \in Addresses : states[ip] \in An!IPState \cup {An!NoState}
Typed ==
    /\ StatesOK
    /\ idle \in 0 .. PruneEvery
    /\ task \in Decisions \cup {An!NoJob}
    /\ blocked \in [Addresses -> 0 .. An!Forever]

\* Ages and durations are numbers, and time keeps them in their ranges.
LEMMA ConstantFacts ==
    ASSUME AnalyzerConstants
    PROVE  /\ An!Old \in Nat /\ 0 \in An!Ages /\ An!Ages \subseteq Nat /\ 1 \in An!RingSlots
           /\ Cardinality(An!RingSlots) = SynFloodThreshold + 1
           /\ \A t \in An!Ages \cup {An!None} : An!Older(t) \in An!Ages \cup {An!None}
           /\ \A t \in An!Ages : An!Older(t) \in An!Ages
           /\ An!Forever \in Nat /\ BlockTime \in 0 .. An!Forever /\ 0 \in 0 .. An!Forever
           /\ \A d \in 0 .. An!Forever : An!Remaining(d) \in 0 .. An!Forever
<1>1. /\ An!Old \in Nat /\ 0 \in An!Ages /\ An!Ages \subseteq Nat /\ 1 \in An!RingSlots
      /\ An!Forever \in Nat /\ BlockTime \in 0 .. An!Forever /\ 0 \in 0 .. An!Forever
    BY DEF AnalyzerConstants, An!Old, An!Ages, An!RingSlots, An!Forever
<1>2. Cardinality(An!RingSlots) = SynFloodThreshold + 1
    BY FS_Interval DEF AnalyzerConstants, An!RingSlots
<1>3. \A t \in An!Ages \cup {An!None} : An!Older(t) \in An!Ages \cup {An!None}
    BY <1>1 DEF An!Older, An!Ages, An!None
<1>4. \A t \in An!Ages : An!Older(t) \in An!Ages
    BY <1>1 DEF An!Older, An!Ages, An!None
<1>5. \A d \in 0 .. An!Forever : An!Remaining(d) \in 0 .. An!Forever
    BY <1>1 DEF An!Remaining
<1> QED BY <1>1, <1>2, <1>3, <1>4, <1>5

\* The ports an address was seen on, each with its age.
PortMaps == UNION {[P -> An!Ages] : P \in SUBSET An!Ports}

\* A function on some of the ports is such a map, and the other way round.
LEMMA PortMapOf ==
    ASSUME NEW P \in SUBSET An!Ports, NEW f \in [P -> An!Ages]
    PROVE  f \in PortMaps /\ DOMAIN f = P
BY DEF PortMaps

\* And what is such a map is such a function.
LEMMA PortMapIs ==
    ASSUME NEW f \in PortMaps
    PROVE  DOMAIN f \in SUBSET An!Ports /\ f \in [DOMAIN f -> An!Ages]
BY DEF PortMaps

StateRecords ==
    [tracked : {TRUE}, syns : [An!RingSlots -> An!Ages \cup {An!None}], synIdx : An!RingSlots,
     ports : PortMaps, blocked : BOOLEAN, lastLimited : An!Ages \cup {An!None}]

\* IPState, with its maps of ports named.
LEMMA StateIs == An!IPState = StateRecords
BY DEF An!IPState, PortMaps, StateRecords

\* The absence of a state is told from every state.
LEMMA NoStateIsNone == An!NoState \notin An!IPState
<1> SUFFICES ASSUME An!NoState \in An!IPState PROVE FALSE
    OBVIOUS
<1>1. DOMAIN An!NoState = {"tracked"}
    BY DEF An!NoState
<1>2. "syns" \in DOMAIN An!NoState
    BY DEF An!IPState
<1> QED BY <1>1, <1>2

\* A new state has no ports and no flag.
LEMMA NewStateFacts ==
    ASSUME AnalyzerConstants
    PROVE  /\ An!NewState \in An!IPState
           /\ DOMAIN An!NewState.ports = {} /\ An!NewState.blocked = FALSE
<1> USE DEF StateRecords
<1> DEFINE f == [p \in {} |-> 0]
<1>1. f \in PortMaps /\ DOMAIN f = {}
    <2>1. f \in [{} -> An!Ages] /\ {} \in SUBSET An!Ports
        OBVIOUS
    <2> QED BY <2>1, PortMapOf
<1>2. [i \in An!RingSlots |-> An!None] \in [An!RingSlots -> An!Ages \cup {An!None}]
    OBVIOUS
<1>3. An!NewState.ports = f /\ An!NewState.blocked = FALSE
    BY DEF An!NewState
<1> HIDE DEF f
<1>4. An!NewState \in An!IPState
    <2>1. An!NewState = [tracked |-> TRUE, syns |-> [i \in An!RingSlots |-> An!None], synIdx |-> 1,
                      ports |-> f, blocked |-> FALSE, lastLimited |-> An!None]
        BY DEF An!NewState, f
    <2> QED BY <1>1, <1>2, <2>1, ConstantFacts, StateIs
<1> QED BY <1>1, <1>3, <1>4

\* Recording a connection changes the ring alone.
LEMMA AddSynFacts ==
    ASSUME AnalyzerConstants, NEW s \in An!IPState
    PROVE  /\ An!AddSyn(s) \in An!IPState
           /\ An!AddSyn(s).ports = s.ports /\ An!AddSyn(s).blocked = s.blocked
           /\ An!AddSyn(s).syns[s.synIdx] = 0 /\ s.synIdx \in An!RingSlots
<1> USE DEF StateRecords
<1> DEFINE next == IF s.synIdx = Cardinality(An!RingSlots) THEN 1 ELSE s.synIdx + 1
           ring == [s.syns EXCEPT ![s.synIdx] = 0]
<1>1. s \in StateRecords
    BY StateIs
<1>2. next \in An!RingSlots
    <2>1. s.synIdx \in 1 .. SynFloodThreshold + 1 /\ SynFloodThreshold \in Nat
        BY <1>1 DEF An!RingSlots, AnalyzerConstants
    <2>2. Cardinality(An!RingSlots) = SynFloodThreshold + 1
        BY ConstantFacts
    <2> QED BY <2>1, <2>2 DEF An!RingSlots
<1>3. ring \in [An!RingSlots -> An!Ages \cup {An!None}] /\ ring[s.synIdx] = 0
    BY <1>1, ConstantFacts
<1>4. An!AddSyn(s) = [s EXCEPT !.syns = ring, !.synIdx = next]
    BY <1>1, SameSize DEF An!AddSyn
<1> HIDE DEF next, ring
<1>5. An!AddSyn(s) \in StateRecords
    BY <1>1, <1>2, <1>3, <1>4
<1>6. An!AddSyn(s).syns = ring /\ An!AddSyn(s).ports = s.ports /\ An!AddSyn(s).blocked = s.blocked
    BY <1>1, <1>4
<1> QED BY <1>1, <1>3, <1>5, <1>6, StateIs

\* Recording a port adds that port at most, and changes nothing else.
LEMMA AddPortFacts ==
    ASSUME AnalyzerConstants, NEW s \in An!IPState, NEW p \in An!Ports
    PROVE  /\ An!AddPort(s, p) \in An!IPState
           /\ DOMAIN An!AddPort(s, p).ports \subseteq DOMAIN s.ports \cup {p}
           /\ An!AddPort(s, p).blocked = s.blocked
           /\ An!AddPort(s, p).syns = s.syns
<1> USE DEF StateRecords
<1> DEFINE all == [q \in DOMAIN s.ports \cup {p} |-> IF q = p THEN 0 ELSE s.ports[q]]
           live == {q \in DOMAIN all : all[q] < PortScanWindow}
           new == [q \in live |-> all[q]]
<1>1. s \in StateRecords
    BY StateIs
<1>2. DOMAIN s.ports \in SUBSET An!Ports /\ s.ports \in [DOMAIN s.ports -> An!Ages]
    BY <1>1, PortMapIs
<1>3. all \in [DOMAIN s.ports \cup {p} -> An!Ages]
    BY <1>2, ConstantFacts
<1>4. live \subseteq DOMAIN s.ports \cup {p}
    OBVIOUS
<1>5. new \in PortMaps /\ DOMAIN new = live
    <2> HIDE DEF all
    <2>1. new \in [live -> An!Ages]
        BY <1>3, <1>4
    <2>2. live \in SUBSET An!Ports
        BY <1>2, <1>4
    <2> QED BY <2>1, <2>2, PortMapOf
<1>6. An!AddPort(s, p) = [s EXCEPT !.ports = new]
    BY DEF An!AddPort
<1> HIDE DEF new, live
<1>7. /\ An!AddPort(s, p) \in StateRecords
      /\ An!AddPort(s, p).ports = new
      /\ An!AddPort(s, p).blocked = s.blocked
      /\ An!AddPort(s, p).syns = s.syns
    BY <1>1, <1>5, <1>6
<1> QED BY <1>4, <1>5, <1>7, StateIs

\* What Evaluate makes of an event, by what it decides.
Quiet(v, old) == v.job = An!NoJob /\ (v.state = old \/ ~v.state.blocked)
Flood(v, ip) ==
    /\ v.job = An!Decision(ip, "block") /\ v.state.blocked
    /\ \E i \in An!RingSlots : v.state.syns[i] = 0
Scan(v, ip, seen) ==
    /\ v.job = An!Decision(ip, "limit") /\ ~v.state.blocked
    /\ \E P \in SUBSET seen : Cardinality(P) > PortScanThreshold

\* Evaluate does nothing, blocks because of a connection just recorded, or limits because
\* of more ports than PortScanThreshold.
LEMMA EvaluateFacts ==
    ASSUME AnalyzerConstants, StatesOK, NEW ip \in Addresses, NEW e,
           An!trackedPortForEvent(e) \in An!Ports
    PROVE  LET v == An!Evaluate(ip, e)
               seen == DOMAIN An!StateOf(ip).ports \cup {An!trackedPortForEvent(e)}
           IN  /\ v.state \in An!IPState /\ DOMAIN v.state.ports \subseteq seen
               /\ Quiet(v, An!StateOf(ip)) \/ Flood(v, ip) \/ Scan(v, ip, seen)
<1> USE DEF StateRecords
<1> DEFINE v == An!Evaluate(ip, e)
           p == An!trackedPortForEvent(e)
           s0 == An!StateOf(ip)
           seen == DOMAIN s0.ports \cup {p}
           s1 == IF "ack" \in e.flags THEN An!AddSyn(s0) ELSE s0
           s2 == An!AddPort(s1, p)
           flood == "ack" \in e.flags /\ An!SynsInWindow(s1.syns) > SynFloodThreshold
           scan == Cardinality(DOMAIN s2.ports) > PortScanThreshold /\ s2.lastLimited = An!None
           flagged == [s1 EXCEPT !.blocked = TRUE]
           limited2 == [s2 EXCEPT !.lastLimited = 0]
<1>1. s0 \in An!IPState
    BY NewStateFacts DEF An!StateOf, StatesOK
<1>2. /\ s0.blocked => v = [state |-> s0, job |-> An!NoJob]
      /\ ~s0.blocked /\ flood => v = [state |-> flagged, job |-> An!Decision(ip, "block")]
      /\ ~s0.blocked /\ ~flood /\ scan => v = [state |-> limited2, job |-> An!Decision(ip, "limit")]
      /\ ~s0.blocked /\ ~flood /\ ~scan => v = [state |-> s2, job |-> An!NoJob]
    BY SameSize DEF An!Evaluate
<1> HIDE DEF v, p, s0
<1>3. /\ s1 \in An!IPState /\ s1.ports = s0.ports /\ s1.blocked = s0.blocked
      /\ "ack" \in e.flags => \E i \in An!RingSlots : s1.syns[i] = 0
    BY <1>1, AddSynFacts
<1>4. p \in An!Ports
    BY DEF p
<1> HIDE DEF s1
<1>5. /\ s2 \in An!IPState /\ DOMAIN s2.ports \subseteq seen /\ s2.blocked = s0.blocked
    BY <1>3, <1>4, AddPortFacts
<1> HIDE DEF s2
<1>6. CASE s0.blocked
    BY <1>1, <1>2, <1>6 DEF Quiet, v, s0, p
<1>7. CASE ~s0.blocked /\ flood
    <2>1. v.state = flagged /\ v.job = An!Decision(ip, "block")
        <3> HIDE DEF flood, flagged
        <3> QED BY <1>2, <1>7
    <2>2. PICK i \in An!RingSlots : s1.syns[i] = 0
        BY <1>3, <1>7
    <2>3. /\ flagged \in An!IPState /\ flagged.ports = s0.ports
          /\ flagged.blocked = TRUE /\ flagged.syns = s1.syns
        <3>1. s1 \in StateRecords
            BY <1>3, StateIs
        <3>2. flagged \in StateRecords
            BY <3>1
        <3> QED BY <1>3, <3>1, <3>2, StateIs
    <2> HIDE DEF flagged
    <2>4. Flood(v, ip)
        BY <2>1, <2>2, <2>3 DEF Flood
    <2>5. v.state \in An!IPState /\ DOMAIN v.state.ports \subseteq seen
        BY <2>1, <2>3
    <2> QED BY <2>4, <2>5 DEF v, s0, p
<1>8. CASE ~s0.blocked /\ ~flood /\ scan
    <2>1. v.state = limited2 /\ v.job = An!Decision(ip, "limit")
        <3> HIDE DEF flood, scan, limited2
        <3> QED BY <1>2, <1>8
    <2>2. /\ limited2 \in An!IPState /\ limited2.ports = s2.ports
          /\ limited2.blocked = FALSE
        <3>1. s2 \in StateRecords
            BY <1>5, StateIs
        <3>2. limited2 \in StateRecords
            BY <3>1, ConstantFacts
        <3>3. s2.blocked = FALSE
            BY <1>5, <1>8, <3>1
        <3> QED BY <3>1, <3>2, <3>3, StateIs
    <2> HIDE DEF limited2
    <2>3. Cardinality(DOMAIN s2.ports) > PortScanThreshold
        BY <1>8
    <2>4. DOMAIN s2.ports \in SUBSET seen
        BY <1>5
    <2>5. Scan(v, ip, seen)
        BY <2>1, <2>2, <2>3, <2>4 DEF Scan
    <2>6. v.state \in An!IPState /\ DOMAIN v.state.ports \subseteq seen
        BY <2>1, <2>2, <2>4
    <2> QED BY <2>5, <2>6 DEF v, s0, p
<1>9. CASE ~s0.blocked /\ ~flood /\ ~scan
    <2>1. v.state = s2 /\ v.job = An!NoJob
        <3> HIDE DEF flood, scan
        <3> QED BY <1>2, <1>9
    <2>2. ~s2.blocked
        BY <1>5, <1>9
    <2> QED BY <1>5, <2>1, <2>2 DEF Quiet, v, s0, p
<1> QED BY <1>6, <1>7, <1>8, <1>9

\* The port an event counts under is that of the service it is about, as long as the
\* services of the host are not where clients are.
LEMMA PortOfEvent ==
    ASSUME NEW e \in An!Events
    PROVE  /\ An!trackedPortForEvent(e) \in An!Ports /\ An!ServiceOf(e) \in An!Ports
           /\ HostPorts \cap Ephemeral = {} => An!trackedPortForEvent(e) = An!ServiceOf(e)
<1>1. CASE e \in An!Accepted
    <2>1. e.dir = "in" /\ e.lport \in HostPorts /\ e.rport \in Ephemeral /\ e.flags = {"syn", "ack"}
        BY <1>1 DEF An!Accepted
    <2>2. e \notin An!Connecting /\ e \notin An!Answer
        BY <2>1 DEF An!Connecting, An!Answer
    <2> QED BY <2>1, <2>2 DEF An!trackedPortForEvent, An!ServiceOf, An!Ports
<1>2. CASE e \in An!HalfOpen
    <2>1. e.dir = "in" /\ e.lport \in HostPorts /\ e.rport \in Ephemeral /\ e.flags = {"syn"}
        BY <1>2 DEF An!HalfOpen
    <2>2. e \notin An!Connecting /\ e \notin An!Answer
        BY <2>1 DEF An!Connecting, An!Answer
    <2> QED BY <2>1, <2>2 DEF An!trackedPortForEvent, An!ServiceOf, An!Ports
<1>3. CASE e \in An!Connecting
    BY <1>3 DEF An!Connecting, An!trackedPortForEvent, An!ServiceOf, An!Ports
<1>4. CASE e \in An!Answer
    BY <1>4 DEF An!Answer, An!trackedPortForEvent, An!ServiceOf, An!Ports
<1> QED BY <1>1, <1>2, <1>3, <1>4 DEF An!Events

\* All that a state grows older by.
LEMMA AgedFacts ==
    ASSUME AnalyzerConstants, NEW s \in An!IPState
    PROVE  /\ An!Aged(s) \in An!IPState
           /\ An!Aged(s).syns = [i \in An!RingSlots |-> An!Older(s.syns[i])]
           /\ An!Aged(s).ports = [p \in DOMAIN s.ports |-> An!Older(s.ports[p])]
           /\ An!Aged(s).blocked = s.blocked
<1> USE DEF StateRecords
<1> DEFINE ring == [i \in An!RingSlots |-> An!Older(s.syns[i])]
           map == [p \in DOMAIN s.ports |-> An!Older(s.ports[p])]
<1>1. s \in StateRecords
    BY StateIs
<1>2. ring \in [An!RingSlots -> An!Ages \cup {An!None}]
    BY <1>1, ConstantFacts
<1>3. map \in PortMaps
    <2>1. DOMAIN s.ports \in SUBSET An!Ports /\ s.ports \in [DOMAIN s.ports -> An!Ages]
        BY <1>1, PortMapIs
    <2>2. map \in [DOMAIN s.ports -> An!Ages]
        BY <2>1, ConstantFacts
    <2> QED BY <2>1, <2>2, PortMapOf
<1>4. An!Older(s.lastLimited) \in An!Ages \cup {An!None}
    BY <1>1, ConstantFacts
<1>5. An!Aged(s) = [s EXCEPT !.syns = ring, !.ports = map, !.lastLimited = An!Older(s.lastLimited)]
    <2>1. s # An!NoState /\ DOMAIN s.syns = An!RingSlots
        BY <1>1, NoStateIsNone
    <2> QED BY <1>1, <2>1 DEF An!Aged
<1> HIDE DEF ring, map
<1>6. /\ An!Aged(s) \in StateRecords
      /\ An!Aged(s).syns = ring /\ An!Aged(s).ports = map /\ An!Aged(s).blocked = s.blocked
    BY <1>1, <1>2, <1>3, <1>4, <1>5
<1> QED BY <1>6, StateIs DEF ring, map

\* What ProcessEvent makes of the states, by what Evaluate has decided.
LEMMA ProcessFacts ==
    ASSUME AnalyzerConstants, Typed, NEW ip \in Addresses, NEW e \in An!Events,
           An!ProcessEvent(ip, e)
    PROVE  /\ \A a \in Addresses \ {ip} : states'[a] \in {states[a], An!NoState}
           /\ task = An!NoJob /\ UNCHANGED <<idle, blocked>>
           /\ \/ /\ states'[ip] = states[ip] /\ task' = An!NoJob /\ excused' = excused
                 /\ decided' = decided
              \/ /\ states'[ip] \in An!IPState
                 /\ DOMAIN states'[ip].ports
                        \subseteq DOMAIN An!StateOf(ip).ports \cup {An!trackedPortForEvent(e)}
                 /\ \/ /\ task' = An!NoJob /\ excused' = excused /\ decided' = decided
                       /\ states'[ip] = An!StateOf(ip) \/ ~states'[ip].blocked
                    \/ /\ task' = An!Decision(ip, "block") /\ excused' = excused \ {ip}
                       /\ decided' = [decided EXCEPT ![ip] = @ \cup {"block"}]
                       /\ states'[ip].blocked
                       /\ \E i \in An!RingSlots : states'[ip].syns[i] = 0
                    \/ /\ task' = An!Decision(ip, "limit") /\ excused' = excused
                       /\ decided' = [decided EXCEPT ![ip] = @ \cup {"limit"}]
                       /\ ~states'[ip].blocked
                       /\ \E P \in SUBSET (DOMAIN An!StateOf(ip).ports
                                              \cup {An!trackedPortForEvent(e)}) :
                             Cardinality(P) > PortScanThreshold
<1> DEFINE v == An!Evaluate(ip, e)
           seen == DOMAIN An!StateOf(ip).ports \cup {An!trackedPortForEvent(e)}
<1>1. task = An!NoJob /\ UNCHANGED <<idle, blocked>>
    BY DEF An!ProcessEvent, An!kernel
<1>2. /\ task' = An!NoJob => excused' = excused /\ decided' = decided
      /\ task' # An!NoJob /\ task'.action = "block" => excused' = excused \ {ip}
      /\ task' # An!NoJob /\ task'.action # "block" => excused' = excused
      /\ task' # An!NoJob => decided' = [decided EXCEPT ![ip] = @ \cup {task'.action}]
    BY DEF An!ProcessEvent
<1>3. CASE An!isWhitelistedIP(ip)
    <2>1. states' = states /\ task' = An!NoJob
        BY <1>1, <1>3 DEF An!ProcessEvent, An!analysis
    <2> QED BY <1>1, <1>2, <2>1
<1>4. CASE ~An!isWhitelistedIP(ip)
    <2>1. /\ states' = [a \in Addresses |->
                            IF a = ip THEN v.state
                            ELSE IF a \in An!ToSet(lru') THEN states[a] ELSE An!NoState]
          /\ task' = v.job
        BY <1>4 DEF An!ProcessEvent
    <2>2. /\ v.state \in An!IPState /\ DOMAIN v.state.ports \subseteq seen
          /\ Quiet(v, An!StateOf(ip)) \/ Flood(v, ip) \/ Scan(v, ip, seen)
        BY PortOfEvent, EvaluateFacts DEF Typed
    <2> HIDE DEF v
    <2>3. /\ states'[ip] = v.state
          /\ \A a \in Addresses \ {ip} : states'[a] \in {states[a], An!NoState}
        BY <2>1
    <2>4. CASE Quiet(v, An!StateOf(ip))
        BY <1>1, <1>2, <2>1, <2>2, <2>3, <2>4 DEF Quiet
    <2>5. \A action \in {"block", "limit"} :
              An!Decision(ip, action) # An!NoJob /\ An!Decision(ip, action).action = action
        <3>1. \A action : /\ "ip" \in DOMAIN An!Decision(ip, action)
                          /\ An!Decision(ip, action).action = action
            BY DEF An!Decision
        <3>2. "ip" \notin DOMAIN An!NoJob
            BY DEF An!NoJob
        <3> QED BY <3>1, <3>2
    <2>6. CASE Flood(v, ip)
        <3>1. /\ task' = An!Decision(ip, "block") /\ states'[ip].blocked
              /\ \E i \in An!RingSlots : states'[ip].syns[i] = 0
            BY <2>1, <2>3, <2>6 DEF Flood
        <3>2. task' # An!NoJob /\ task'.action = "block"
            BY <2>5, <3>1
        <3>3. excused' = excused \ {ip} /\ decided' = [decided EXCEPT ![ip] = @ \cup {"block"}]
            BY <1>2, <3>2
        <3> QED BY <1>1, <2>2, <2>3, <3>1, <3>3
    <2>7. CASE Scan(v, ip, seen)
        <3>1. /\ task' = An!Decision(ip, "limit") /\ ~states'[ip].blocked
              /\ \E P \in SUBSET seen : Cardinality(P) > PortScanThreshold
            BY <2>1, <2>3, <2>7 DEF Scan
        <3>2. task' # An!NoJob /\ task'.action = "limit"
            BY <2>5, <3>1
        <3>3. excused' = excused /\ decided' = [decided EXCEPT ![ip] = @ \cup {"limit"}]
            BY <1>2, <3>2
        <3> QED BY <1>1, <2>2, <2>3, <3>1, <3>3
    <2> QED BY <2>2, <2>4, <2>6, <2>7
<1> QED BY <1>3, <1>4

\* The steps that change no state of an address.
LEMMA StatesRest ==
    ASSUME \/ An!Remediate \/ An!ReportBlockedIP \/ An!ReportBlockedIPWithContext
           \/ An!Repair \/ An!ReportRepair \/ UNCHANGED An!vars
           \/ \E ip \in Addresses : \/ An!Unblock(ip) \/ An!Whitelist(ip) \/ An!Unlist(ip)
                                    \/ An!Reconcile(ip) \/ An!UnblockMissed(ip)
    PROVE  states' = states /\ idle' = idle /\ services' = services /\ decided' = decided
BY
DEF An!Remediate, An!ReportBlockedIP, An!ReportBlockedIPWithContext, An!Unblock, An!Whitelist,
    An!Unlist,
    An!Reconcile, An!Repair, An!ReportRepair, An!UnblockMissed, An!Lift, An!analysis, An!ghosts,
    An!vars

\* A decision goes from step to step, and otherwise stays what it is.
LEMMA JobStep ==
    ASSUME AnalyzerConstants, Typed, [An!Next]_(An!vars)
    PROVE  task' \in Decisions \cup {An!NoJob}
<1>1. task \in Decisions \cup {An!NoJob}
    BY DEF Typed
<1>2. task.pc \in {"act", "report"} => task \in Decisions
    BY <1>1 DEF An!NoJob
<1>3. ASSUME NEW ip \in Addresses, NEW e \in An!Events, An!ProcessEvent(ip, e)
      PROVE  task' \in Decisions \cup {An!NoJob}
    <2>1. task' \in {An!NoJob, An!Decision(ip, "block"), An!Decision(ip, "limit")}
        BY <1>3, ProcessFacts
    <2>2. \A action \in {"block", "limit"} : An!Decision(ip, action) \in Decisions
        BY DEF An!Decision, Decisions
    <2> QED BY <2>1, <2>2
<1>4. CASE An!Remediate
    BY <1>2, <1>4 DEF An!Remediate, Decisions
<1>5. CASE An!ReportBlockedIP
    BY <1>2, <1>5 DEF An!ReportBlockedIP, Decisions
<1>6. ASSUME NEW ip \in Addresses, An!Whitelist(ip) PROVE task' \in Decisions \cup {An!NoJob}
    <2>1. task' = IF task # An!NoJob /\ task.ip = ip THEN [task EXCEPT !.late = TRUE] ELSE task
        BY <1>6 DEF An!Whitelist, An!Overtaken
    <2>2. task \in Decisions => [task EXCEPT !.late = TRUE] \in Decisions
        BY DEF Decisions
    <2> QED BY <1>1, <2>1, <2>2
<1>7. CASE An!ReportBlockedIPWithContext \/ An!Restart
    BY <1>7 DEF An!ReportBlockedIPWithContext, An!Restart
<1>8. CASE \/ An!Prune \/ An!Tick \/ An!Repair \/ An!ReportRepair \/ UNCHANGED An!vars
           \/ \E ip \in Addresses : \/ An!Unblock(ip) \/ An!Unlist(ip)
                                    \/ An!Reconcile(ip) \/ An!UnblockMissed(ip)
    BY <1>1, <1>8
    DEF An!Prune, An!Tick, An!Repair, An!ReportRepair, An!Unblock, An!Unlist, An!Reconcile,
        An!UnblockMissed, An!vars
<1> QED BY <1>3, <1>4, <1>5, <1>6, <1>7, <1>8 DEF An!Next

\* The time left in the block lists stays within bounds.
LEMMA BlockedStep ==
    ASSUME AnalyzerConstants, Typed, [An!Next]_(An!vars)
    PROVE  blocked' \in [Addresses -> 0 .. An!Forever]
<1>1. /\ blocked \in [Addresses -> 0 .. An!Forever]
      /\ BlockTime \in 0 .. An!Forever /\ 0 \in 0 .. An!Forever /\ An!Forever \in 0 .. An!Forever
      /\ \A d \in 0 .. An!Forever : An!Remaining(d) \in 0 .. An!Forever
    BY ConstantFacts DEF Typed
<1>2. ASSUME NEW d \in 0 .. An!Forever, NEW a, blocked' = [blocked EXCEPT ![a] = d]
      PROVE  blocked' \in [Addresses -> 0 .. An!Forever]
    BY <1>1, <1>2
<1>3. CASE An!Remediate
    <2>1. blocked' = blocked \/ blocked' = [blocked EXCEPT ![task.ip] = BlockTime]
        BY <1>3 DEF An!Remediate, An!kernel
    <2> QED BY <1>1, <1>2, <2>1
<1>4. CASE An!Tick
    BY <1>1, <1>4 DEF An!Tick
<1>5. ASSUME NEW ip \in Addresses, An!Unblock(ip) \/ An!Whitelist(ip) \/ An!Unlist(ip)
      PROVE  blocked' \in [Addresses -> 0 .. An!Forever]
    <2>1. blocked' = [blocked EXCEPT ![ip] = 0]
        BY <1>5 DEF An!Unblock, An!Whitelist, An!Unlist, An!Lift
    <2> QED BY <1>1, <1>2, <2>1
<1>6. CASE An!Repair
    <2>1. blocked' = blocked \/ blocked' = [blocked EXCEPT ![repair.ip] = An!Forever]
        BY <1>6 DEF An!Repair
    <2> QED BY <1>1, <1>2, <2>1
<1>7. CASE \/ \E ip \in Addresses, e \in An!Events : An!ProcessEvent(ip, e)
           \/ An!ReportBlockedIP \/ An!ReportBlockedIPWithContext \/ An!ReportRepair
           \/ An!Prune \/ An!Restart \/ UNCHANGED An!vars
           \/ \E ip \in Addresses : An!Reconcile(ip) \/ An!UnblockMissed(ip)
    <2>1. blocked' = blocked
        BY <1>7
        DEF An!ProcessEvent, An!ReportBlockedIP, An!ReportBlockedIPWithContext, An!ReportRepair,
            An!Prune, An!Restart, An!Reconcile, An!UnblockMissed, An!kernel, An!vars
    <2> QED BY <1>1, <2>1
<1> QED BY <1>3, <1>4, <1>5, <1>6, <1>7 DEF An!Next

\* Every step of the agent, the prune and the backend keeps these types.
LEMMA TypedStep == ASSUME AnalyzerConstants PROVE Typed /\ [An!Next]_(An!vars) => Typed'
<1> SUFFICES ASSUME Typed, [An!Next]_(An!vars) PROVE Typed'
    OBVIOUS
<1>1. StatesOK /\ idle \in 0 .. PruneEvery
    BY DEF Typed
<1>2. StatesOK' /\ idle' \in 0 .. PruneEvery => Typed'
    BY JobStep, BlockedStep DEF Typed
<1>3. ASSUME NEW ip \in Addresses, NEW e \in An!Events, An!ProcessEvent(ip, e) PROVE Typed'
    <2>1. \A a \in Addresses : states'[a] \in An!IPState \cup {An!NoState}
        BY <1>1, <1>3, ProcessFacts DEF StatesOK
    <2>2. idle' = idle
        BY <1>3, ProcessFacts
    <2> QED BY <1>1, <1>2, <2>1, <2>2 DEF StatesOK
<1>4. CASE An!Prune
    <2>1. \A ip \in Addresses : states'[ip] \in {states[ip], An!NoState}
        BY <1>4 DEF An!Prune
    <2>2. idle' \in 0 .. PruneEvery
        BY <1>4 DEF An!Prune, AnalyzerConstants
    <2> QED BY <1>1, <1>2, <2>1, <2>2 DEF StatesOK
<1>5. CASE An!Restart
    <2>1. (\A ip \in Addresses : states'[ip] = An!NoState) /\ idle' = 0
        BY <1>5 DEF An!Restart
    <2>2. idle' \in 0 .. PruneEvery
        BY <2>1 DEF AnalyzerConstants
    <2> QED BY <1>2, <2>1, <2>2 DEF StatesOK
<1>6. CASE An!Tick
    <2>1. ASSUME NEW ip \in Addresses PROVE states'[ip] \in An!IPState \cup {An!NoState}
        <3>1. states'[ip] = An!Aged(states[ip])
            BY <1>6 DEF An!Tick
        <3>2. An!Aged(An!NoState) = An!NoState
            BY DEF An!Aged
        <3> QED BY <1>1, <3>1, <3>2, AgedFacts DEF StatesOK
    <2>2. idle' \in 0 .. PruneEvery
        BY <1>1, <1>6 DEF An!Tick, AnalyzerConstants
    <2> QED BY <1>2, <2>1, <2>2 DEF StatesOK
<1>7. CASE \/ An!Remediate \/ An!ReportBlockedIP \/ An!ReportBlockedIPWithContext
           \/ An!Repair \/ An!ReportRepair \/ UNCHANGED An!vars
           \/ \E ip \in Addresses : \/ An!Unblock(ip) \/ An!Whitelist(ip) \/ An!Unlist(ip)
                                    \/ An!Reconcile(ip) \/ An!UnblockMissed(ip)
    BY <1>1, <1>2, <1>7, StatesRest DEF StatesOK
<1> QED BY <1>3, <1>4, <1>5, <1>6, <1>7 DEF An!Next

\* No address has a state at first.
LEMMA TypedInit == ASSUME AnalyzerConstants, An!Init PROVE Typed
<1>1. (\A ip \in Addresses : states[ip] = An!NoState) /\ idle = 0 /\ task = An!NoJob
    BY DEF An!Init
<1>2. blocked \in [Addresses -> 0 .. An!Forever] /\ 0 \in 0 .. PruneEvery
    BY ConstantFacts DEF An!Init, AnalyzerConstants
<1> QED BY <1>1, <1>2 DEF Typed, StatesOK

----------------------------------------------------------------------------
\* The times a state remembers, of which Latest is the youngest.
Times(s) ==
    {s.syns[i] : i \in {j \in DOMAIN s.syns : s.syns[j] # An!None}}
        \cup {s.ports[p] : p \in DOMAIN s.ports}

\* The times of a state are ages, and grow older one by one.
LEMMA TimesFacts ==
    ASSUME AnalyzerConstants, NEW s \in An!IPState
    PROVE  /\ Times(s) \subseteq An!Ages
           /\ Times(An!Aged(s)) = {An!Older(t) : t \in Times(s)}
           /\ \A i \in An!RingSlots : s.syns[i] # An!None => s.syns[i] \in Times(s)
<1>1. /\ s.syns \in [An!RingSlots -> An!Ages \cup {An!None}]
      /\ s.ports \in [DOMAIN s.ports -> An!Ages]
    <2>1. s \in StateRecords
        BY StateIs
    <2>2. s.syns \in [An!RingSlots -> An!Ages \cup {An!None}] /\ s.ports \in PortMaps
        BY <2>1 DEF StateRecords
    <2> QED BY <2>2, PortMapIs
<1>2. /\ An!Aged(s).syns = [i \in An!RingSlots |-> An!Older(s.syns[i])]
      /\ An!Aged(s).ports = [p \in DOMAIN s.ports |-> An!Older(s.ports[p])]
    BY AgedFacts
<1>3. Times(s) \subseteq An!Ages
    BY <1>1 DEF Times
<1>4. \A t \in An!Ages \cup {An!None} : An!Older(t) # An!None <=> t # An!None
    BY ConstantFacts DEF An!Older, An!Ages, An!None
<1>5. Times(An!Aged(s)) \subseteq {An!Older(t) : t \in Times(s)}
    <2> SUFFICES ASSUME NEW u \in Times(An!Aged(s)) PROVE \E t \in Times(s) : u = An!Older(t)
        OBVIOUS
    <2>1. CASE \E i \in An!RingSlots : u = An!Older(s.syns[i]) /\ u # An!None
        BY <1>1, <1>4, <2>1 DEF Times
    <2>2. CASE \E p \in DOMAIN s.ports : u = An!Older(s.ports[p])
        BY <2>2 DEF Times
    <2> QED BY <1>2, <2>1, <2>2 DEF Times
<1>6. {An!Older(t) : t \in Times(s)} \subseteq Times(An!Aged(s))
    <2> SUFFICES ASSUME NEW t \in Times(s) PROVE An!Older(t) \in Times(An!Aged(s))
        OBVIOUS
    <2>1. CASE \E i \in An!RingSlots : t = s.syns[i] /\ t # An!None
        BY <1>1, <1>2, <1>4, <2>1 DEF Times
    <2>2. CASE \E p \in DOMAIN s.ports : t = s.ports[p]
        BY <1>2, <2>2 DEF Times
    <2> QED BY <1>1, <2>1, <2>2 DEF Times
<1>7. \A i \in An!RingSlots : s.syns[i] # An!None => s.syns[i] \in Times(s)
    BY <1>1 DEF Times
<1> QED BY <1>3, <1>5, <1>6, <1>7

\* A set of numbers has a least member.
LEMMA LeastOf ==
    ASSUME NEW S \in SUBSET Nat, S # {}
    PROVE  \E m \in S : \A x \in S : m <= x
<1> DEFINE R == OpToRel(<, Nat)
<1>1. IsWellFoundedOn(R, Nat)
    BY NatLessThanWellFounded
<1>2. PICK m \in S : \A y \in S : ~(<<y, m>> \in R)
    <2> HIDE DEF R
    <2> QED BY <1>1, WFMin
<1>3. \A y \in S : m <= y
    <2> SUFFICES ASSUME NEW y \in S, y < m PROVE FALSE
        OBVIOUS
    <2>1. <<y, m>> \in R
        BY DEF OpToRel
    <2> QED BY <2>1, <1>2
<1> QED BY <1>3

\* Latest is the least age, the CHOOSE of its definition being one that exists.
LEMMA LatestFacts ==
    ASSUME AnalyzerConstants, NEW s \in An!IPState, Times(s) # {}
    PROVE  An!Latest(s) \in Times(s) /\ \A t \in Times(s) : An!Latest(s) <= t
<1>1. Times(s) \subseteq Nat
    BY TimesFacts, ConstantFacts
<1>2. \E m \in Times(s) : \A x \in Times(s) : m <= x
    BY <1>1, LeastOf
<1>3. An!Latest(s) = IF Times(s) = {} THEN An!None
                  ELSE CHOOSE t \in Times(s) : \A u \in Times(s) : t <= u
    BY DEF An!Latest, Times
<1> HIDE DEF Times
<1> QED BY <1>2, <1>3

----------------------------------------------------------------------------
\* The block of an address that is flagged is in the kernel: it has been put there, and
\* has neither failed nor been lifted.
Enforced(ip) == ip \notin excused /\ (task.pc = "act" => task.ip # ip)

\* A flag is forgotten before the block runs out: as long as an address is flagged it
\* has a time that the next prune still lets pass, and none younger than the block.
FlagAge ==
    \A ip \in Addresses : An!Flagged(ip) =>
        /\ \E t \in Times(states[ip]) : t <= EvictAge + idle
        /\ task.pc = "act" /\ task.ip = ip => task.action = "block"
        /\ Enforced(ip) =>
               \A t \in Times(states[ip]) : t < An!Old => blocked[ip] + t >= BlockTime

\* ProcessEvent: a flag just set has a time of zero, and its block is still to come.
LEMMA FlagProcess ==
    ASSUME AnalyzerConstants, Typed, FlagAge, NEW ip \in Addresses, NEW e \in An!Events,
           An!ProcessEvent(ip, e)
    PROVE  FlagAge'
<1> SUFFICES ASSUME NEW a \in Addresses, An!Flagged(a)'
             PROVE  /\ \E t \in Times(states'[a]) : t <= EvictAge + idle'
                    /\ task'.pc = "act" /\ task'.ip = a => task'.action = "block"
                    /\ Enforced(a)' =>
                           \A t \in Times(states'[a]) : t < An!Old => blocked'[a] + t >= BlockTime
    BY DEF FlagAge
<1>1. task = An!NoJob /\ idle' = idle /\ blocked' = blocked /\ idle \in Nat /\ EvictAge \in Nat
    BY ProcessFacts DEF Typed, AnalyzerConstants
<1>2. An!NoJob.pc # "act" /\ \A action : An!Decision(ip, action).pc = "act"
                                    /\ An!Decision(ip, action).ip = ip
                                    /\ An!Decision(ip, action).action = action
    BY DEF An!NoJob, An!Decision
<1>3. task' \in {An!NoJob, An!Decision(ip, "block"), An!Decision(ip, "limit")}
    BY ProcessFacts
<1>4. CASE states'[a] = states[a] /\ (task' = An!NoJob \/ ip # a)
    <2>1. An!Flagged(a)
        BY <1>4 DEF An!Flagged
    <2>2. a \notin excused' => a \notin excused
        <3>1. \/ excused' = excused
              \/ excused' = excused \ {ip} /\ task' = An!Decision(ip, "block")
            BY ProcessFacts
        <3>2. An!Decision(ip, "block") # An!NoJob
            BY <1>2
        <3> QED BY <1>4, <3>1, <3>2
    <2>3. Enforced(a)' => Enforced(a)
        BY <1>1, <1>2, <2>2 DEF Enforced
    <2>4. task'.pc = "act" => task'.ip # a
        BY <1>2, <1>3, <1>4
    <2> QED BY <1>1, <1>4, <2>1, <2>3, <2>4 DEF FlagAge
<1>5. CASE a # ip
    <2>1. states'[a] = states[a]
        BY <1>5, ProcessFacts DEF An!Flagged
    <2> QED BY <1>4, <1>5, <2>1
<1>6. CASE a = ip /\ task' = An!Decision(ip, "block") /\ states'[ip] \in An!IPState
            /\ \E i \in An!RingSlots : states'[ip].syns[i] = 0
    <2>1. 0 \in Times(states'[ip])
        BY <1>6, TimesFacts DEF An!None
    <2>2. 0 <= EvictAge + idle
        BY <1>1
    <2> QED BY <1>1, <1>2, <1>6, <2>1, <2>2 DEF Enforced
<1>7. CASE a = ip /\ task' = An!NoJob /\ states'[ip] = An!StateOf(ip)
    <2>1. states[ip] # An!NoState
        BY <1>7, NewStateFacts DEF An!Flagged, An!StateOf
    <2>2. states'[a] = states[a]
        BY <1>7, <2>1 DEF An!StateOf
    <2> QED BY <1>4, <1>7, <2>2
<1>8. CASE a = ip /\ ~states'[ip].blocked
    BY <1>8 DEF An!Flagged
<1> QED BY <1>4, <1>5, <1>6, <1>7, <1>8, ProcessFacts

\* A tick takes one of the block and adds one to every time but the oldest.
LEMMA FlagTick ==
    ASSUME AnalyzerConstants, Typed, FlagAge, An!Tick PROVE FlagAge'
<1> SUFFICES ASSUME NEW a \in Addresses, An!Flagged(a)'
             PROVE  /\ \E t \in Times(states'[a]) : t <= EvictAge + idle'
                    /\ task'.pc = "act" /\ task'.ip = a => task'.action = "block"
                    /\ Enforced(a)' =>
                           \A t \in Times(states'[a]) : t < An!Old => blocked'[a] + t >= BlockTime
    BY DEF FlagAge
<1>1. /\ states'[a] = An!Aged(states[a]) /\ blocked'[a] = An!Remaining(blocked[a])
      /\ idle' = idle + 1 /\ idle < PruneEvery /\ task' = task /\ excused' = excused
    BY DEF An!Tick
<1>2. states[a] \in An!IPState /\ An!Flagged(a)
    <2>1. states[a] # An!NoState
        BY <1>1 DEF An!Flagged, An!Aged
    <2>2. states[a] \in An!IPState
        BY <2>1 DEF Typed, StatesOK
    <2> QED BY <1>1, <2>1, <2>2, AgedFacts DEF An!Flagged
<1>3. /\ Times(states'[a]) = {An!Older(t) : t \in Times(states[a])}
      /\ \A t \in Times(states[a]) : t \in 0 .. An!Old
    BY <1>1, <1>2, TimesFacts DEF An!Ages
<1>4. /\ EvictAge \in Nat /\ PruneEvery \in Nat /\ BlockTime \in Nat
      /\ EvictAge + PruneEvery < BlockTime /\ An!Old = EvictAge + PruneEvery + 1
      /\ idle \in 0 .. PruneEvery /\ blocked[a] \in 0 .. An!Forever
    BY DEF AnalyzerConstants, An!Old, Typed
<1>5. \A t \in 0 .. An!Old : An!Older(t) = IF t = An!Old THEN t ELSE t + 1
    BY <1>4 DEF An!Older, An!None
<1>6. \E t \in Times(states'[a]) : t <= EvictAge + idle'
    <2>1. PICK t \in Times(states[a]) : t <= EvictAge + idle
        BY <1>2 DEF FlagAge
    <2>2. An!Older(t) \in Times(states'[a])
        BY <1>3
    <2>3. An!Older(t) <= EvictAge + idle'
        BY <1>1, <1>3, <1>4, <1>5, <2>1
    <2> QED BY <2>2, <2>3
<1>7. ASSUME Enforced(a)', NEW u \in Times(states'[a]), u < An!Old
      PROVE  blocked'[a] + u >= BlockTime
    <2>1. PICK t \in Times(states[a]) : u = An!Older(t)
        BY <1>3
    <2>2. t \in 0 .. An!Old /\ u = t + 1
        BY <1>3, <1>4, <1>5, <1>7, <2>1
    <2>3. Enforced(a) /\ t < An!Old
        BY <1>1, <1>4, <1>7, <2>2 DEF Enforced
    <2>4. blocked[a] + t >= BlockTime
        BY <1>2, <2>3 DEF FlagAge
    <2>5. blocked[a] # 0 /\ blocked[a] \in Nat
        BY <1>4, <2>2, <2>3, <2>4 DEF An!Forever
    <2>6. blocked'[a] \in {blocked[a], blocked[a] - 1}
        BY <1>1 DEF An!Remaining
    <2> QED BY <1>4, <2>2, <2>4, <2>5, <2>6
<1> QED BY <1>1, <1>2, <1>6, <1>7 DEF FlagAge

\* A prune keeps a flag only with a time that has not passed EvictAge.
LEMMA FlagPrune ==
    ASSUME AnalyzerConstants, Typed, FlagAge, An!Prune PROVE FlagAge'
<1> SUFFICES ASSUME NEW a \in Addresses, An!Flagged(a)'
             PROVE  /\ \E t \in Times(states'[a]) : t <= EvictAge + idle'
                    /\ task'.pc = "act" /\ task'.ip = a => task'.action = "block"
                    /\ Enforced(a)' =>
                           \A t \in Times(states'[a]) : t < An!Old => blocked'[a] + t >= BlockTime
    BY DEF FlagAge
<1>1. /\ states'[a] = states[a] /\ states[a] # An!NoState /\ ~An!ShouldEvict(states[a])
      /\ idle' = 0 /\ UNCHANGED <<task, blocked, excused>>
    BY DEF An!Prune, An!Flagged, An!kernel
<1>2. states[a] \in An!IPState /\ An!Flagged(a)
    BY <1>1 DEF Typed, StatesOK, An!Flagged
<1>3. Times(states[a]) # {}
    BY <1>2 DEF FlagAge
<1>4. An!Latest(states[a]) \in Times(states[a]) /\ An!Latest(states[a]) \in Nat
    BY <1>2, <1>3, LatestFacts, TimesFacts, ConstantFacts
<1>5. An!Latest(states[a]) <= EvictAge + idle'
    BY <1>1, <1>4 DEF An!ShouldEvict, AnalyzerConstants
<1>6. Enforced(a)' => Enforced(a)
    BY <1>1 DEF Enforced
<1> QED BY <1>1, <1>2, <1>4, <1>5, <1>6 DEF FlagAge

\* The block that a decision makes is BlockTime long, and only what excuses an address
\* shortens one.
LEMMA FlagStep == ASSUME AnalyzerConstants PROVE Typed /\ FlagAge /\ [An!Next]_(An!vars) => FlagAge'
<1> SUFFICES ASSUME Typed, FlagAge, [An!Next]_(An!vars) PROVE FlagAge'
    OBVIOUS
<1>1. ASSUME states' = states, idle' = idle,
             \A a \in Addresses :
                 /\ task'.pc = "act" /\ task'.ip = a =>
                        task.pc = "act" /\ task.ip = a /\ task'.action = task.action
                 /\ An!Flagged(a) /\ Enforced(a)' =>
                        \/ Enforced(a) /\ blocked'[a] = blocked[a]
                        \/ blocked'[a] \in {BlockTime, An!Forever}
      PROVE  FlagAge'
    <2> SUFFICES ASSUME NEW a \in Addresses, An!Flagged(a)
                 PROVE  /\ \E t \in Times(states[a]) : t <= EvictAge + idle
                        /\ task'.pc = "act" /\ task'.ip = a => task'.action = "block"
                        /\ Enforced(a)' =>
                               \A t \in Times(states[a]) : t < An!Old => blocked'[a] + t >= BlockTime
        BY <1>1 DEF FlagAge, An!Flagged
    <2>1. states[a] \in An!IPState
        BY DEF Typed, StatesOK, An!Flagged
    <2>2. \A t \in Times(states[a]) : t \in Nat
        BY <2>1, TimesFacts, ConstantFacts
    <2>3. ASSUME blocked'[a] \in {BlockTime, An!Forever}, NEW t \in Times(states[a])
          PROVE  blocked'[a] + t >= BlockTime
        BY <2>2, <2>3 DEF An!Forever, AnalyzerConstants
    <2> QED BY <1>1, <2>3 DEF FlagAge
<1>2. ASSUME NEW ip \in Addresses, NEW e \in An!Events, An!ProcessEvent(ip, e) PROVE FlagAge'
    BY <1>2, FlagProcess
<1>3. CASE An!Tick
    BY <1>3, FlagTick
<1>4. CASE An!Prune
    BY <1>4, FlagPrune
<1>5. CASE An!Restart
    <2>1. \A a \in Addresses : states'[a] = An!NoState
        BY <1>5 DEF An!Restart
    <2> QED BY <2>1 DEF FlagAge, An!Flagged
<1>6. CASE An!Remediate
    <2>1. task \in Decisions /\ task.pc = "act" /\ An!NoJob.pc # "act"
        BY <1>6 DEF An!Remediate, Typed, An!NoJob
    <2>2. blocked \in [Addresses -> 0 .. An!Forever]
        BY DEF Typed
    <2>3. CASE /\ IF task.action = "block"
                  THEN blocked' = [blocked EXCEPT ![task.ip] = BlockTime]
                  ELSE blocked' = blocked
               /\ task' = [task EXCEPT !.pc = "report"] /\ excused' = excused
        <3>1. task'.pc = "report"
            BY <2>1, <2>3 DEF Decisions
        <3>2. ASSUME NEW a \in Addresses, An!Flagged(a), Enforced(a)'
              PROVE  \/ Enforced(a) /\ blocked'[a] = blocked[a]
                     \/ blocked'[a] \in {BlockTime, An!Forever}
            <4>1. a \notin excused
                BY <2>3, <3>2 DEF Enforced
            <4>2. CASE task.ip = a
                <5>1. task.action = "block"
                    BY <2>1, <3>2, <4>2 DEF FlagAge
                <5> QED BY <2>2, <2>3, <4>2, <5>1
            <4>3. CASE task.ip # a
                <5>1. blocked'[a] = blocked[a]
                    BY <2>2, <2>3, <4>3
                <5> QED BY <4>1, <4>3, <5>1 DEF Enforced
            <4> QED BY <4>2, <4>3
        <3> QED BY <1>1, <1>6, <3>1, <3>2, StatesRest
    <2>4. CASE task' = An!NoJob /\ excused' = excused \cup {task.ip} /\ blocked' = blocked
        <3>1. ASSUME NEW a \in Addresses, Enforced(a)' PROVE Enforced(a)
            BY <2>4, <3>1 DEF Enforced
        <3> QED BY <1>1, <1>6, <2>1, <2>4, <3>1, StatesRest
    <2> QED BY <1>6, <2>3, <2>4 DEF An!Remediate, An!kernel
<1>7. CASE An!ReportBlockedIP \/ An!ReportBlockedIPWithContext
    <2>1. task.pc \in {"report", "context"} /\ UNCHANGED <<blocked, excused>>
        BY <1>7 DEF An!ReportBlockedIP, An!ReportBlockedIPWithContext, An!kernel, An!ghosts
    <2>2. task \in Decisions
        BY <2>1 DEF Typed, An!NoJob
    <2>3. task'.pc \in {"context", "idle"}
        BY <1>7, <2>2 DEF An!ReportBlockedIP, An!ReportBlockedIPWithContext, An!NoJob, Decisions
    <2>4. \A a : Enforced(a)' => Enforced(a)
        BY <2>1 DEF Enforced
    <2> QED BY <1>1, <1>7, <2>1, <2>3, <2>4, StatesRest
<1>8. ASSUME NEW ip \in Addresses, An!Unblock(ip) \/ An!Whitelist(ip) \/ An!Unlist(ip)
      PROVE  FlagAge'
    <2>1. blocked' = [blocked EXCEPT ![ip] = 0] /\ excused' = excused \cup {ip}
        BY <1>8 DEF An!Unblock, An!Whitelist, An!Unlist, An!Lift
    <2>2. task' = task \/ (task # An!NoJob /\ task' = [task EXCEPT !.late = TRUE])
        BY <1>8 DEF An!Unblock, An!Whitelist, An!Unlist, An!Overtaken
    <2>3. task'.pc = task.pc /\ task'.ip = task.ip /\ task'.action = task.action
        <3>1. CASE task' = task
            BY <3>1
        <3>2. CASE task # An!NoJob /\ task' = [task EXCEPT !.late = TRUE]
            BY <3>2 DEF Typed, Decisions
        <3> QED BY <2>2, <3>1, <3>2
    <2>4. blocked \in [Addresses -> 0 .. An!Forever]
        BY DEF Typed
    <2>5. ASSUME NEW a \in Addresses, Enforced(a)'
          PROVE  Enforced(a) /\ blocked'[a] = blocked[a]
        <3>1. a # ip /\ a \notin excused
            BY <2>1, <2>5 DEF Enforced
        <3> QED BY <2>1, <2>3, <2>4, <2>5, <3>1 DEF Enforced
    <2> QED BY <1>1, <1>8, <2>3, <2>5, StatesRest
<1>9. CASE An!Repair
    <2>1. /\ blocked' = blocked \/ blocked' = [blocked EXCEPT ![repair.ip] = An!Forever]
          /\ task' = task /\ excused' = excused
        BY <1>9 DEF An!Repair, An!ghosts
    <2>2. blocked \in [Addresses -> 0 .. An!Forever]
        BY DEF Typed
    <2>3. \A a \in Addresses : blocked'[a] = blocked[a] \/ blocked'[a] = An!Forever
        BY <2>1, <2>2
    <2>4. \A a : Enforced(a)' => Enforced(a)
        BY <2>1 DEF Enforced
    <2> QED BY <1>1, <1>9, <2>1, <2>3, <2>4, StatesRest
<1>10. CASE \/ An!ReportRepair \/ UNCHANGED An!vars
            \/ \E ip \in Addresses : An!Reconcile(ip) \/ An!UnblockMissed(ip)
    <2>1. UNCHANGED <<task, blocked, excused>>
        BY <1>10 DEF An!ReportRepair, An!Reconcile, An!UnblockMissed, An!kernel, An!ghosts, An!vars
    <2>2. \A a : Enforced(a)' => Enforced(a)
        BY <2>1 DEF Enforced
    <2> QED BY <1>1, <1>10, <2>1, <2>2, StatesRest
<1> QED BY <1>2, <1>3, <1>4, <1>5, <1>6, <1>7, <1>8, <1>9, <1>10 DEF An!Next

\* A flag in the memory of Evaluate is never older than the block in the kernel, unless
\* onBlock failed or the block was lifted: for any thresholds, any traffic, any size of the
\* LRU and any prunes, as long as a block outlives what prune lets pass.
THEOREM FlagIsBlock == ASSUME AnalyzerConstants PROVE An!Spec => []An!FlaggedIsBlocked
<1>1. An!Init => Typed /\ FlagAge
    <2> SUFFICES ASSUME An!Init PROVE FlagAge
        BY TypedInit
    <2> QED BY DEF An!Init, FlagAge, An!Flagged
<1>2. Typed /\ FlagAge => An!FlaggedIsBlocked
    <2> SUFFICES ASSUME Typed, FlagAge, NEW ip \in Addresses \ excused, An!Flagged(ip),
                        task.pc = "act" => task.ip # ip
                 PROVE  blocked[ip] > 0
        BY DEF An!FlaggedIsBlocked
    <2>1. PICK t \in Times(states[ip]) : t <= EvictAge + idle
        BY DEF FlagAge
    <2>2. t < An!Old => blocked[ip] + t >= BlockTime
        BY DEF FlagAge, Enforced
    <2>3. t \in Nat
        <3>1. states[ip] \in An!IPState
            BY DEF Typed, StatesOK, An!Flagged
        <3> QED BY <3>1, TimesFacts, ConstantFacts
    <2>4. idle \in 0 .. PruneEvery /\ blocked[ip] \in 0 .. An!Forever
        BY DEF Typed
    <2> QED BY <2>1, <2>2, <2>3, <2>4 DEF AnalyzerConstants, An!Old, An!Forever
<1> QED BY <1>1, <1>2, TypedStep, FlagStep, PTL DEF An!Spec

----------------------------------------------------------------------------
\* The ports that are counted for an address are those of services it has met.
Met ==
    /\ services \in [Addresses -> SUBSET An!Ports]
    /\ decided \in [Addresses -> SUBSET {"block", "limit"}]
    /\ \A ip \in Addresses :
          /\ IsFiniteSet(services[ip])
          /\ states[ip] # An!NoState => DOMAIN states[ip].ports \subseteq services[ip]

\* ProcessEvent: the port entered is the service met, and a limit takes more ports than the
\* threshold.
LEMMA MetProcess ==
    ASSUME AnalyzerConstants, HostPorts \cap Ephemeral = {}, Typed, Met, An!FewServicesNoScan,
           NEW ip \in Addresses, NEW e \in An!Events, An!ProcessEvent(ip, e)
    PROVE  Met' /\ An!FewServicesNoScan'
<1> DEFINE p == An!trackedPortForEvent(e)
<1>1. p \in An!Ports /\ p = An!ServiceOf(e)
    BY PortOfEvent
<1>2. services' = [services EXCEPT ![ip] = @ \cup {p}]
    BY <1>1 DEF An!ProcessEvent
<1> HIDE DEF p
<1>3. /\ services' \in [Addresses -> SUBSET An!Ports]
      /\ services'[ip] = services[ip] \cup {p}
      /\ \A a \in Addresses \ {ip} : services'[a] = services[a]
    BY <1>1, <1>2 DEF Met
<1>4. /\ \A a \in Addresses : IsFiniteSet(services'[a]) /\ Cardinality(services'[a]) \in Nat
      /\ Cardinality(services[ip]) <= Cardinality(services'[ip])
      /\ Cardinality(services[ip]) \in Nat
    <2>1. /\ IsFiniteSet(services[ip]) /\ IsFiniteSet(services'[ip])
          /\ services[ip] \subseteq services'[ip]
        BY <1>3, FS_AddElement DEF Met
    <2>2. Cardinality(services[ip]) <= Cardinality(services'[ip])
        BY <2>1, FS_Subset
    <2>3. \A a \in Addresses : IsFiniteSet(services'[a])
        BY <1>3, <2>1 DEF Met
    <2> QED BY <2>1, <2>2, <2>3, FS_CardinalityType
<1>5. DOMAIN An!StateOf(ip).ports \cup {p} \subseteq services'[ip]
    BY <1>3, NewStateFacts DEF Met, An!StateOf
<1>6. \A a \in Addresses : states'[a] # An!NoState => DOMAIN states'[a].ports \subseteq services'[a]
    <2>1. \A a \in Addresses \ {ip} : states'[a] \in {states[a], An!NoState}
        BY ProcessFacts
    <2>2. CASE states'[ip] = states[ip]
        BY <1>3, <2>1, <2>2 DEF Met
    <2>3. CASE DOMAIN states'[ip].ports \subseteq DOMAIN An!StateOf(ip).ports \cup {p}
        BY <1>3, <1>5, <2>1, <2>3 DEF Met
    <2>4. \/ states'[ip] = states[ip]
          \/ DOMAIN states'[ip].ports \subseteq DOMAIN An!StateOf(ip).ports \cup {p}
        BY ProcessFacts DEF p
    <2> QED BY <2>2, <2>3, <2>4
<1>7. \/ decided' = decided \/ decided' = [decided EXCEPT ![ip] = @ \cup {"block"}]
      \/ /\ decided' = [decided EXCEPT ![ip] = @ \cup {"limit"}]
         /\ \E P \in SUBSET (DOMAIN An!StateOf(ip).ports \cup {p}) :
               Cardinality(P) > PortScanThreshold
    BY ProcessFacts DEF p
<1>8. decided' \in [Addresses -> SUBSET {"block", "limit"}]
    BY <1>7 DEF Met
<1>9. ASSUME NEW a \in Addresses, Cardinality(services'[a]) <= PortScanThreshold,
             "limit" \in decided'[a]
      PROVE  FALSE
    <2>1. PortScanThreshold \in Nat /\ Cardinality(services'[a]) \in Nat
        BY <1>4 DEF AnalyzerConstants
    <2>2. Cardinality(services[a]) <= PortScanThreshold
        BY <1>3, <1>4, <1>9, <2>1
    <2>3. "limit" \notin decided[a]
        BY <2>2, SameSize DEF An!FewServicesNoScan
    <2>4. /\ a = ip
          /\ \E P \in SUBSET (DOMAIN An!StateOf(ip).ports \cup {p}) :
                Cardinality(P) > PortScanThreshold
        BY <1>7, <1>9, <2>3 DEF Met
    <2>5. PICK P \in SUBSET services'[ip] : Cardinality(P) > PortScanThreshold
        BY <1>5, <2>4
    <2>6. Cardinality(P) <= Cardinality(services'[ip]) /\ Cardinality(P) \in Nat
        BY <1>4, FS_Subset, FS_CardinalityType
    <2> QED BY <1>9, <2>1, <2>4, <2>5, <2>6
<1> QED BY <1>3, <1>4, <1>6, <1>8, <1>9, SameSize DEF Met, An!FewServicesNoScan

\* Nothing else enters a port, and time and prunes only remove some.
LEMMA MetStep ==
    ASSUME AnalyzerConstants, HostPorts \cap Ephemeral = {}
    PROVE  Typed /\ Met /\ An!FewServicesNoScan /\ [An!Next]_(An!vars)
               => Met' /\ An!FewServicesNoScan'
<1> SUFFICES ASSUME Typed, Met, An!FewServicesNoScan, [An!Next]_(An!vars)
             PROVE  Met' /\ An!FewServicesNoScan'
    OBVIOUS
<1>1. ASSUME services' = services, decided' = decided,
             \A ip \in Addresses :
                 states'[ip] # An!NoState => /\ states[ip] # An!NoState
                                         /\ DOMAIN states'[ip].ports = DOMAIN states[ip].ports
      PROVE  Met' /\ An!FewServicesNoScan'
    BY <1>1 DEF Met, An!FewServicesNoScan
<1>2. ASSUME NEW ip \in Addresses, NEW e \in An!Events, An!ProcessEvent(ip, e)
      PROVE  Met' /\ An!FewServicesNoScan'
    BY <1>2, MetProcess
<1>3. CASE An!Tick
    <2>1. services' = services /\ decided' = decided
        BY <1>3 DEF An!Tick
    <2>2. ASSUME NEW ip \in Addresses, states'[ip] # An!NoState
          PROVE  states[ip] # An!NoState /\ DOMAIN states'[ip].ports = DOMAIN states[ip].ports
        <3>1. states'[ip] = An!Aged(states[ip])
            BY <1>3 DEF An!Tick
        <3>2. states[ip] # An!NoState
            BY <2>2, <3>1 DEF An!Aged
        <3>3. states[ip] \in An!IPState
            BY <3>2 DEF Typed, StatesOK
        <3> QED BY <3>1, <3>2, <3>3, AgedFacts
    <2> QED BY <1>1, <2>1, <2>2
<1>4. CASE An!Prune \/ An!Restart
    <2>1. services' = services /\ decided' = decided
        BY <1>4 DEF An!Prune, An!Restart
    <2>2. \A ip \in Addresses : states'[ip] \in {states[ip], An!NoState}
        BY <1>4 DEF An!Prune, An!Restart
    <2> QED BY <1>1, <2>1, <2>2
<1>5. CASE \/ An!Remediate \/ An!ReportBlockedIP \/ An!ReportBlockedIPWithContext
           \/ An!Repair \/ An!ReportRepair \/ UNCHANGED An!vars
           \/ \E ip \in Addresses : \/ An!Unblock(ip) \/ An!Whitelist(ip) \/ An!Unlist(ip)
                                    \/ An!Reconcile(ip) \/ An!UnblockMissed(ip)
    BY <1>1, <1>5, StatesRest
<1> QED BY <1>2, <1>3, <1>4, <1>5 DEF An!Next

\* trackedPortForEvent counts services and not client ports: an address that has met the
\* host on no more services than PortScanThreshold is never limited as a scanner, whatever
\* ports either side uses, when no service of the host has an ephemeral port.
THEOREM FewServicesNeverScan ==
    ASSUME AnalyzerConstants, HostPorts \cap Ephemeral = {}
    PROVE  An!Spec => []An!FewServicesNoScan
<1>1. An!Init => Typed /\ Met /\ An!FewServicesNoScan
    <2> SUFFICES ASSUME An!Init PROVE Met /\ An!FewServicesNoScan
        BY TypedInit
    <2>1. /\ services = [ip \in Addresses |-> {}] /\ decided = [ip \in Addresses |-> {}]
          /\ \A ip \in Addresses : states[ip] = An!NoState
        BY DEF An!Init
    <2> QED BY <2>1, FS_EmptySet DEF Met, An!FewServicesNoScan
<1> QED BY <1>1, TypedStep, MetStep, PTL DEF An!Spec

----------------------------------------------------------------------------
\* A block that onBlock is making.
Repairs == [pc : {"act", "report"}, ip : Addresses, late : BOOLEAN]

\* A decision on an address that is whitelisted was made before it was.
Late ==
    /\ repair \in Repairs \cup {An!NoJob}
    /\ task # An!NoJob /\ task.ip \in whitelist => task.late = TRUE
    /\ repair # An!NoJob /\ repair.ip \in whitelist => repair.late = TRUE
    /\ whitelist \subseteq Addresses
    /\ limits \in [Addresses -> Nat]

\* What is enforced in a step on a whitelisted address is such a decision.
OnlyLate ==
    \A ip \in whitelist :
        blocked'[ip] > blocked[ip] \/ limits'[ip] > limits[ip] =>
            \E j \in {task, repair} : j # An!NoJob /\ j.ip = ip /\ j.late

\* A job that is over, or goes on as what it was.
Goes(j, k) == k = An!NoJob \/ (j # An!NoJob /\ k.ip = j.ip /\ k.late = j.late)

\* A whitelisted address has no decision but a late one, and only a decision of ProcessEvent
\* or of onBlock puts anything into the kernel.
LEMMA LateStep ==
    ASSUME AnalyzerConstants
    PROVE  Typed /\ Late /\ [An!Next]_(An!vars) => Late' /\ (OnlyLate \/ UNCHANGED An!vars)
<1> SUFFICES ASSUME Typed, Late, [An!Next]_(An!vars) PROVE Late' /\ (OnlyLate \/ UNCHANGED An!vars)
    OBVIOUS
<1>1. /\ blocked \in [Addresses -> 0 .. An!Forever] /\ An!Forever \in Nat
      /\ whitelist \subseteq Addresses /\ limits \in [Addresses -> Nat]
      /\ task \in Decisions \cup {An!NoJob} /\ repair \in Repairs \cup {An!NoJob}
    BY ConstantFacts DEF Typed, Late
<1>2. blocked' = blocked /\ limits' = limits => OnlyLate
    <2>1. \A ip \in Addresses : blocked[ip] \in Nat /\ limits[ip] \in Nat
        BY <1>1
    <2> QED BY <1>1, <2>1 DEF OnlyLate
<1>3. ASSUME whitelist' \subseteq whitelist, limits' \in [Addresses -> Nat],
             Goes(task, task'), Goes(repair, repair'), repair' \in Repairs \cup {An!NoJob}
      PROVE  Late'
    <2>1. task' # An!NoJob /\ task'.ip \in whitelist' => task'.late = TRUE
        BY <1>3 DEF Late, Goes
    <2>2. repair' # An!NoJob /\ repair'.ip \in whitelist' => repair'.late = TRUE
        BY <1>3 DEF Late, Goes
    <2> QED BY <1>1, <1>3, <2>1, <2>2 DEF Late
<1>4. /\ task' = task => Goes(task, task')
      /\ repair' = repair => Goes(repair, repair')
    BY DEF Goes
<1>5. ASSUME NEW ip \in Addresses, NEW e \in An!Events, An!ProcessEvent(ip, e)
      PROVE  Late' /\ OnlyLate
    <2>1. UNCHANGED <<blocked, limits, whitelist, repair>> /\ task = An!NoJob
        BY <1>5 DEF An!ProcessEvent, An!kernel
    <2>2. ip \in whitelist => task' = An!NoJob
        BY <1>5, <2>1 DEF An!ProcessEvent, An!isWhitelistedIP
    <2>3. task' \in {An!NoJob, An!Decision(ip, "block"), An!Decision(ip, "limit")}
        BY <1>5, ProcessFacts
    <2>4. \A action : An!Decision(ip, action).ip = ip
        BY DEF An!Decision
    <2> QED BY <1>1, <1>2, <2>1, <2>2, <2>3, <2>4 DEF Late
<1>6. CASE An!Remediate
    <2>1. task \in Decisions /\ task # An!NoJob /\ whitelist' = whitelist /\ repair' = repair
        BY <1>1, <1>6 DEF An!Remediate, An!NoJob
    <2>2. CASE task' = An!NoJob /\ UNCHANGED <<blocked, limits>>
        BY <1>1, <1>2, <1>3, <1>4, <2>1, <2>2 DEF Goes
    <2>3. CASE /\ task' = [task EXCEPT !.pc = "report"]
               /\ \/ blocked' = [blocked EXCEPT ![task.ip] = BlockTime] /\ limits' = limits
                  \/ limits' = [limits EXCEPT ![task.ip] = LimitTime] /\ blocked' = blocked
        <3>1. Goes(task, task')
            BY <2>1, <2>3 DEF Decisions, An!NoJob, Goes
        <3>2. limits' \in [Addresses -> Nat]
            BY <1>1, <2>3 DEF AnalyzerConstants
        <3>3. Late'
            BY <1>1, <1>3, <1>4, <2>1, <3>1, <3>2
        <3>4. ASSUME NEW ip \in whitelist, task.ip # ip
              PROVE  ~(blocked'[ip] > blocked[ip]) /\ ~(limits'[ip] > limits[ip])
            <4>1. blocked'[ip] = blocked[ip] /\ limits'[ip] = limits[ip]
                BY <1>1, <2>3, <3>4
            <4>2. blocked[ip] \in Nat /\ limits[ip] \in Nat
                BY <1>1
            <4> QED BY <4>1, <4>2
        <3>5. OnlyLate
            BY <2>1, <3>4 DEF OnlyLate, Late
        <3> QED BY <3>3, <3>5
    <2> QED BY <1>6, <2>2, <2>3 DEF An!Remediate, An!kernel
<1>7. CASE An!ReportBlockedIP \/ An!ReportBlockedIPWithContext \/ An!ReportRepair
    <2>1. UNCHANGED <<blocked, limits, whitelist>>
        BY <1>7
        DEF An!ReportBlockedIP, An!ReportBlockedIPWithContext, An!ReportRepair, An!kernel
    <2>2. \/ task' \in {task, An!NoJob}
          \/ task.pc = "report" /\ task' = [task EXCEPT !.pc = "context"]
        BY <1>7 DEF An!ReportBlockedIP, An!ReportBlockedIPWithContext, An!ReportRepair
    <2>3. task.pc = "report" => task \in Decisions /\ task # An!NoJob
        BY <1>1 DEF An!NoJob
    <2>4. Goes(task, task')
        BY <1>4, <2>2, <2>3 DEF Decisions, Goes
    <2>5. repair' \in {repair, An!NoJob}
        BY <1>7 DEF An!ReportBlockedIP, An!ReportBlockedIPWithContext, An!ReportRepair
    <2>6. Goes(repair, repair') /\ repair' \in Repairs \cup {An!NoJob}
        BY <1>1, <1>4, <2>5 DEF Goes
    <2> QED BY <1>1, <1>2, <1>3, <2>1, <2>4, <2>6
<1>8. CASE An!Tick
    <2>1. /\ task' = task /\ repair' = repair /\ whitelist' = whitelist
          /\ blocked' = [ip \in Addresses |-> An!Remaining(blocked[ip])]
          /\ limits' = [ip \in Addresses |-> An!Remaining(limits[ip])]
        BY <1>8 DEF An!Tick
    <2>2. \A d \in Nat : An!Remaining(d) \in Nat /\ ~(An!Remaining(d) > d)
        BY <1>1 DEF An!Remaining
    <2>3. \A ip \in Addresses : blocked[ip] \in Nat /\ limits[ip] \in Nat
        BY <1>1
    <2>4. limits' \in [Addresses -> Nat]
        BY <2>1, <2>2, <2>3
    <2>5. OnlyLate
        BY <1>1, <2>1, <2>2, <2>3 DEF OnlyLate
    <2>6. Late'
        BY <1>1, <1>3, <1>4, <2>1, <2>4
    <2> QED BY <2>5, <2>6
<1>9. ASSUME NEW ip \in Addresses, An!Unblock(ip) \/ An!Whitelist(ip) \/ An!Unlist(ip)
      PROVE  Late' /\ OnlyLate
    <2>1. /\ blocked' = [blocked EXCEPT ![ip] = 0]
          /\ limits' = [limits EXCEPT ![ip] = 0]
        BY <1>9 DEF An!Unblock, An!Whitelist, An!Unlist, An!Lift
    <2>2. OnlyLate
        <3>1. \A a \in Addresses : /\ blocked[a] \in Nat /\ blocked'[a] \in {blocked[a], 0}
                                   /\ limits[a] \in Nat /\ limits'[a] \in {limits[a], 0}
            BY <1>1, <2>1
        <3>2. \A a \in Addresses : ~(blocked'[a] > blocked[a]) /\ ~(limits'[a] > limits[a])
            BY <3>1
        <3> QED BY <1>1, <3>2 DEF OnlyLate
    <2>3. limits' \in [Addresses -> Nat]
        BY <1>1, <2>1
    <2>4. CASE whitelist' \subseteq whitelist /\ task' = task /\ repair' = repair
        BY <1>1, <1>3, <1>4, <2>2, <2>3, <2>4
    <2>5. CASE An!Whitelist(ip)
        <3>1. /\ whitelist' = whitelist \cup {ip}
              /\ task' = An!Overtaken(ip, task) /\ repair' = An!Overtaken(ip, repair)
            BY <2>5 DEF An!Whitelist, An!SetWhitelistIP
        <3>2. ASSUME NEW j \in Decisions \cup Repairs \cup {An!NoJob},
                     j # An!NoJob /\ j.ip \in whitelist => j.late = TRUE,
                     An!Overtaken(ip, j) # An!NoJob, An!Overtaken(ip, j).ip \in whitelist'
              PROVE  An!Overtaken(ip, j).late = TRUE
            <4>1. CASE j # An!NoJob /\ j.ip = ip
                BY <4>1 DEF An!Overtaken, Decisions, Repairs
            <4>2. CASE ~(j # An!NoJob /\ j.ip = ip)
                BY <3>1, <3>2, <4>2 DEF An!Overtaken
            <4> QED BY <4>1, <4>2
        <3>3. /\ task' # An!NoJob /\ task'.ip \in whitelist' => task'.late = TRUE
              /\ repair' # An!NoJob /\ repair'.ip \in whitelist' => repair'.late = TRUE
            BY <1>1, <3>1, <3>2 DEF Late
        <3>4. repair' \in Repairs \cup {An!NoJob}
            BY <1>1, <3>1 DEF An!Overtaken, Repairs
        <3>5. whitelist' \subseteq Addresses
            BY <1>1, <3>1
        <3> QED BY <2>2, <2>3, <3>3, <3>4, <3>5 DEF Late
    <2>6. An!Unblock(ip) \/ An!Unlist(ip) =>
              whitelist' \subseteq whitelist /\ task' = task /\ repair' = repair
        BY DEF An!Unblock, An!Unlist, An!SetWhitelistIP
    <2> QED BY <1>9, <2>2, <2>4, <2>5, <2>6
<1>10. ASSUME NEW ip \in Addresses, An!Reconcile(ip) PROVE Late' /\ OnlyLate
    <2>1. /\ repair' = [pc |-> "act", ip |-> ip, late |-> FALSE] /\ ip \notin whitelist
          /\ UNCHANGED <<task, blocked, limits, whitelist>>
        BY <1>10 DEF An!Reconcile, An!isWhitelistedIP, An!kernel
    <2>2. repair' \in Repairs /\ repair'.ip \notin whitelist'
        BY <2>1 DEF Repairs
    <2> QED BY <1>2, <2>1, <2>2 DEF Late
<1>11. CASE An!Repair
    <2>1. /\ repair \in Repairs /\ repair # An!NoJob
          /\ UNCHANGED <<task, limits, whitelist>>
        BY <1>1, <1>11 DEF An!Repair, An!NoJob
    <2>2. /\ blocked' = blocked \/ blocked' = [blocked EXCEPT ![repair.ip] = An!Forever]
          /\ repair' \in {An!NoJob, [repair EXCEPT !.pc = "report"]}
        BY <1>11 DEF An!Repair
    <2>3. Goes(repair, repair') /\ repair' \in Repairs \cup {An!NoJob}
        BY <2>1, <2>2 DEF Goes, Repairs
    <2>4. Late'
        BY <1>1, <1>3, <1>4, <2>1, <2>3
    <2>5. ASSUME NEW ip \in whitelist, repair.ip # ip
          PROVE  ~(blocked'[ip] > blocked[ip]) /\ ~(limits'[ip] > limits[ip])
        <3>1. blocked'[ip] = blocked[ip] /\ limits'[ip] = limits[ip]
            BY <1>1, <2>1, <2>2, <2>5
        <3>2. blocked[ip] \in Nat /\ limits[ip] \in Nat
            BY <1>1
        <3> QED BY <3>1, <3>2
    <2>6. OnlyLate
        BY <2>1, <2>5 DEF OnlyLate, Late
    <2> QED BY <2>4, <2>6
<1>12. CASE An!Restart
    <2>1. /\ task' = An!NoJob /\ repair' = An!NoJob /\ whitelist' = {}
          /\ blocked' = blocked /\ limits' = limits
        BY <1>12 DEF An!Restart
    <2> QED BY <1>2, <2>1 DEF Late
<1>13. CASE An!Prune \/ UNCHANGED An!vars \/ \E ip \in Addresses : An!UnblockMissed(ip)
    <2>1. UNCHANGED <<task, repair, blocked, limits, whitelist>>
        BY <1>13 DEF An!Prune, An!UnblockMissed, An!kernel, An!vars
    <2> QED BY <1>2, <2>1 DEF Late
<1> QED
    BY <1>5, <1>6, <1>7, <1>8, <1>9, <1>10, <1>11, <1>12, <1>13 DEF An!Next

\* ProcessEvent and onBlock ask the whitelist before they act, and hold no lock until they
\* do: nothing is enforced on a whitelisted address but what one of them had decided, for
\* that address, before it was listed.
THEOREM WhitelistIsHeld == ASSUME AnalyzerConstants PROVE An!Spec => An!WhitelistHolds
<1>1. An!Init => Typed /\ Late
    <2> SUFFICES ASSUME An!Init PROVE Late
        BY TypedInit
    <2>1. /\ task = An!NoJob /\ repair = An!NoJob /\ whitelist = {}
          /\ limits = [ip \in Addresses |-> 0]
        BY DEF An!Init
    <2> QED BY <2>1 DEF Late
<1>2. Typed /\ Late /\ [An!Next]_(An!vars) => [OnlyLate]_(An!vars)
    BY LateStep
<1> QED BY <1>1, <1>2, TypedStep, LateStep, PTL DEF An!Spec, An!WhitelistHolds, OnlyLate

----------------------------------------------------------------------------
\* The slot of the ring that holds the i-th youngest connection.
Ring == SynFloodThreshold + 1
Back(idx, i) == IF idx - i >= 1 THEN idx - i ELSE idx - i + Ring

\* The ring holds the youngest of the connections accepted, each in its slot.
Mirrors(s, acc) ==
    \A i \in An!RingSlots :
        s.syns[Back(s.synIdx, i)] = IF i <= Len(acc) THEN acc[i] ELSE An!None

Ordered(acc) == \A i, j \in 1 .. Len(acc) : i <= j => acc[i] <= acc[j]

\* What a flood is, said of the connections alone.
Flooded(acc) == Ring <= Len(acc) /\ acc[Ring] < SynFloodWindow

RecalledAt(s, acc) ==
    /\ acc \in Seq(An!Ages) /\ Ordered(acc)
    /\ s = An!NoState => acc = <<>>
    /\ s # An!NoState /\ ~s.blocked => Mirrors(s, acc) /\ ~Flooded(acc)

Recalled == \A ip \in Addresses : RecalledAt(states[ip], accepts[ip])

\* A step that leads from old to new flags an address as FloodIsFlagged has it.
FlagsIn(old, new, acc) ==
    new # An!NoState /\ new.blocked <=> \/ new # An!NoState /\ old # An!NoState /\ old.blocked
                                        \/ Flooded(acc)

\* The ring has one slot more than the threshold.
LEMMA RingFacts ==
    ASSUME AnalyzerConstants
    PROVE  /\ Ring \in Nat /\ Ring > 1 /\ An!RingSlots = 1 .. Ring
           /\ IsFiniteSet(An!RingSlots) /\ Cardinality(An!RingSlots) = Ring
           /\ SynFloodThreshold \in Nat /\ Ring = SynFloodThreshold + 1
           /\ SynFloodWindow \in Nat
BY ConstantFacts, FS_Interval DEF AnalyzerConstants, Ring, An!RingSlots

\* Counting back from the next slot visits every slot once, and that slot last.
LEMMA BackFacts ==
    ASSUME AnalyzerConstants, NEW idx \in An!RingSlots
    PROVE  /\ \A i \in An!RingSlots : Back(idx, i) \in An!RingSlots
           /\ \A k \in An!RingSlots : \E i \in An!RingSlots : Back(idx, i) = k
           /\ Back(idx, Ring) = idx
           /\ \A i \in An!RingSlots : i # Ring => Back(idx, i) # idx
<1>1. Ring \in Nat /\ Ring > 1 /\ An!RingSlots = 1 .. Ring /\ idx \in 1 .. Ring
    BY RingFacts
<1>2. \A i \in 1 .. Ring : Back(idx, i) \in 1 .. Ring
    BY <1>1 DEF Back
<1>3. \A k \in 1 .. Ring : Back(idx, k) \in 1 .. Ring /\ Back(idx, Back(idx, k)) = k
    BY <1>1 DEF Back
<1>4. Back(idx, Ring) = idx /\ \A i \in 1 .. Ring : i # Ring => Back(idx, i) # idx
    BY <1>1 DEF Back
<1> QED BY <1>1, <1>2, <1>3, <1>4

\* More than SynFloodThreshold connections in one window are seen in the oldest of them.
LEMMA FloodOfAccepts ==
    ASSUME AnalyzerConstants, NEW acc \in Seq(An!Ages), Ordered(acc)
    PROVE  Cardinality({i \in DOMAIN acc : acc[i] < SynFloodWindow}) > SynFloodThreshold
               <=> Flooded(acc)
<1> DEFINE S == {i \in DOMAIN acc : acc[i] < SynFloodWindow}
<1>1. /\ DOMAIN acc = 1 .. Len(acc) /\ Len(acc) \in Nat
      /\ \A i \in 1 .. Len(acc) : acc[i] \in Nat
    BY ConstantFacts
<1>2. Ring \in Nat /\ Ring > 1 /\ SynFloodThreshold \in Nat /\ Ring = SynFloodThreshold + 1
      /\ SynFloodWindow \in Nat
    BY RingFacts
<1>3. IsFiniteSet(S) /\ Cardinality(S) \in Nat
    <2>1. IsFiniteSet(1 .. Len(acc)) /\ S \subseteq 1 .. Len(acc)
        BY <1>1, FS_Interval
    <2> QED BY <2>1, FS_Subset, FS_CardinalityType
<1>4. ASSUME Flooded(acc) PROVE Cardinality(S) > SynFloodThreshold
    <2>1. \A i \in 1 .. Ring : i \in 1 .. Len(acc) /\ acc[i] <= acc[Ring]
        BY <1>1, <1>2, <1>4 DEF Flooded, Ordered
    <2>2. 1 .. Ring \subseteq S
        BY <1>1, <1>2, <1>4, <2>1 DEF Flooded
    <2>3. Cardinality(1 .. Ring) = Ring
        BY <1>2, FS_Interval
    <2> QED BY <1>2, <1>3, <2>2, <2>3, FS_Subset
<1>5. ASSUME ~Flooded(acc) PROVE ~(Cardinality(S) > SynFloodThreshold)
    <2>1. S \subseteq 1 .. SynFloodThreshold
        <3> SUFFICES ASSUME NEW i \in S, i >= Ring PROVE FALSE
            BY <1>1, <1>2
        <3>1. i \in 1 .. Len(acc) /\ Ring \in 1 .. Len(acc) /\ acc[i] < SynFloodWindow
            BY <1>1, <1>2
        <3>2. acc[Ring] <= acc[i]
            BY <1>1, <1>2, <3>1 DEF Ordered
        <3> QED BY <1>1, <1>2, <1>5, <3>1, <3>2 DEF Flooded
    <2>2. IsFiniteSet(1 .. SynFloodThreshold)
          /\ Cardinality(1 .. SynFloodThreshold) = SynFloodThreshold
        BY <1>2, FS_Interval
    <2> QED BY <1>2, <1>3, <2>1, <2>2, FS_Subset
<1> QED BY <1>4, <1>5

\* The ring sees no more and no less.
LEMMA FloodOfRing ==
    ASSUME AnalyzerConstants, NEW s \in An!IPState, NEW acc \in Seq(An!Ages), Ordered(acc),
           Mirrors(s, acc)
    PROVE  An!SynsInWindow(s.syns) > SynFloodThreshold <=> Flooded(acc)
<1> DEFINE S == {i \in An!RingSlots : s.syns[i] \in 0 .. SynFloodWindow - 1}
<1>1. s.syns \in [An!RingSlots -> An!Ages \cup {An!None}] /\ s.synIdx \in An!RingSlots
    <2>1. s \in StateRecords
        BY StateIs
    <2> QED BY <2>1 DEF StateRecords
<1>2. An!SynsInWindow(s.syns) = Cardinality(S)
    BY <1>1, SameSize DEF An!SynsInWindow
<1>3. /\ Ring \in Nat /\ Ring > 1 /\ An!RingSlots = 1 .. Ring /\ IsFiniteSet(An!RingSlots)
      /\ Cardinality(An!RingSlots) = Ring /\ Ring = SynFloodThreshold + 1
      /\ SynFloodThreshold \in Nat /\ SynFloodWindow \in Nat
    BY RingFacts
<1>4. Cardinality(S) > SynFloodThreshold <=> S = An!RingSlots
    <2>1. IsFiniteSet(S) /\ Cardinality(S) \in Nat /\ Cardinality(S) <= Ring
          /\ (Cardinality(S) = Ring => S = An!RingSlots)
        BY <1>3, FS_Subset, FS_CardinalityType
    <2>2. S = An!RingSlots => Cardinality(S) = Ring
        <3> HIDE DEF S
        <3> QED BY <1>3
    <2> HIDE DEF S
    <2> QED BY <1>3, <2>1, <2>2
<1>5. /\ Len(acc) \in Nat /\ \A i \in 1 .. Len(acc) : acc[i] \in Nat
    BY ConstantFacts
<1>6. ASSUME Flooded(acc), NEW k \in An!RingSlots PROVE s.syns[k] \in 0 .. SynFloodWindow - 1
    <2>1. PICK i \in An!RingSlots : Back(s.synIdx, i) = k
        BY <1>1, BackFacts
    <2>2. i \in 1 .. Len(acc) /\ Ring \in 1 .. Len(acc) /\ i <= Ring
        BY <1>3, <1>5, <1>6 DEF Flooded
    <2>3. s.syns[k] = acc[i]
        BY <2>1, <2>2 DEF Mirrors
    <2>4. acc[i] <= acc[Ring]
        BY <2>2 DEF Ordered
    <2> QED BY <1>3, <1>5, <1>6, <2>2, <2>3, <2>4 DEF Flooded
<1>7. ASSUME S = An!RingSlots PROVE Flooded(acc)
    <2>1. Ring \in An!RingSlots /\ Back(s.synIdx, Ring) \in An!RingSlots
        <3>1. Ring \in An!RingSlots
            BY <1>3
        <3> QED BY <1>1, <3>1, BackFacts
    <2>2. s.syns[Back(s.synIdx, Ring)] \in 0 .. SynFloodWindow - 1
        BY <1>7, <2>1
    <2>3. s.syns[Back(s.synIdx, Ring)] = IF Ring <= Len(acc) THEN acc[Ring] ELSE An!None
        BY <2>1 DEF Mirrors
    <2>4. An!None \notin 0 .. SynFloodWindow - 1
        BY <1>3 DEF An!None
    <2>5. Ring <= Len(acc) /\ acc[Ring] \in 0 .. SynFloodWindow - 1
        BY <2>2, <2>3, <2>4
    <2> QED BY <1>3, <2>5 DEF Flooded
<1> QED BY <1>2, <1>4, <1>6, <1>7

\* Accepting a connection moves every other one a slot back, and the oldest out.
LEMMA MirrorsAdd ==
    ASSUME AnalyzerConstants, NEW s \in An!IPState, NEW acc \in Seq(An!Ages), Mirrors(s, acc)
    PROVE  Mirrors(An!AddSyn(s), <<0>> \o acc)
<1> DEFINE s1 == An!AddSyn(s)
           new == <<0>> \o acc
           next == IF s.synIdx = Ring THEN 1 ELSE s.synIdx + 1
<1>1. s.syns \in [An!RingSlots -> An!Ages \cup {An!None}] /\ s.synIdx \in An!RingSlots
      /\ DOMAIN s = {"tracked", "syns", "synIdx", "ports", "blocked", "lastLimited"}
    <2>1. s \in StateRecords
        BY StateIs
    <2> QED BY <2>1 DEF StateRecords
<1>2. Ring \in Nat /\ Ring > 1 /\ An!RingSlots = 1 .. Ring /\ Cardinality(An!RingSlots) = Ring
    BY RingFacts
<1>3. s1.syns = [s.syns EXCEPT ![s.synIdx] = 0] /\ s1.synIdx = next
    <2>1. s \in StateRecords
        BY StateIs
    <2> QED BY <1>2, <2>1, SameSize DEF An!AddSyn, StateRecords
<1> HIDE DEF s1
<1>4. /\ Len(acc) \in Nat /\ Len(new) = Len(acc) + 1 /\ new[1] = 0
      /\ \A i \in 2 .. Len(acc) + 1 : new[i] = acc[i - 1]
    OBVIOUS
<1> HIDE DEF new
<1>5. \A i \in 1 .. Ring : /\ i = 1 => Back(next, i) = s.synIdx
                           /\ i # 1 => /\ i - 1 \in 1 .. Ring /\ i - 1 # Ring
                                       /\ Back(next, i) = Back(s.synIdx, i - 1)
    BY <1>1, <1>2 DEF Back
<1> HIDE DEF next
<1> SUFFICES ASSUME NEW i \in An!RingSlots
             PROVE  s1.syns[Back(next, i)] = IF i <= Len(new) THEN new[i] ELSE An!None
    BY <1>3 DEF Mirrors, s1, new
<1>6. CASE i = 1
    BY <1>1, <1>2, <1>3, <1>4, <1>5, <1>6
<1>7. CASE i # 1
    <2>1. /\ i - 1 \in An!RingSlots /\ Back(s.synIdx, i - 1) \in An!RingSlots
          /\ Back(next, i) = Back(s.synIdx, i - 1) /\ Back(next, i) # s.synIdx
        <3>1. /\ i - 1 \in An!RingSlots /\ i - 1 # Ring
              /\ Back(next, i) = Back(s.synIdx, i - 1)
            BY <1>2, <1>5, <1>7
        <3> QED BY <1>1, <3>1, BackFacts
    <2>2. s1.syns[Back(next, i)] = s.syns[Back(s.synIdx, i - 1)]
        BY <1>1, <1>3, <2>1
    <2>3. s1.syns[Back(next, i)] = IF i - 1 <= Len(acc) THEN acc[i - 1] ELSE An!None
        BY <2>1, <2>2 DEF Mirrors
    <2>4. i - 1 <= Len(acc) <=> i <= Len(new)
        BY <1>2, <1>4
    <2>5. i <= Len(new) => i \in 2 .. Len(acc) + 1
        BY <1>2, <1>4, <1>7
    <2> QED BY <1>4, <2>3, <2>4, <2>5
<1> QED BY <1>6, <1>7

\* The youngest goes first.
LEMMA OrderedAdd ==
    ASSUME AnalyzerConstants, NEW acc \in Seq(An!Ages), Ordered(acc)
    PROVE  <<0>> \o acc \in Seq(An!Ages) /\ Ordered(<<0>> \o acc)
<1> DEFINE new == <<0>> \o acc
<1>1. 0 \in An!Ages /\ \A i \in 1 .. Len(acc) : acc[i] \in Nat
    BY ConstantFacts
<1>2. /\ Len(acc) \in Nat /\ Len(new) = Len(acc) + 1 /\ new[1] = 0
      /\ \A i \in 2 .. Len(acc) + 1 : new[i] = acc[i - 1]
    OBVIOUS
<1>3. new \in Seq(An!Ages)
    BY <1>1
<1> HIDE DEF new
<1>4. ASSUME NEW i \in 1 .. Len(new), NEW j \in 1 .. Len(new), i <= j PROVE new[i] <= new[j]
    <2>1. CASE j = 1
        BY <1>2, <1>4, <2>1
    <2>2. CASE j # 1 /\ i = 1
        BY <1>1, <1>2, <2>2
    <2>3. CASE i # 1
        <3>1. i - 1 \in 1 .. Len(acc) /\ j - 1 \in 1 .. Len(acc) /\ i - 1 <= j - 1
            BY <1>2, <1>4, <2>3
        <3>2. acc[i - 1] <= acc[j - 1]
            BY <3>1 DEF Ordered
        <3> QED BY <1>2, <1>4, <2>3, <3>2
    <2> QED BY <2>1, <2>2, <2>3
<1>5. Ordered(new)
    BY <1>4 DEF Ordered
<1> QED BY <1>3, <1>5 DEF new

\* Time keeps the order, and lets no window fill up.
LEMMA RecalledOlder ==
    ASSUME AnalyzerConstants, NEW acc \in Seq(An!Ages), Ordered(acc)
    PROVE  LET old == [i \in DOMAIN acc |-> An!Older(acc[i])]
           IN  /\ old \in Seq(An!Ages) /\ Ordered(old)
               /\ Flooded(old) => Flooded(acc)
               /\ \A s \in An!IPState : Mirrors(s, acc) => Mirrors(An!Aged(s), old)
<1> DEFINE old == [i \in DOMAIN acc |-> An!Older(acc[i])]
<1>1. /\ Len(acc) \in Nat /\ DOMAIN acc = 1 .. Len(acc)
      /\ \A i \in 1 .. Len(acc) : acc[i] \in An!Ages
    OBVIOUS
<1>2. /\ An!Old \in Nat /\ An!Ages \subseteq Nat
      /\ \A t \in An!Ages : An!Older(t) \in An!Ages /\ t <= An!Older(t)
      /\ \A t, u \in An!Ages : t <= u => An!Older(t) <= An!Older(u)
    <2>1. An!Old \in Nat /\ An!Ages = 0 .. An!Old /\ \A t \in An!Ages : An!Older(t) \in An!Ages
        BY ConstantFacts DEF An!Ages
    <2>2. \A t \in An!Ages : An!Older(t) = IF t = An!Old THEN t ELSE t + 1
        BY <2>1 DEF An!Older, An!None
    <2>3. ASSUME NEW t \in An!Ages, NEW u \in An!Ages
          PROVE  t <= An!Older(t) /\ (t <= u => An!Older(t) <= An!Older(u))
        <3>1. t \in 0 .. An!Old /\ u \in 0 .. An!Old
            BY <2>1
        <3>2. /\ An!Older(t) = IF t = An!Old THEN t ELSE t + 1
              /\ An!Older(u) = IF u = An!Old THEN u ELSE u + 1
            BY <2>2
        <3> QED BY <2>1, <3>1, <3>2
    <2> QED BY <2>1, <2>3
<1>3. /\ DOMAIN old = 1 .. Len(acc)
      /\ \A i \in 1 .. Len(acc) : old[i] = An!Older(acc[i])
    BY <1>1
<1>4. old \in Seq(An!Ages) /\ Len(old) = Len(acc)
    <2>1. old \in [1 .. Len(acc) -> An!Ages]
        BY <1>1, <1>2
    <2> HIDE DEF old
    <2> QED BY <1>1, <2>1
<1> HIDE DEF old
<1>5. Ordered(old)
    BY <1>1, <1>2, <1>3, <1>4 DEF Ordered
<1>6. Flooded(old) => Flooded(acc)
    <2> SUFFICES ASSUME Flooded(old) PROVE Flooded(acc)
        OBVIOUS
    <2>1. Ring \in 1 .. Len(acc) /\ SynFloodWindow \in Nat
        BY <1>1, <1>4, RingFacts DEF Flooded
    <2>2. acc[Ring] <= old[Ring] /\ acc[Ring] \in Nat /\ old[Ring] \in Nat
        BY <1>1, <1>2, <1>3, <2>1
    <2> QED BY <1>4, <2>1, <2>2 DEF Flooded
<1>7. ASSUME NEW s \in An!IPState, Mirrors(s, acc) PROVE Mirrors(An!Aged(s), old)
    <2>1. s.synIdx \in An!RingSlots /\ An!Aged(s).synIdx = s.synIdx
          /\ An!Aged(s).syns = [i \in An!RingSlots |-> An!Older(s.syns[i])]
        <3>1. s \in StateRecords /\ s # An!NoState
            BY StateIs, NoStateIsNone
        <3> QED BY <3>1, AgedFacts DEF An!Aged, StateRecords
    <2>2. An!Older(An!None) = An!None
        BY DEF An!Older
    <2> SUFFICES ASSUME NEW i \in An!RingSlots
                 PROVE  An!Aged(s).syns[Back(s.synIdx, i)] =
                            IF i <= Len(old) THEN old[i] ELSE An!None
        BY <2>1 DEF Mirrors
    <2>3. An!Aged(s).syns[Back(s.synIdx, i)] = An!Older(IF i <= Len(acc) THEN acc[i] ELSE An!None)
        <3>1. Back(s.synIdx, i) \in An!RingSlots
            BY <2>1, BackFacts
        <3>2. An!Aged(s).syns[Back(s.synIdx, i)] = An!Older(s.syns[Back(s.synIdx, i)])
            BY <2>1, <3>1
        <3> QED BY <1>7, <3>2 DEF Mirrors
    <2>4. i <= Len(acc) => i \in 1 .. Len(acc)
        BY <1>1, RingFacts
    <2> QED BY <1>3, <1>4, <2>2, <2>3, <2>4
<1> QED BY <1>4, <1>5, <1>6, <1>7 DEF old

\* A step that leaves an address alone.
LEMMA FlagsKept ==
    ASSUME AnalyzerConstants, NEW s, NEW acc, RecalledAt(s, acc)
    PROVE  FlagsIn(s, s, acc)
<1>1. ~Flooded(<<>>)
    BY RingFacts DEF Flooded
<1> QED BY <1>1 DEF RecalledAt, FlagsIn

\* A step that forgets the state of an address: prune, restart or the LRU.
LEMMA FlagsGone ==
    ASSUME AnalyzerConstants, NEW s
    PROVE  RecalledAt(An!NoState, <<>>) /\ FlagsIn(s, An!NoState, <<>>)
<1>1. ~Flooded(<<>>)
    BY RingFacts DEF Flooded
<1>2. <<>> \in Seq(An!Ages) /\ Ordered(<<>>)
    BY DEF Ordered
<1> QED BY <1>1, <1>2 DEF RecalledAt, FlagsIn

\* Time.
LEMMA FlagsAged ==
    ASSUME AnalyzerConstants, NEW s \in An!IPState \cup {An!NoState}, NEW acc, RecalledAt(s, acc)
    PROVE  LET old == [i \in DOMAIN acc |-> An!Older(acc[i])]
           IN  RecalledAt(An!Aged(s), old) /\ FlagsIn(s, An!Aged(s), old)
<1> DEFINE old == [i \in DOMAIN acc |-> An!Older(acc[i])]
<1>1. acc \in Seq(An!Ages) /\ Ordered(acc)
    BY DEF RecalledAt
<1>2. CASE s = An!NoState
    <2>1. An!Aged(s) = An!NoState /\ acc = <<>>
        BY <1>2 DEF An!Aged, RecalledAt
    <2>2. old = <<>>
        BY <2>1
    <2> HIDE DEF old
    <2> QED BY <2>1, <2>2, FlagsGone DEF old
<1>3. CASE s \in An!IPState
    <2>1. /\ old \in Seq(An!Ages) /\ Ordered(old) /\ (Flooded(old) => Flooded(acc))
          /\ Mirrors(s, acc) => Mirrors(An!Aged(s), old)
        BY <1>1, <1>3, RecalledOlder
    <2> HIDE DEF old
    <2>2. An!Aged(s) # An!NoState /\ s # An!NoState /\ An!Aged(s).blocked = s.blocked
        BY <1>3, AgedFacts, NoStateIsNone
    <2>3. RecalledAt(An!Aged(s), old)
        BY <2>1, <2>2 DEF RecalledAt
    <2>4. FlagsIn(s, An!Aged(s), old)
        BY <2>1, <2>2 DEF RecalledAt, FlagsIn
    <2> QED BY <2>3, <2>4 DEF old
<1> QED BY <1>2, <1>3

\* What Evaluate does to the ring and to the flag.
LEMMA EvaluateRing ==
    ASSUME AnalyzerConstants, StatesOK, NEW ip \in Addresses, NEW e \in An!Events
    PROVE  LET s0 == An!StateOf(ip)
               s1 == IF "ack" \in e.flags THEN An!AddSyn(s0) ELSE s0
               s == An!Evaluate(ip, e).state
           IN  /\ s0.blocked => s = s0
               /\ ~s0.blocked =>
                     /\ s.syns = s1.syns /\ s.synIdx = s1.synIdx
                     /\ s.blocked <=> /\ "ack" \in e.flags
                                      /\ An!SynsInWindow(s1.syns) > SynFloodThreshold
<1> USE DEF StateRecords
<1> DEFINE v == An!Evaluate(ip, e)
           p == An!trackedPortForEvent(e)
           s0 == An!StateOf(ip)
           s1 == IF "ack" \in e.flags THEN An!AddSyn(s0) ELSE s0
           s2 == An!AddPort(s1, p)
           flood == "ack" \in e.flags /\ An!SynsInWindow(s1.syns) > SynFloodThreshold
           scan == Cardinality(DOMAIN s2.ports) > PortScanThreshold /\ s2.lastLimited = An!None
           flagged == [s1 EXCEPT !.blocked = TRUE]
           limited2 == [s2 EXCEPT !.lastLimited = 0]
<1>1. s0 \in An!IPState
    BY NewStateFacts DEF An!StateOf, StatesOK
<1>2. /\ s0.blocked => v.state = s0
      /\ ~s0.blocked /\ flood => v.state = flagged
      /\ ~s0.blocked /\ ~flood /\ scan => v.state = limited2
      /\ ~s0.blocked /\ ~flood /\ ~scan => v.state = s2
    BY SameSize DEF An!Evaluate
<1> HIDE DEF v, p, s0
<1>3. s1 \in An!IPState /\ s1.blocked = s0.blocked
    BY <1>1, AddSynFacts
<1> HIDE DEF s1
<1>4. s1 \in StateRecords
    BY <1>3, StateIs
<1>5. p \in An!Ports
    BY PortOfEvent DEF p
<1>6. s2 \in StateRecords /\ s2.syns = s1.syns /\ s2.synIdx = s1.synIdx /\ s2.blocked = s1.blocked
    <2>1. s2 \in StateRecords
        BY <1>3, <1>5, AddPortFacts, StateIs
    <2>2. PICK f : s2 = [s1 EXCEPT !.ports = f]
        BY DEF An!AddPort
    <2> HIDE DEF s2
    <2> QED BY <1>4, <2>1, <2>2
<1> HIDE DEF s2
<1>7. flagged.syns = s1.syns /\ flagged.synIdx = s1.synIdx /\ flagged.blocked = TRUE
    BY <1>4
<1>8. limited2.syns = s1.syns /\ limited2.synIdx = s1.synIdx /\ limited2.blocked = s1.blocked
    BY <1>6
<1> HIDE DEF flagged, limited2
<1>9. ASSUME ~s0.blocked
      PROVE  v.state.syns = s1.syns /\ v.state.synIdx = s1.synIdx /\ (v.state.blocked <=> flood)
    <2> HIDE DEF flood, scan
    <2>1. CASE flood
        BY <1>2, <1>7, <1>9, <2>1
    <2>2. CASE ~flood
        BY <1>2, <1>3, <1>6, <1>8, <1>9, <2>2
    <2> QED BY <2>1, <2>2
<1> QED BY <1>2, <1>9 DEF v, s0, s1, flood

\* An event is recalled, and flags the address in a flood.
LEMMA FlagsEvent ==
    ASSUME AnalyzerConstants, StatesOK, NEW ip \in Addresses, NEW e \in An!Events,
           NEW acc, RecalledAt(states[ip], acc)
    PROVE  LET s == An!Evaluate(ip, e).state
               new == IF "ack" \in e.flags THEN <<0>> \o acc ELSE acc
           IN  RecalledAt(s, new) /\ FlagsIn(states[ip], s, new)
<1> DEFINE s == An!Evaluate(ip, e).state
           s0 == An!StateOf(ip)
           s1 == IF "ack" \in e.flags THEN An!AddSyn(s0) ELSE s0
           new == IF "ack" \in e.flags THEN <<0>> \o acc ELSE acc
           flood == "ack" \in e.flags /\ An!SynsInWindow(s1.syns) > SynFloodThreshold
<1>1. s0 \in An!IPState /\ s \in An!IPState /\ s # An!NoState
    BY NewStateFacts, EvaluateFacts, PortOfEvent, NoStateIsNone DEF An!StateOf, StatesOK
<1>2. acc \in Seq(An!Ages) /\ Ordered(acc) /\ new \in Seq(An!Ages) /\ Ordered(new)
    BY OrderedAdd DEF RecalledAt
<1>3. /\ s0.blocked => s = s0
      /\ ~s0.blocked => s.syns = s1.syns /\ s.synIdx = s1.synIdx /\ (s.blocked <=> flood)
    BY EvaluateRing
<1>4. s0.blocked <=> states[ip] # An!NoState /\ states[ip].blocked
    BY NewStateFacts DEF An!StateOf
<1> HIDE DEF s
<1>5. CASE s0.blocked
    <2>1. s.blocked
        BY <1>3, <1>5
    <2> QED BY <1>1, <1>2, <1>4, <1>5, <2>1 DEF RecalledAt, FlagsIn, s
<1>6. CASE ~s0.blocked
    <2>1. Mirrors(s0, acc) /\ ~Flooded(acc)
        <3>1. CASE states[ip] = An!NoState
            <4>1. s0 = An!NewState /\ acc = <<>>
                BY <3>1 DEF An!StateOf, RecalledAt
            <4>2. An!NewState.syns = [i \in An!RingSlots |-> An!None] /\ An!NewState.synIdx = 1
                BY DEF An!NewState
            <4>3. \A i \in An!RingSlots : Back(1, i) \in An!RingSlots /\ ~(i <= 0)
                <5>1. 1 \in An!RingSlots /\ An!RingSlots = 1 .. Ring /\ Ring \in Nat
                    BY RingFacts, ConstantFacts
                <5>2. \A i \in An!RingSlots : Back(1, i) \in An!RingSlots
                    BY <5>1, BackFacts
                <5> QED BY <5>1, <5>2
            <4>4. Mirrors(s0, acc)
                BY <4>1, <4>2, <4>3 DEF Mirrors
            <4>5. ~Flooded(<<>>)
                BY RingFacts DEF Flooded
            <4> QED BY <4>1, <4>4, <4>5
        <3>2. CASE states[ip] # An!NoState
            BY <1>4, <1>6, <3>2 DEF RecalledAt, An!StateOf
        <3> QED BY <3>1, <3>2
    <2> HIDE DEF s0
    <2>2. Mirrors(s1, new) /\ s1 \in An!IPState
        BY <1>1, <1>2, <2>1, MirrorsAdd, AddSynFacts
    <2>3. flood <=> Flooded(new)
        <3>1. CASE "ack" \in e.flags
            BY <1>2, <2>2, <3>1, FloodOfRing
        <3>2. CASE "ack" \notin e.flags
            BY <2>1, <3>2
        <3> QED BY <3>1, <3>2
    <2>4. Mirrors(s, new)
        <3> HIDE DEF s1, new, flood
        <3> QED BY <1>3, <1>6, <2>2 DEF Mirrors
    <2> HIDE DEF flood, s1, new
    <2>5. s.blocked <=> Flooded(new)
        BY <1>3, <1>6, <2>3
    <2>6. RecalledAt(s, new)
        BY <1>1, <1>2, <2>4, <2>5 DEF RecalledAt
    <2>7. FlagsIn(states[ip], s, new)
        BY <1>1, <1>4, <1>6, <2>5 DEF FlagsIn
    <2> QED BY <2>6, <2>7 DEF s, new
<1> QED BY <1>5, <1>6

\* What FloodIsFlagged says of a step, said with Flooded.
Flagging == \A ip \in Addresses : FlagsIn(states[ip], states'[ip], accepts'[ip])

\* Every step is one of these four.
LEMMA RecalledStep ==
    ASSUME AnalyzerConstants
    PROVE  Typed /\ Recalled /\ [An!Next]_(An!vars) => Recalled' /\ Flagging
<1> SUFFICES ASSUME Typed, Recalled, [An!Next]_(An!vars) PROVE Recalled' /\ Flagging
    OBVIOUS
<1>1. \A a \in Addresses : /\ RecalledAt(states[a], accepts[a])
                           /\ states[a] \in An!IPState \cup {An!NoState}
    BY DEF Recalled, Typed, StatesOK
<1> SUFFICES ASSUME NEW a \in Addresses
             PROVE  /\ RecalledAt(states'[a], accepts'[a])
                    /\ FlagsIn(states[a], states'[a], accepts'[a])
    BY DEF Recalled, Flagging
<1>2. CASE states'[a] = states[a] /\ accepts'[a] = accepts[a]
    BY <1>1, <1>2, FlagsKept
<1>3. CASE states'[a] = An!NoState /\ accepts'[a] = <<>>
    BY <1>3, FlagsGone
<1>4. ASSUME NEW ip \in Addresses, NEW e \in An!Events, An!ProcessEvent(ip, e)
      PROVE  RecalledAt(states'[a], accepts'[a]) /\ FlagsIn(states[a], states'[a], accepts'[a])
    <2>1. accepts'[a] = IF states'[a] = An!NoState THEN <<>>
                        ELSE IF a = ip /\ ip \notin whitelist /\ "ack" \in e.flags
                             THEN <<0>> \o accepts[a] ELSE accepts[a]
        BY <1>4 DEF An!ProcessEvent
    <2>2. CASE ip \in whitelist
        <3>1. states'[a] = states[a]
            BY <1>4, <2>2 DEF An!ProcessEvent, An!isWhitelistedIP, An!analysis
        <3>2. accepts'[a] = accepts[a]
            BY <1>1, <2>1, <2>2, <3>1 DEF RecalledAt
        <3> QED BY <1>2, <3>1, <3>2
    <2>3. CASE ip \notin whitelist /\ a # ip
        <3>1. states'[a] \in {states[a], An!NoState}
            BY <1>4, <2>3, ProcessFacts
        <3>2. accepts'[a] = IF states'[a] = An!NoState THEN <<>> ELSE accepts[a]
            BY <2>1, <2>3
        <3>3. states[a] = An!NoState => accepts[a] = <<>>
            BY <1>1 DEF RecalledAt
        <3> QED BY <1>2, <1>3, <3>1, <3>2, <3>3
    <2>4. CASE ip \notin whitelist /\ a = ip
        <3>1. states'[a] = An!Evaluate(a, e).state
            BY <1>4, <2>4 DEF An!ProcessEvent, An!isWhitelistedIP
        <3>2. states'[a] # An!NoState
            BY <3>1, EvaluateFacts, PortOfEvent, NoStateIsNone DEF Typed
        <3>3. accepts'[a] = IF "ack" \in e.flags THEN <<0>> \o accepts[a] ELSE accepts[a]
            BY <2>1, <2>4, <3>2
        <3> QED BY <1>1, <3>1, <3>3, FlagsEvent DEF Typed
    <2> QED BY <2>2, <2>3, <2>4
<1>5. CASE An!Prune
    <2>1. \/ states'[a] = An!NoState /\ accepts'[a] = <<>>
          \/ states'[a] = states[a] /\ accepts'[a] = accepts[a]
        BY <1>5 DEF An!Prune
    <2> QED BY <1>2, <1>3, <2>1
<1>6. CASE An!Restart
    BY <1>3, <1>6 DEF An!Restart
<1>7. CASE An!Tick
    <2>1. states'[a] = An!Aged(states[a])
          /\ accepts'[a] = [i \in DOMAIN accepts[a] |-> An!Older(accepts[a][i])]
        BY <1>7 DEF An!Tick
    <2> QED BY <1>1, <2>1, FlagsAged
<1>8. CASE \/ An!Remediate \/ An!ReportBlockedIP \/ An!ReportBlockedIPWithContext
           \/ An!Repair \/ An!ReportRepair \/ UNCHANGED An!vars
           \/ \E ip \in Addresses : \/ An!Unblock(ip) \/ An!Whitelist(ip) \/ An!Unlist(ip)
                                    \/ An!Reconcile(ip) \/ An!UnblockMissed(ip)
    <2>1. accepts' = accepts
        BY <1>8
        DEF An!Remediate, An!ReportBlockedIP, An!ReportBlockedIPWithContext, An!Unblock,
            An!Whitelist, An!Unlist, An!Repair, An!ReportRepair,
            An!Reconcile, An!UnblockMissed, An!Lift, An!ghosts, An!vars
    <2> QED BY <1>2, <1>8, <2>1, StatesRest
<1> QED BY <1>4, <1>5, <1>6, <1>7, <1>8 DEF An!Next

\* The ring of connection times forgets nothing that a flood is made of: whatever the
\* threshold, the window, the traffic, the size of the table and the prunes, an address is
\* flagged by the connection that makes more than SynFloodThreshold in one window, and by
\* no other step.
THEOREM FloodsAreFlagged == ASSUME AnalyzerConstants PROVE An!Spec => An!FloodIsFlagged
<1>1. An!Init => Typed /\ Recalled
    <2> SUFFICES ASSUME An!Init PROVE Recalled
        BY TypedInit
    <2>1. \A ip \in Addresses : states[ip] = An!NoState /\ accepts[ip] = <<>>
        BY DEF An!Init
    <2> QED BY <2>1, FlagsGone DEF Recalled
<1>2. Typed /\ Recalled /\ [An!Next]_(An!vars) => (Typed /\ Recalled)'
    BY TypedStep, RecalledStep
<1>3. Typed /\ Recalled /\ Recalled' /\ Flagging =>
          \A ip \in Addresses :
              An!Flagged(ip)' <=> \/ states'[ip] # An!NoState /\ An!Flagged(ip)
                                  \/ An!InOneWindow(ip)' > SynFloodThreshold
    <2> SUFFICES ASSUME Recalled', Flagging, NEW ip \in Addresses
                 PROVE  An!Flagged(ip)' <=> \/ states'[ip] # An!NoState /\ An!Flagged(ip)
                                            \/ An!InOneWindow(ip)' > SynFloodThreshold
        OBVIOUS
    <2>1. accepts'[ip] \in Seq(An!Ages) /\ Ordered(accepts'[ip])
        BY DEF Recalled, RecalledAt
    <2>2. An!InOneWindow(ip)' > SynFloodThreshold <=> Flooded(accepts'[ip])
        BY <2>1, FloodOfAccepts, SameSize DEF An!InOneWindow
    <2>3. An!Flagged(ip)' <=> \/ states'[ip] # An!NoState /\ An!Flagged(ip)
                              \/ Flooded(accepts'[ip])
        BY DEF Flagging, FlagsIn, An!Flagged
    <2> QED BY <2>2, <2>3
<1>4. Typed /\ Recalled /\ [An!Next]_(An!vars) =>
          [\A ip \in Addresses :
              An!Flagged(ip)' <=> \/ states'[ip] # An!NoState /\ An!Flagged(ip)
                                  \/ An!InOneWindow(ip)' > SynFloodThreshold]_(An!vars)
    BY <1>3, RecalledStep
<1> QED BY <1>1, <1>2, <1>4, PTL DEF An!Spec, An!FloodIsFlagged

----------------------------------------------------------------------------
\* An address that has a state was heard of since the last prune but one, and so was the
\* decision to limit it.
Fresh ==
    \A ip \in Addresses : states[ip] # An!NoState =>
        /\ \E t \in Times(states[ip]) : t <= EvictAge + idle
        /\ states[ip].lastLimited <= EvictAge + idle

\* An address that is not flagged is heard of anew with every event.
LEMMA EvaluateFresh ==
    ASSUME AnalyzerConstants, 0 < PortScanWindow, StatesOK,
           NEW ip \in Addresses, NEW e \in An!Events
    PROVE  LET s0 == An!StateOf(ip)
               s == An!Evaluate(ip, e).state
           IN  \/ s = s0 /\ s0.blocked
               \/ 0 \in Times(s) /\ s.lastLimited \in {s0.lastLimited, 0}
<1> USE DEF StateRecords
<1> DEFINE v == An!Evaluate(ip, e)
           p == An!trackedPortForEvent(e)
           s0 == An!StateOf(ip)
           s1 == IF "ack" \in e.flags THEN An!AddSyn(s0) ELSE s0
           s2 == An!AddPort(s1, p)
           flood == "ack" \in e.flags /\ An!SynsInWindow(s1.syns) > SynFloodThreshold
           scan == Cardinality(DOMAIN s2.ports) > PortScanThreshold /\ s2.lastLimited = An!None
           flagged == [s1 EXCEPT !.blocked = TRUE]
           limited2 == [s2 EXCEPT !.lastLimited = 0]
<1>1. s0 \in An!IPState
    BY NewStateFacts DEF An!StateOf, StatesOK
<1>2. /\ s0.blocked => v.state = s0
      /\ ~s0.blocked /\ flood => v.state = flagged
      /\ ~s0.blocked /\ ~flood /\ scan => v.state = limited2
      /\ ~s0.blocked /\ ~flood /\ ~scan => v.state = s2
    BY SameSize DEF An!Evaluate
<1>3. p \in An!Ports
    BY PortOfEvent
<1> HIDE DEF v, p, s0
<1>4. s1 \in An!IPState /\ s1.lastLimited = s0.lastLimited
      /\ ("ack" \in e.flags => \E i \in An!RingSlots : s1.syns[i] = 0)
    <2>1. An!AddSyn(s0).lastLimited = s0.lastLimited
        BY <1>1, StateIs DEF An!AddSyn
    <2> QED BY <1>1, <2>1, AddSynFacts
<1> HIDE DEF s1
<1>5. s1 \in StateRecords
    BY <1>4, StateIs
<1>6. s2 \in StateRecords /\ s2.lastLimited = s1.lastLimited
    <2>1. s2 \in StateRecords
        BY <1>3, <1>4, AddPortFacts, StateIs
    <2>2. PICK f : s2 = [s1 EXCEPT !.ports = f]
        BY DEF An!AddPort
    <2> HIDE DEF s2
    <2> QED BY <1>5, <2>1, <2>2
<1>7. p \in DOMAIN s2.ports /\ s2.ports[p] = 0
    <2> DEFINE all == [q \in DOMAIN s1.ports \cup {p} |-> IF q = p THEN 0 ELSE s1.ports[q]]
               live == {q \in DOMAIN all : all[q] < PortScanWindow}
               new == [q \in live |-> all[q]]
    <2>1. all[p] = 0 /\ p \in live
        OBVIOUS
    <2>2. s2.ports = new
        BY <1>5 DEF s2, An!AddPort
    <2> HIDE DEF all, live
    <2> QED BY <2>1, <2>2
<1> HIDE DEF s2
<1>8. 0 \in Times(s2)
    BY <1>7 DEF Times
<1>9. flood => 0 \in Times(flagged) /\ flagged.lastLimited = s0.lastLimited
    <2> SUFFICES ASSUME flood PROVE 0 \in Times(flagged) /\ flagged.lastLimited = s0.lastLimited
        OBVIOUS
    <2>1. PICK i \in An!RingSlots : s1.syns[i] = 0
        BY <1>4
    <2>2. /\ flagged \in An!IPState /\ flagged.syns = s1.syns
          /\ flagged.lastLimited = s1.lastLimited
        <3>1. flagged \in StateRecords /\ flagged.syns = s1.syns
              /\ flagged.lastLimited = s1.lastLimited
            BY <1>5
        <3> QED BY <3>1, StateIs
    <2> HIDE DEF flagged, flood
    <2>3. flagged.syns[i] \in Times(flagged)
        BY <2>1, <2>2, TimesFacts DEF An!None
    <2> QED BY <1>4, <2>1, <2>2, <2>3
<1>10. 0 \in Times(limited2) /\ limited2.lastLimited = 0
    <2>1. limited2.ports = s2.ports /\ limited2.lastLimited = 0
        BY <1>6
    <2> HIDE DEF limited2
    <2> QED BY <1>7, <2>1 DEF Times
<1> HIDE DEF flood, scan, flagged, limited2
<1> QED BY <1>2, <1>4, <1>6, <1>8, <1>9, <1>10 DEF v, s0

\* Events set a time to zero, prune leaves none older than EvictAge, and time goes on for
\* PruneEvery at most before the next prune.
LEMMA FreshStep ==
    ASSUME AnalyzerConstants, 0 < PortScanWindow
    PROVE  Typed /\ Fresh /\ [An!Next]_(An!vars) => Fresh'
<1> SUFFICES ASSUME Typed, Fresh, [An!Next]_(An!vars), NEW a \in Addresses, states'[a] # An!NoState
             PROVE  /\ \E t \in Times(states'[a]) : t <= EvictAge + idle'
                    /\ states'[a].lastLimited <= EvictAge + idle'
    BY DEF Fresh
<1> DEFINE Good == /\ \E t \in Times(states'[a]) : t <= EvictAge + idle'
                   /\ states'[a].lastLimited <= EvictAge + idle'
<1>1. /\ EvictAge \in Nat /\ idle \in Nat /\ states[a] \in An!IPState \cup {An!NoState}
      /\ idle' \in Nat
      /\ states[a] # An!NoState => /\ \E t \in Times(states[a]) : t <= EvictAge + idle
                                   /\ states[a].lastLimited <= EvictAge + idle
    BY TypedStep DEF Typed, StatesOK, Fresh, AnalyzerConstants
<1>2. states'[a] = states[a] /\ idle' = idle => Good
    BY <1>1
<1>3. ASSUME NEW ip \in Addresses, NEW e \in An!Events, An!ProcessEvent(ip, e) PROVE Good
    <2>1. idle' = idle /\ \A b \in Addresses \ {ip} : states'[b] \in {states[b], An!NoState}
        BY <1>3, ProcessFacts
    <2>2. CASE a # ip \/ ip \in whitelist
        <3>1. ip \in whitelist => states' = states
            BY <1>3 DEF An!ProcessEvent, An!isWhitelistedIP, An!analysis
        <3> QED BY <1>2, <2>1, <2>2, <3>1
    <2>3. CASE a = ip /\ ip \notin whitelist
        <3>1. states'[a] = An!Evaluate(a, e).state
            BY <1>3, <2>3 DEF An!ProcessEvent, An!isWhitelistedIP
        <3> DEFINE s == states'[a]
        <3>2. \/ s = An!StateOf(a) /\ An!StateOf(a).blocked
              \/ 0 \in Times(s) /\ s.lastLimited \in {An!StateOf(a).lastLimited, 0}
            BY <3>1, EvaluateFresh DEF Typed
        <3> HIDE DEF s
        <3>3. CASE states[a] = An!NoState
            <4>1. An!StateOf(a).blocked = FALSE /\ An!StateOf(a).lastLimited = An!None
                BY <3>3 DEF An!StateOf, An!NewState
            <4> QED BY <1>1, <2>1, <3>2, <4>1 DEF An!None, s
        <3>4. CASE states[a] # An!NoState
            <4>1. An!StateOf(a) = states[a]
                BY <3>4 DEF An!StateOf
            <4> QED BY <1>1, <2>1, <3>2, <3>4, <4>1 DEF s
        <3> QED BY <3>3, <3>4
    <2> QED BY <2>2, <2>3
<1>4. CASE An!Prune
    <2>1. /\ states[a] # An!NoState /\ ~An!ShouldEvict(states[a])
          /\ states'[a] = states[a] /\ idle' = 0
        BY <1>4 DEF An!Prune
    <2> DEFINE s == states[a]
    <2>2. s \in An!IPState /\ Times(s) # {}
        BY <1>1, <2>1
    <2> HIDE DEF s
    <2>3. An!Latest(s) \in Times(s) /\ Times(s) \subseteq Nat
        BY <2>2, LatestFacts, TimesFacts, ConstantFacts
    <2>4. s.lastLimited \in Int
        <3>1. s.lastLimited \in An!Ages \cup {An!None}
            BY <2>2, StateIs DEF StateRecords
        <3> QED BY <3>1, ConstantFacts DEF An!None
    <2>5. ~(An!Latest(s) > EvictAge) /\ ~(s.lastLimited > EvictAge)
        BY <2>1 DEF An!ShouldEvict, s
    <2>6. An!Latest(s) <= EvictAge + 0 /\ s.lastLimited <= EvictAge + 0
        BY <1>1, <2>3, <2>4, <2>5
    <2> QED BY <2>1, <2>3, <2>6 DEF s
<1>5. CASE An!Tick
    <2>1. idle' = idle + 1 /\ states'[a] = An!Aged(states[a])
        BY <1>5 DEF An!Tick
    <2>2. states[a] # An!NoState
        BY <2>1 DEF An!Aged
    <2> DEFINE s == states[a]
    <2>3. s \in An!IPState
        BY <1>1, <2>2
    <2>4. PICK t \in Times(s) : t <= EvictAge + idle
        BY <1>1, <2>2
    <2>5. s.lastLimited \in An!Ages \cup {An!None} /\ s.lastLimited <= EvictAge + idle
          /\ An!Aged(s).lastLimited = An!Older(s.lastLimited)
        <3>1. s \in StateRecords /\ s # An!NoState
            BY <2>2, <2>3, StateIs
        <3> QED BY <1>1, <2>2, <3>1 DEF StateRecords, An!Aged
    <2>6. t \in An!Ages /\ An!Older(t) \in Times(An!Aged(s))
        BY <2>3, <2>4, TimesFacts
    <2> HIDE DEF s
    <2>7. \A u \in An!Ages \cup {An!None} : An!Older(u) <= u + 1
        BY ConstantFacts DEF An!Older, An!None
    <2>8. \A u \in An!Ages \cup {An!None} : u \in Int /\ An!Older(u) \in Int
        BY ConstantFacts DEF An!None
    <2>9. An!Older(t) <= EvictAge + idle' /\ An!Older(s.lastLimited) <= EvictAge + idle'
        BY <1>1, <2>1, <2>4, <2>5, <2>6, <2>7, <2>8
    <2> QED BY <2>1, <2>5, <2>6, <2>9 DEF s
<1>6. CASE An!Restart
    BY <1>6 DEF An!Restart
<1>7. CASE \/ An!Remediate \/ An!ReportBlockedIP \/ An!ReportBlockedIPWithContext
           \/ An!Repair \/ An!ReportRepair \/ UNCHANGED An!vars
           \/ \E ip \in Addresses : \/ An!Unblock(ip) \/ An!Whitelist(ip) \/ An!Unlist(ip)
                                    \/ An!Reconcile(ip) \/ An!UnblockMissed(ip)
    BY <1>2, <1>7, StatesRest
<1> QED BY <1>3, <1>4, <1>5, <1>6, <1>7 DEF An!Next

\* What the analyzer does not look at again, a flagged address or one whose limit it has
\* decided, it forgets by the second prune after it has last heard of it.
THEOREM BlindSpotsEnd ==
    ASSUME AnalyzerConstants, 0 < PortScanWindow
    PROVE  An!Spec => []An!BlindSpotEnds
<1>1. An!Init => Typed /\ Fresh
    <2> SUFFICES ASSUME An!Init PROVE Fresh
        BY TypedInit
    <2>1. \A ip \in Addresses : states[ip] = An!NoState
        BY DEF An!Init
    <2> QED BY <2>1 DEF Fresh
<1>2. Typed /\ Fresh => An!BlindSpotEnds
    <2> SUFFICES ASSUME Typed, Fresh, NEW ip \in Addresses, states[ip] # An!NoState
                 PROVE  /\ An!Latest(states[ip]) <= EvictAge + PruneEvery
                        /\ states[ip].lastLimited <= EvictAge + PruneEvery
        BY DEF An!BlindSpotEnds
    <2> DEFINE s == states[ip]
    <2>1. /\ s \in An!IPState /\ EvictAge \in Nat /\ PruneEvery \in Nat /\ idle \in 0 .. PruneEvery
          /\ \E t \in Times(s) : t <= EvictAge + idle
          /\ s.lastLimited <= EvictAge + idle
        BY DEF Typed, StatesOK, Fresh, AnalyzerConstants
    <2> HIDE DEF s
    <2>2. PICK t \in Times(s) : t <= EvictAge + idle
        BY <2>1
    <2>3. t \in Nat /\ An!Latest(s) \in Nat /\ An!Latest(s) <= t
        BY <2>1, <2>2, LatestFacts, TimesFacts, ConstantFacts
    <2>4. s.lastLimited \in Int
        <3>1. s.lastLimited \in An!Ages \cup {An!None}
            BY <2>1, StateIs DEF StateRecords
        <3> QED BY <3>1, ConstantFacts DEF An!None
    <2>5. An!Latest(s) <= EvictAge + PruneEvery /\ s.lastLimited <= EvictAge + PruneEvery
        BY <2>1, <2>2, <2>3, <2>4
    <2> QED BY <2>5 DEF s
<1> QED BY <1>1, <1>2, TypedStep, FreshStep, PTL DEF An!Spec
=============================================================================
