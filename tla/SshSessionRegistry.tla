--------------------------- MODULE SshSessionRegistry ---------------------------
(***************************************************************************)
(* The application-level registry of shared SSH session managers           *)
(* (crates/ssh/src/session_registry.rs, SessionRegistryCore).              *)
(*                                                                         *)
(* One slot per connection key.  The first acquire of a vacant key starts  *)
(* a detached creation flight; later acquires wait for it; a published     *)
(* manager generation is checked out through counted leases; the last      *)
(* release only marks the generation idle, and one reaper task disconnects *)
(* generations whose idle deadline has passed.  Everything that reads or   *)
(* writes the slots does so under one mutex, so each locked block of the   *)
(* code is one action here, together with the sticky notifications the     *)
(* same thread sends right after unlocking.                                *)
(*                                                                         *)
(* Abstractions.  A generation number stands for the creation token (the   *)
(* number and the Arc identity) and for the manager the flight creates.    *)
(* An idle candidate is the sequence number of the release or publication  *)
(* that made it: every candidate gets the same timeout, so this order is   *)
(* the order of the deadlines, and `now` is the last candidate whose       *)
(* deadline has passed.  MaxGen and MaxIdle bound the two counters.        *)
(***************************************************************************)
EXTENDS Naturals, FiniteSets, FiniteSetsExt

CONSTANTS
    Key,        \* connection keys
    NoKey,      \* stands for "no connection key"
    Caller,     \* consumers: each runs one acquire or holds one lease at a time
    MaxGen,     \* bound on the number of creation flights ever started
    MaxIdle     \* bound on idle candidates: beyond it no reacquire cancels one

ASSUME KeyAssumption == NoKey \notin Key
ASSUME CallerAssumption == IsFiniteSet(Caller)
ASSUME BoundAssumption == MaxGen \in Nat /\ MaxIdle \in Nat

Gen == 1 .. MaxGen

VARIABLES
    lifecycle,       \* RegistryState.lifecycle
    slots,           \* RegistryState.slots
    nextGeneration,  \* RegistryState.next_generation
    caller,          \* the acquire future or the RegistryLease of each consumer
    flight,          \* the detached creation task of each generation
    manager,         \* the transport side of each generation's manager
    gated,           \* generations whose reconnect gate was closed
    reaper,          \* the idle reaper task
    reaperPermit,    \* reaper_notify: the sticky permit of notify_one
    idleSeq,         \* idle candidates created so far
    now,             \* the last idle candidate whose deadline has passed
    cancelled,       \* task_cancellation and reaper_shutdown
    taskCount,       \* task_count: registry tasks not yet converged
    taskPermit,      \* task_notify: the sticky permit of notify_one
    snapshot         \* the value in the snapshot watch channel

registryVars == << lifecycle, slots, nextGeneration, caller, flight, manager,
                   gated, reaper, reaperPermit, idleSeq, now, cancelled,
                   taskCount, taskPermit, snapshot >>

-----------------------------------------------------------------------------
(* Values.                                                                 *)

Lifecycle == {"Running", "ShuttingDown", "Stopped"}
Outcome == {"None", "Published", "Failed", "Superseded"}

Slot == [phase : {"vacant", "creating", "ready"}, gen : 0 .. MaxGen,
         waiters : SUBSET Caller, leases : Nat, idle : Nat]

Vacant == [phase |-> "vacant", gen |-> 0, waiters |-> {}, leases |-> 0, idle |-> 0]

Creating(g, ws) == [phase |-> "creating", gen |-> g, waiters |-> ws,
                    leases |-> 0, idle |-> 0]

Ready(g, count, idleCandidate) == [phase |-> "ready", gen |-> g, waiters |-> {},
                                   leases |-> count, idle |-> idleCandidate]

CallerState == [pc : {"idle", "waiting", "answered", "holding"}, key : Key \cup {NoKey},
                gen : 0 .. MaxGen, outcome : Outcome, counted : BOOLEAN]

IdleCaller == [pc |-> "idle", key |-> NoKey, gen |-> 0, outcome |-> "None",
               counted |-> FALSE]

Waiting(k, g) == [pc |-> "waiting", key |-> k, gen |-> g, outcome |-> "None",
                  counted |-> FALSE]

Answered(k, out) == [pc |-> "answered", key |-> k, gen |-> 0, outcome |-> out,
                     counted |-> FALSE]

Lease(k, g, isCounted) == [pc |-> "holding", key |-> k, gen |-> g, outcome |-> "None",
                           counted |-> isCounted]

ReaperState == [pc : {"off", "scan", "sleep", "stopping", "gone"},
                key : Key \cup {NoKey}, gen : 0 .. MaxGen, idle : Nat]

ReaperAt(at) == [pc |-> at, key |-> NoKey, gen |-> 0, idle |-> 0]

Sleeping(k) == [pc |-> "sleep", key |-> k, gen |-> slots[k].gen, idle |-> slots[k].idle]

Flight == [stage : {"none", "running", "exiting", "done"}, key : Key \cup {NoKey}]

(* Taken by the reaper: disconnecting, disconnected, aborted.  Stopped by  *)
(* the service's shutdown: stopping, stopped, abandoned.                   *)
Reaped == {"disconnecting", "disconnected", "aborted"}

Manager == {"none", "live", "stopping", "stopped", "abandoned"} \cup Reaped

-----------------------------------------------------------------------------
(* Pieces several operations share.                                        *)

(* The locked slot view that both snapshot() and the watch channel show.   *)
SnapshotOf(aLifecycle, aSlots, aCount) ==
    LET InPhase(p) == {k \in Key : aSlots[k].phase = p}
    IN  [state          |-> aLifecycle,
         slotCount      |-> Cardinality(InPhase("creating") \cup InPhase("ready")),
         creatingCount  |-> Cardinality(InPhase("creating")),
         readyCount     |-> Cardinality(InPhase("ready")),
         activeLeases   |-> MapThenSumSet(LAMBDA k : aSlots[k].leases, InPhase("ready")),
         idleCount      |-> Cardinality({k \in InPhase("ready") :
                                aSlots[k].leases = 0 /\ aSlots[k].idle # 0}),
         taskCount      |-> aCount]

PublishSnapshot == snapshot' = SnapshotOf(lifecycle', slots', taskCount')

(* Mutant: a lease operation that forgets to publish.                      *)
PublishSnapshotNever(changed) == UNCHANGED snapshot

PublishSnapshotIf(changed) == IF changed THEN PublishSnapshot ELSE UNCHANGED snapshot

(* Mutant: the cleanup of a failed flight drops its waiters.               *)
NotifyUnlessFailed(ws, g, out) ==
    [c \in Caller |->
        IF c \in ws /\ caller[c].pc = "waiting" /\ caller[c].gen = g /\ out # "Failed"
        THEN Answered(caller[c].key, out) ELSE caller[c]]

(* The senders in ws, all taken from generation g, answer the acquires     *)
(* still awaiting them; the receiver of a cancelled acquire is gone.       *)
NotifyWaiters(ws, g, out) ==
    [c \in Caller |->
        IF c \in ws /\ caller[c].pc = "waiting" /\ caller[c].gen = g
        THEN Answered(caller[c].key, out)
        ELSE caller[c]]

(* Mutant: a result is matched by its key and not by its token.            *)
IsCurrentKey(k, g, phase) == slots[k].phase = phase

(* take_current_creation and the token checks: generation g still owns k.  *)
IsCurrent(k, g, phase) == slots[k].phase = phase /\ slots[k].gen = g

(* The reaper registers itself with the first acquire that gets this far.  *)
RegisterTasks(newTasks) ==
    /\ reaper' = IF reaper.pc = "off" THEN ReaperAt("scan") ELSE reaper
    /\ taskCount' = taskCount + newTasks + (IF reaper.pc = "off" THEN 1 ELSE 0)

(* Mutant: the last guard does not wake the shutdown.                      *)
UnregisterQuietly ==
    /\ taskCount' = taskCount - 1
    /\ UNCHANGED taskPermit
    /\ PublishSnapshot

(* Drop of a RegistryTaskGuard.                                            *)
UnregisterTask ==
    /\ taskCount' = taskCount - 1
    /\ taskPermit' = TRUE
    /\ PublishSnapshot

(* Mutant: the reaper is not told.                                         *)
NewIdleCandidateQuietly ==
    /\ idleSeq' = idleSeq + 1
    /\ UNCHANGED reaperPermit

(* One more lease of what k holds; a pending idle deadline is cancelled.   *)
AddLease(k) ==
    slots' = [slots EXCEPT ![k] = Ready(slots[k].gen, slots[k].leases + 1, 0)]

(* A new idle candidate, and the wakeup that tells the reaper about it.    *)
NewIdleCandidate ==
    /\ idleSeq' = idleSeq + 1
    /\ reaperPermit' = TRUE

-----------------------------------------------------------------------------
(* acquire: one pass of its loop.  A fresh call, or the loop re-entered    *)
(* after its flight was published or superseded.                           *)

Enters(c, k) ==
    \/ caller[c].pc = "idle"
    \/ /\ caller[c].pc = "answered"
       /\ caller[c].key = k
       /\ caller[c].outcome \in {"Published", "Superseded"}

Admitted(c, k) == Enters(c, k) /\ lifecycle = "Running"

AcquireReady(c, k) ==
    /\ Admitted(c, k)
    /\ slots[k].phase = "ready"
    /\ slots[k].idle # 0 => idleSeq < MaxIdle
    /\ AddLease(k)
    /\ caller' = [caller EXCEPT ![c] = Lease(k, slots[k].gen, TRUE)]
    /\ reaperPermit' = (reaperPermit \/ slots[k].idle # 0)
    /\ RegisterTasks(0)
    /\ UNCHANGED << lifecycle, nextGeneration, flight, manager, gated, idleSeq, now,
                    cancelled, taskPermit >>
    /\ PublishSnapshot

AcquireWait(c, k) ==
    /\ Admitted(c, k)
    /\ slots[k].phase = "creating"
    /\ slots' = [slots EXCEPT ![k] = Creating(slots[k].gen, slots[k].waiters \cup {c})]
    /\ caller' = [caller EXCEPT ![c] = Waiting(k, slots[k].gen)]
    /\ RegisterTasks(0)
    /\ UNCHANGED << lifecycle, nextGeneration, flight, manager, gated, reaperPermit,
                    idleSeq, now, cancelled, taskPermit >>
    /\ PublishSnapshotIf(reaper.pc = "off")

AcquireStart(c, k) ==
    LET g == nextGeneration + 1
    IN  /\ Admitted(c, k)
        /\ slots[k].phase = "vacant"
        /\ g \in Gen
        /\ nextGeneration' = g
        /\ slots' = [slots EXCEPT ![k] = Creating(g, {c})]
        /\ caller' = [caller EXCEPT ![c] = Waiting(k, g)]
        /\ flight' = [flight EXCEPT ![g] = [stage |-> "running", key |-> k]]
        /\ RegisterTasks(1)
        /\ UNCHANGED << lifecycle, manager, gated, reaperPermit, idleSeq, now,
                        cancelled, taskPermit >>
        /\ PublishSnapshot

(* The lifecycle check fails, or the awaited flight did: acquire returns   *)
(* its error.                                                              *)
AcquireError(c) ==
    /\ \/ /\ caller[c].pc = "answered"
          /\ caller[c].outcome = "Failed"
       \/ /\ caller[c].pc = "answered"
          /\ lifecycle # "Running"
    /\ caller' = [caller EXCEPT ![c] = IdleCaller]
    /\ UNCHANGED << lifecycle, slots, nextGeneration, flight, manager, gated, reaper,
                    reaperPermit, idleSeq, now, cancelled, taskCount, taskPermit,
                    snapshot >>

(* The acquire future is dropped while it awaits its flight.               *)
CancelAcquire(c) ==
    /\ caller[c].pc \in {"waiting", "answered"}
    /\ caller' = [caller EXCEPT ![c] = IdleCaller]
    /\ UNCHANGED << lifecycle, slots, nextGeneration, flight, manager, gated, reaper,
                    reaperPermit, idleSeq, now, cancelled, taskCount, taskPermit,
                    snapshot >>

-----------------------------------------------------------------------------
(* The detached creation flight of generation g.                           *)

FlightKey(g) == flight[g].key

(* finish_creation when it publishes the manager.                          *)
FinishPublished(g) ==
    LET k == FlightKey(g)
    IN  /\ flight[g].stage = "running"
        /\ ~cancelled
        /\ IsCurrent(k, g, "creating")
        /\ lifecycle = "Running"
        /\ slots' = [slots EXCEPT ![k] = Ready(g, 0, idleSeq + 1)]
        /\ NewIdleCandidate
        /\ manager' = [manager EXCEPT ![g] = "live"]
        /\ caller' = NotifyWaiters(slots[k].waiters, g, "Published")
        /\ flight' = [flight EXCEPT ![g].stage = "exiting"]
        /\ UNCHANGED << lifecycle, nextGeneration, gated, reaper, now, cancelled,
                        taskCount, taskPermit >>
        /\ PublishSnapshot

(* The slot is given up and its waiters fail: the factory returned an      *)
(* error, or CreationCleanup runs because the task panicked or was         *)
(* cancelled before it could finish.                                       *)
FlightFailed(g) ==
    LET k == FlightKey(g)
    IN  /\ flight[g].stage = "running"
        /\ IsCurrent(k, g, "creating")
        /\ slots' = [slots EXCEPT ![k] = Vacant]
        /\ caller' = NotifyWaiters(slots[k].waiters, g, "Failed")
        /\ flight' = [flight EXCEPT ![g].stage = "exiting"]
        /\ UNCHANGED << lifecycle, nextGeneration, manager, gated, reaper, reaperPermit,
                        idleSeq, now, cancelled, taskCount, taskPermit >>
        /\ PublishSnapshot

(* The slot was retired, drained or taken over: whatever the factory       *)
(* returned is dropped, and the cleanup finds nothing to clean.            *)
FlightStale(g) ==
    /\ flight[g].stage = "running"
    /\ ~IsCurrent(FlightKey(g), g, "creating")
    /\ flight' = [flight EXCEPT ![g].stage = "exiting"]
    /\ UNCHANGED << lifecycle, slots, nextGeneration, caller, manager, gated, reaper,
                    reaperPermit, idleSeq, now, cancelled, taskCount, taskPermit,
                    snapshot >>

FlightExit(g) ==
    /\ flight[g].stage = "exiting"
    /\ flight' = [flight EXCEPT ![g].stage = "done"]
    /\ UNCHANGED << lifecycle, slots, nextGeneration, caller, manager, gated, reaper,
                    reaperPermit, idleSeq, now, cancelled >>
    /\ UnregisterTask

-----------------------------------------------------------------------------
(* RegistryLease: release (also Drop) and Clone.                           *)

ReleaseCharged(c) ==
    /\ caller[c].counted
    /\ IsCurrent(caller[c].key, caller[c].gen, "ready")
    /\ slots[caller[c].key].leases # 0

ReleaseLease(c) ==
    LET k == caller[c].key
        charged == ReleaseCharged(c)
        last == slots[k].leases = 1
    IN  /\ caller[c].pc = "holding"
        /\ caller' = [caller EXCEPT ![c] = IdleCaller]
        /\ IF charged
           THEN /\ slots' = [slots EXCEPT ![k] =
                               Ready(slots[k].gen, slots[k].leases - 1,
                                     IF last THEN idleSeq + 1 ELSE slots[k].idle)]
                /\ IF last THEN NewIdleCandidate ELSE UNCHANGED << idleSeq, reaperPermit >>
           ELSE UNCHANGED << slots, idleSeq, reaperPermit >>
        /\ UNCHANGED << lifecycle, nextGeneration, flight, manager, gated, reaper, now,
                        cancelled, taskCount, taskPermit >>
        /\ PublishSnapshotIf(charged)

(* Mutant: a clone counts against whatever the key holds now.              *)
CloneOfKey(c) == caller[c].counted /\ slots[caller[c].key].phase = "ready"

CloneCharged(c) ==
    caller[c].counted /\ IsCurrent(caller[c].key, caller[c].gen, "ready")

(* d receives a clone of c's lease: counted only while c's generation is   *)
(* the current one.                                                        *)
CloneLease(c, d) ==
    LET k == caller[c].key
        charged == CloneCharged(c)
    IN  /\ caller[c].pc = "holding"
        /\ caller[d].pc = "idle"
        /\ caller' = [caller EXCEPT ![d] = Lease(k, caller[c].gen, charged)]
        /\ IF charged
           THEN /\ AddLease(k)
                /\ reaperPermit' = (reaperPermit \/ slots[k].idle # 0)
           ELSE UNCHANGED << slots, reaperPermit >>
        /\ UNCHANGED << lifecycle, nextGeneration, flight, manager, gated, reaper, idleSeq,
                        now, cancelled, taskCount, taskPermit >>
        /\ PublishSnapshotIf(charged)

-----------------------------------------------------------------------------
(* run_idle_reaper.                                                        *)

IdleKeys == {k \in Key : /\ slots[k].phase = "ready"
                         /\ slots[k].leases = 0
                         /\ slots[k].idle # 0}

(* next_idle_candidate: the loop picks the earliest deadline and sleeps.   *)
ReaperScan ==
    /\ reaper.pc = "scan"
    /\ ~cancelled
    /\ \/ /\ IdleKeys = {}
          /\ reaper' = ReaperAt("sleep")
       \/ \E k \in IdleKeys :
            /\ \A other \in IdleKeys : slots[k].idle <= slots[other].idle
            /\ reaper' = Sleeping(k)
    /\ UNCHANGED << lifecycle, slots, nextGeneration, caller, flight, manager, gated,
                    reaperPermit, idleSeq, now, cancelled, taskCount, taskPermit,
                    snapshot >>

ReaperNotified ==
    /\ reaper.pc = "sleep"
    /\ ~cancelled
    /\ reaperPermit
    /\ reaperPermit' = FALSE
    /\ reaper' = ReaperAt("scan")
    /\ UNCHANGED << lifecycle, slots, nextGeneration, caller, flight, manager, gated,
                    idleSeq, now, cancelled, taskCount, taskPermit, snapshot >>

(* Mutant: the reaper trusts the candidate it slept for.                   *)
StillExpiredByToken(k) == IsCurrent(k, reaper.gen, "ready")

(* take_expired_manager's checks, under the lock.                          *)
StillExpired(k) ==
    /\ IsCurrent(k, reaper.gen, "ready")
    /\ slots[k].leases = 0
    /\ slots[k].idle = reaper.idle
    /\ slots[k].idle <= now

(* The sleep elapses.  A notification may arrive after the select polled   *)
(* for one, so the candidate can be stale here: the checks decide.         *)
ReaperElapsed ==
    /\ reaper.pc = "sleep"
    /\ ~cancelled
    /\ reaper.key # NoKey
    /\ reaper.idle <= now
    /\ reaper' = ReaperAt("scan")
    /\ IF StillExpired(reaper.key)
       THEN /\ slots' = [slots EXCEPT ![reaper.key] = Vacant]
            /\ manager' = [manager EXCEPT ![reaper.gen] = "disconnecting"]
       ELSE UNCHANGED << slots, manager >>
    /\ UNCHANGED << lifecycle, nextGeneration, caller, flight, gated, reaperPermit,
                    idleSeq, now, cancelled, taskCount, taskPermit >>
    /\ PublishSnapshotIf(StillExpired(reaper.key))

(* A disconnect completes, well or not; a failure restores nothing.        *)
ReaperJoins(g) ==
    /\ reaper.pc = "sleep"
    /\ ~cancelled
    /\ manager[g] = "disconnecting"
    /\ manager' = [manager EXCEPT ![g] = "disconnected"]
    /\ reaper' = ReaperAt("scan")
    /\ UNCHANGED << lifecycle, slots, nextGeneration, caller, flight, gated, reaperPermit,
                    idleSeq, now, cancelled, taskCount, taskPermit, snapshot >>

(* The loop breaks on cancellation and aborts the pending disconnects.     *)
ReaperStops ==
    /\ reaper.pc \in {"scan", "sleep"}
    /\ cancelled
    /\ reaper' = ReaperAt("stopping")
    /\ manager' = [g \in Gen |-> IF manager[g] = "disconnecting" THEN "aborted"
                                 ELSE manager[g]]
    /\ UNCHANGED << lifecycle, slots, nextGeneration, caller, flight, gated, reaperPermit,
                    idleSeq, now, cancelled, taskCount, taskPermit, snapshot >>

ReaperExit ==
    /\ reaper.pc = "stopping"
    /\ reaper' = ReaperAt("gone")
    /\ UNCHANGED << lifecycle, slots, nextGeneration, caller, flight, manager, gated,
                    reaperPermit, idleSeq, now, cancelled >>
    /\ UnregisterTask

(* Time passes while some slot or the reaper's sleep still has a deadline. *)
DeadlinePasses ==
    /\ \/ \E k \in IdleKeys : slots[k].idle > now
       \/ reaper.idle > now
    /\ now' = now + 1
    /\ UNCHANGED << lifecycle, slots, nextGeneration, caller, flight, manager, gated, reaper,
                    reaperPermit, idleSeq, cancelled, taskCount, taskPermit, snapshot >>

-----------------------------------------------------------------------------
(* Operations on the whole registry.                                       *)

(* retire: the slot leaves the map; leases and the manager stay as they    *)
(* are, and waiters of a retired flight try again.                         *)
Retire(k) ==
    /\ slots[k].phase # "vacant"
    /\ slots' = [slots EXCEPT ![k] = Vacant]
    /\ caller' = NotifyWaiters(slots[k].waiters, slots[k].gen, "Superseded")
    /\ reaperPermit' = TRUE
    /\ UNCHANGED << lifecycle, nextGeneration, flight, manager, gated, reaper, idleSeq, now,
                    cancelled, taskCount, taskPermit >>
    /\ PublishSnapshot

(* The drain both begin_shutdown and Drop perform, and the cancellation    *)
(* and failed notifications that follow the unlock.                        *)
DrainSlots(newLifecycle) ==
    /\ lifecycle' = newLifecycle
    /\ slots' = [k \in Key |-> Vacant]
    /\ caller' = [c \in Caller |->
                    IF /\ caller[c].pc = "waiting"
                       /\ \E k \in Key : /\ IsCurrent(k, caller[c].gen, "creating")
                                         /\ c \in slots[k].waiters
                    THEN Answered(caller[c].key, "Failed")
                    ELSE caller[c]]
    /\ cancelled' = TRUE
    /\ UNCHANGED << nextGeneration, flight, manager, reaper, reaperPermit, idleSeq, now,
                    taskCount, taskPermit >>
    /\ PublishSnapshot

(* Mutant: managers with outstanding leases are left to their consumers.   *)
UnusedGenerations ==
    {slots[k].gen : k \in {q \in Key : slots[q].phase = "ready" /\ slots[q].leases = 0}}

ReadyGenerations == {slots[k].gen : k \in {q \in Key : slots[q].phase = "ready"}}

(* begin_shutdown: admission closes and every published manager's          *)
(* reconnect gate closes, in one locked block.                             *)
BeginShutdown ==
    /\ lifecycle = "Running"
    /\ gated' = gated \cup ReadyGenerations
    /\ DrainSlots("ShuttingDown")

FinishShutdown ==
    /\ lifecycle' = "Stopped"
    /\ UNCHANGED << slots, nextGeneration, caller, flight, manager, gated, reaper,
                    reaperPermit, idleSeq, now, cancelled, taskCount, taskPermit >>
    /\ PublishSnapshotIf(lifecycle # "Stopped")

(* Drop of SessionRegistryCore: no acquire can be running, each borrows    *)
(* the Arc.  Leases only hold the shared state and may outlive it.         *)
DropRegistry ==
    /\ lifecycle = "Running"
    /\ \A c \in Caller : caller[c].pc \in {"idle", "holding"}
    /\ DrainSlots("Stopped")
    /\ UNCHANGED gated

-----------------------------------------------------------------------------
(* Specifications.                                                         *)

RegistryInit ==
    /\ lifecycle = "Running"
    /\ slots = [k \in Key |-> Vacant]
    /\ nextGeneration = 0
    /\ caller = [c \in Caller |-> IdleCaller]
    /\ flight = [g \in Gen |-> [stage |-> "none", key |-> NoKey]]
    /\ manager = [g \in Gen |-> "none"]
    /\ gated = {}
    /\ reaper = ReaperAt("off")
    /\ reaperPermit = FALSE
    /\ idleSeq = 0
    /\ now = 0
    /\ cancelled = FALSE
    /\ taskCount = 0
    /\ taskPermit = FALSE
    /\ snapshot = SnapshotOf(lifecycle, slots, taskCount)

FlightStep(g) == FinishPublished(g) \/ FlightFailed(g) \/ FlightStale(g)

ReaperStep == \/ ReaperScan \/ ReaperNotified \/ ReaperElapsed
              \/ ReaperStops \/ ReaperExit
              \/ \E g \in Gen : ReaperJoins(g)

(* What the registry and its consumers do while nobody retires or stops.   *)
UseNext ==
    \/ \E c \in Caller, k \in Key :
        AcquireReady(c, k) \/ AcquireWait(c, k) \/ AcquireStart(c, k)
    \/ \E c \in Caller : AcquireError(c) \/ CancelAcquire(c) \/ ReleaseLease(c)
    \/ \E c, d \in Caller : CloneLease(c, d)
    \/ \E g \in Gen : FlightStep(g) \/ FlightExit(g)
    \/ ReaperStep
    \/ DeadlinePasses

(* SshSessionRegistry, the bare registry.                                  *)
RegistryNext == UseNext \/ DropRegistry \/ \E k \in Key : Retire(k)

RegistrySpec == RegistryInit /\ [][RegistryNext]_registryVars

(* The runtime polls every spawned task, and time passes.  Consumers may   *)
(* stop at any point: nothing is assumed of them.                          *)
RegistryFairness ==
    /\ \A g \in Gen : /\ WF_registryVars(FlightStep(g))
                      /\ WF_registryVars(FlightExit(g))
    /\ WF_registryVars(ReaperStep)
    /\ WF_registryVars(DeadlinePasses)

FairRegistrySpec == RegistrySpec /\ RegistryFairness

-----------------------------------------------------------------------------
(* Properties.                                                             *)

TypeOK ==
    /\ lifecycle \in Lifecycle
    /\ slots \in [Key -> Slot]
    /\ nextGeneration \in 0 .. MaxGen
    /\ caller \in [Caller -> CallerState]
    /\ flight \in [Gen -> Flight]
    /\ manager \in [Gen -> Manager]
    /\ gated \in SUBSET Gen
    /\ reaper \in ReaperState
    /\ reaperPermit \in BOOLEAN
    /\ idleSeq \in Nat
    /\ now \in Nat
    /\ cancelled \in BOOLEAN
    /\ taskCount \in Nat
    /\ taskPermit \in BOOLEAN

(* The leases charged to generation g.                                     *)
Charged(g) == {c \in Caller : /\ caller[c].pc = "holding"
                              /\ caller[c].counted
                              /\ caller[c].gen = g}

(* The reference count of a published generation is the number of counted  *)
(* leases of exactly that generation, whatever cancelled acquires, clones, *)
(* retirements and late drops of retired leases happened before: no        *)
(* phantom lease and no decrement of a replacement.                        *)
LeaseCountExact ==
    \A k \in Key : slots[k].phase = "ready" =>
        slots[k].leases = Cardinality(Charged(slots[k].gen))

(* A published generation has an idle deadline exactly while no lease is   *)
(* charged to it, so it is neither leaked for want of a deadline nor       *)
(* reaped under one left over from before a reacquire.                     *)
IdleIffUnused ==
    \A k \in Key : slots[k].phase = "ready" =>
        (slots[k].leases = 0 <=> slots[k].idle # 0)

(* No consumer holds a lease, counted or not, of a generation the idle     *)
(* reaper took for disconnection.                                          *)
NoLeaseOfReaped ==
    \A c \in Caller :
        caller[c].pc = "holding" => manager[caller[c].gen] \notin Reaped

(* Every acquire that awaits a flight is registered with the slot of that  *)
(* flight, and the task that will answer it is still running: cancelled    *)
(* first waiters, retirements, panics and shutdown strand nobody.          *)
NoStrandedWaiter ==
    \A c \in Caller : caller[c].pc = "waiting" =>
        LET k == caller[c].key
        IN  /\ IsCurrent(k, caller[c].gen, "creating")
            /\ c \in slots[k].waiters
            /\ flight[caller[c].gen] = [stage |-> "running", key |-> k]

(* What a key's slot holds is the newest generation ever started for that  *)
(* key: a flight that was retired never publishes over a later one.        *)
CurrentIsNewest ==
    \A k \in Key : slots[k].phase # "vacant" =>
        \A g \in Gen : flight[g].key = k => g <= slots[k].gen

(* The task counter that shutdown waits on is the number of registry tasks *)
(* whose guard has not been dropped.                                       *)
LiveFlights == {g \in Gen : flight[g].stage \in {"running", "exiting"}}

ReaperLives == reaper.pc \in {"scan", "sleep", "stopping"}

TaskCountExact ==
    taskCount = Cardinality(LiveFlights) + (IF ReaperLives THEN 1 ELSE 0)

(* The last snapshot in the watch channel is never behind: it shows the    *)
(* leases consumers hold of current generations, the keys being created or *)
(* idle and the tasks still alive.                                         *)
SnapshotTruthful ==
    /\ snapshot.state = lifecycle
    /\ snapshot.activeLeases =
         Cardinality({c \in Caller : /\ caller[c].pc = "holding"
                                     /\ caller[c].counted
                                     /\ IsCurrent(caller[c].key, caller[c].gen, "ready")})
    /\ snapshot.creatingCount = Cardinality({k \in Key : slots[k].phase = "creating"})
    /\ snapshot.idleCount = Cardinality(IdleKeys)
    /\ snapshot.taskCount = Cardinality(LiveFlights) + (IF ReaperLives THEN 1 ELSE 0)

(* The reaper takes only a manager that has been unused for a whole        *)
(* timeout since its last release: any reacquire in between restarts it.   *)
ReapsOnlyExpired ==
    [][\A g \in Gen : (manager[g] \notin Reaped /\ manager'[g] \in Reaped) =>
          \E k \in Key : /\ IsCurrent(k, g, "ready")
                         /\ k \in IdleKeys
                         /\ slots[k].idle <= now]_registryVars

(* Every acquire that waits for a flight is answered (or given up).        *)
EveryWaiterAnswered ==
    \A c \in Caller : (caller[c].pc = "waiting") ~> (caller[c].pc # "waiting")

(* A generation without leases does not stay published for ever: no lost   *)
(* wakeup leaves the reaper asleep past its deadline.                      *)
IdleGenerationLeaves ==
    \A g \in Gen : (\E k \in IdleKeys : slots[k].gen = g)
                      ~> ~(\E k \in IdleKeys : slots[k].gen = g)

(* Seen from its consumers the registry is SharedSessions: retirement,     *)
(* cancelled acquires, late drops and the reaper's races included, a key   *)
(* has one current session, only that one is handed out, and only a        *)
(* session nobody uses, by a counted lease or not, is disconnected.        *)
Sessions == INSTANCE SharedSessions WITH
    admitting <- lifecycle = "Running",
    started   <- nextGeneration,
    current   <- [k \in Key |-> slots[k].gen],
    open      <- {k \in Key : slots[k].phase = "ready"},
    use       <- [c \in Caller |-> IF caller[c].pc = "holding" THEN caller[c].gen ELSE 0],
    expired   <- {g \in Gen : manager[g] \in Reaped}

ImplementsSharedSessions == Sessions!Spec

=============================================================================
