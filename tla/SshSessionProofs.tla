---------------------------- MODULE SshSessionProofs ----------------------------
(***************************************************************************)
(* Theorems about the sharing of SSH sessions: about the bare registry,    *)
(* for every set of keys, every finite set of consumers and all bounds,    *)
(* and about the session service, for every set of shutdown callers too.   *)
(*                                                                         *)
(* RegistryInv, the registry's inductive invariant, is kept by the         *)
(* service, which only adds the drain and changes of managers that no slot *)
(* shows any more.  On top of it ServiceInv says what is true before and   *)
(* after admission closed, and what each stage of the shutdown driver may  *)
(* rely on.                                                                *)
(***************************************************************************)
EXTENDS SshSessionService, FiniteSetTheorems, TLAPS

-----------------------------------------------------------------------------
(* The registry                                                            *)

(* Generations are numbered in the order their flights start; one that has *)
(* not started has no key, no task and no manager.                         *)
GenerationInv ==
    \A g \in Gen : IF g <= nextGeneration
                   THEN /\ flight[g].key \in Key
                        /\ flight[g].stage # "none"
                        /\ flight[g].stage = "running" => manager[g] = "none"
                   ELSE /\ flight[g] = [stage |-> "none", key |-> NoKey]
                        /\ manager[g] = "none"

(* A slot that is taken belongs to a generation of its key: being created  *)
(* while that flight runs, ready once it has published a manager that      *)
(* nobody has stopped.                                                     *)
SlotInv ==
    \A k \in Key :
        /\ slots[k].phase = "vacant" => slots[k] = Vacant
        /\ slots[k].phase # "vacant" =>
               /\ slots[k].gen \in Gen
               /\ slots[k].gen <= nextGeneration
               /\ flight[slots[k].gen].key = k
        /\ slots[k].phase = "creating" => flight[slots[k].gen].stage = "running"
        /\ slots[k].phase = "ready" =>
               /\ flight[slots[k].gen].stage \in {"exiting", "done"}
               /\ manager[slots[k].gen] = "live"

(* A lease names a generation that was published under the lease's key; a  *)
(* lease that is not counted is of a generation that is no longer current. *)
LeaseInv ==
    \A c \in Caller : caller[c].pc = "holding" =>
        /\ caller[c].gen \in Gen
        /\ caller[c].gen <= nextGeneration
        /\ flight[caller[c].gen].key = caller[c].key
        /\ flight[caller[c].gen].stage \in {"exiting", "done"}
        /\ ~caller[c].counted => ~IsCurrent(caller[c].key, caller[c].gen, "ready")

(* An acquire that waits names the key it asked for.                       *)
WaitsForKey == \A c \in Caller : caller[c].pc = "waiting" => caller[c].key \in Key

(* The inductive invariant.                                                *)
RegistryInv ==
    /\ TypeOK
    /\ TaskCountExact
    /\ GenerationInv
    /\ SlotInv
    /\ CurrentIsNewest
    /\ NoStrandedWaiter
    /\ WaitsForKey
    /\ LeaseInv
    /\ LeaseCountExact
    /\ IdleIffUnused
    /\ NoLeaseOfReaped

-----------------------------------------------------------------------------
(* Facts about the values and the shared pieces.                           *)

(* Generation 0 stands for none.                                           *)
LEMMA NoGenZero == 0 \notin Gen
  BY BoundAssumption DEF Gen

(* Generations are natural numbers up to the bound.                        *)
LEMMA GenIsNat == Gen \subseteq Nat /\ Gen \subseteq 0 .. MaxGen
  BY BoundAssumption DEF Gen

(* There are finitely many live flights.                                   *)
LEMMA LiveFlightsCounted == IsFiniteSet(LiveFlights) /\ Cardinality(LiveFlights) \in Nat
<1>1. IsFiniteSet(Gen)
  BY BoundAssumption, FS_Interval DEF Gen
<1>2. LiveFlights \in SUBSET Gen
  BY DEF LiveFlights
<1>3. QED
  BY <1>1, <1>2, FS_Subset, FS_CardinalityType

(* There are finitely many leases of a generation.                         *)
LEMMA ChargedCounted ==
    ASSUME NEW g PROVE IsFiniteSet(Charged(g)) /\ Cardinality(Charged(g)) \in Nat
<1>1. Charged(g) \in SUBSET Caller
  BY DEF Charged
<1>2. QED
  BY <1>1, CallerAssumption, FS_Subset, FS_CardinalityType

(* The slot constructors build slots.                                      *)
LEMMA SlotValues ==
    /\ Vacant \in Slot
    /\ \A g \in 0 .. MaxGen, ws \in SUBSET Caller : Creating(g, ws) \in Slot
    /\ \A g \in 0 .. MaxGen, n \in Nat, i \in Nat : Ready(g, n, i) \in Slot
  BY BoundAssumption DEF Vacant, Creating, Ready, Slot

(* The constructors of a consumer's state build such states.               *)
LEMMA CallerValues ==
    /\ IdleCaller \in CallerState
    /\ \A k \in Key \cup {NoKey}, g \in 0 .. MaxGen : Waiting(k, g) \in CallerState
    /\ \A k \in Key \cup {NoKey}, out \in Outcome : Answered(k, out) \in CallerState
    /\ \A k \in Key \cup {NoKey}, g \in 0 .. MaxGen, b \in BOOLEAN :
            Lease(k, g, b) \in CallerState
  BY BoundAssumption DEF IdleCaller, Waiting, Answered, Lease, CallerState, Outcome

(* So does the reaper's.                                                   *)
LEMMA ReaperValues ==
    \A at \in {"off", "scan", "sleep", "stopping", "gone"} : ReaperAt(at) \in ReaperState
  BY BoundAssumption DEF ReaperAt, ReaperState

(* Answering waiters changes nothing else, and keeps the type.             *)
LEMMA NotifyEffect ==
    ASSUME TypeOK, NEW ws, NEW g, NEW out \in Outcome,
           caller' = NotifyWaiters(ws, g, out)
    PROVE  /\ caller' \in [Caller -> CallerState]
           /\ \A c \in Caller :
                IF c \in ws /\ caller[c].pc = "waiting" /\ caller[c].gen = g
                THEN caller'[c] = Answered(caller[c].key, out)
                ELSE caller'[c] = caller[c]
<1>1. \A c \in Caller : Answered(caller[c].key, out) \in CallerState
  BY CallerValues DEF TypeOK, CallerState
<1>. QED
  BY <1>1 DEF NotifyWaiters, TypeOK

(* Answering waiters leaves those who hold a lease alone.                  *)
LEMMA NotifyKeepsLeases ==
    ASSUME TypeOK, NEW ws, NEW g, NEW out \in Outcome,
           caller' = NotifyWaiters(ws, g, out)
    PROVE  \A c \in Caller :
              caller[c].pc = "holding" \/ caller'[c].pc = "holding" => caller'[c] = caller[c]
  BY DEF NotifyWaiters, Answered, TypeOK

-----------------------------------------------------------------------------
(* The types are preserved; that the task counter stays a natural number   *)
(* is a consequence of its exactness.                                      *)
LEMMA TypeStep == RegistryInv /\ [RegistryNext]_registryVars => TypeOK'
<1>. SUFFICES ASSUME RegistryInv, [RegistryNext]_registryVars PROVE TypeOK'
  OBVIOUS
<1>. USE BoundAssumption DEF TypeOK, RegistryInv
<1>1. ASSUME NEW c \in Caller, NEW k \in Key, AcquireReady(c, k) PROVE TypeOK'
  <2>1. slots[k].gen \in 0 .. MaxGen /\ slots[k].leases + 1 \in Nat
    BY DEF Slot
  <2>2. slots' \in [Key -> Slot] /\ caller' \in [Caller -> CallerState]
    BY <1>1, <2>1, SlotValues, CallerValues DEF AcquireReady, AddLease
  <2>3. reaperPermit' \in BOOLEAN
    BY <1>1 DEF AcquireReady
  <2>4. reaper' \in ReaperState /\ taskCount' \in Nat
    BY <1>1, ReaperValues DEF AcquireReady, RegisterTasks
  <2>. QED
    BY <1>1, <2>2, <2>3, <2>4 DEF AcquireReady
<1>2. ASSUME NEW c \in Caller, NEW k \in Key, AcquireWait(c, k) PROVE TypeOK'
  <2>1. slots[k].gen \in 0 .. MaxGen /\ slots[k].waiters \cup {c} \in SUBSET Caller
    BY DEF Slot
  <2>2. slots' \in [Key -> Slot] /\ caller' \in [Caller -> CallerState]
    BY <1>2, <2>1, SlotValues, CallerValues DEF AcquireWait
  <2>3. reaper' \in ReaperState /\ taskCount' \in Nat
    BY <1>2, ReaperValues DEF AcquireWait, RegisterTasks
  <2>. QED
    BY <1>2, <2>2, <2>3 DEF AcquireWait
<1>3. ASSUME NEW c \in Caller, NEW k \in Key, AcquireStart(c, k) PROVE TypeOK'
  <2>1. nextGeneration + 1 \in 0 .. MaxGen
    BY <1>3, GenIsNat DEF AcquireStart
  <2>2. slots' \in [Key -> Slot] /\ caller' \in [Caller -> CallerState]
    BY <1>3, <2>1, SlotValues, CallerValues DEF AcquireStart
  <2>3. reaper' \in ReaperState /\ taskCount' \in Nat
    BY <1>3, ReaperValues DEF AcquireStart, RegisterTasks
  <2>4. flight' \in [Gen -> Flight]
    BY <1>3 DEF AcquireStart, Flight
  <2>. QED
    BY <1>3, <2>1, <2>2, <2>3, <2>4 DEF AcquireStart
<1>4. ASSUME NEW c \in Caller, AcquireError(c) PROVE TypeOK'
  BY <1>4, CallerValues DEF AcquireError
<1>5. ASSUME NEW c \in Caller, CancelAcquire(c) PROVE TypeOK'
  BY <1>5, CallerValues DEF CancelAcquire
<1>6. ASSUME NEW c \in Caller, ReleaseLease(c) PROVE TypeOK'
  <2>1. caller' \in [Caller -> CallerState]
    BY <1>6, CallerValues DEF ReleaseLease
  <2>2. CASE ReleaseCharged(c)
    <3>1. caller[c].key \in Key
      BY <1>6 DEF ReleaseLease, LeaseInv, GenerationInv
    <3>2. /\ slots[caller[c].key].leases - 1 \in Nat
          /\ slots[caller[c].key].gen \in 0 .. MaxGen
          /\ slots[caller[c].key].idle \in Nat
          /\ idleSeq + 1 \in Nat
      BY <2>2, <3>1 DEF ReleaseCharged, Slot
    <3>3. slots' \in [Key -> Slot]
      BY <1>6, <2>2, <3>1, <3>2, SlotValues DEF ReleaseLease
    <3>4. NewIdleCandidate \/ UNCHANGED << idleSeq, reaperPermit >>
      BY <1>6, <2>2 DEF ReleaseLease
    <3>5. idleSeq' \in Nat /\ reaperPermit' \in BOOLEAN
      <4>1. CASE NewIdleCandidate
        BY <4>1 DEF NewIdleCandidate
      <4>2. CASE UNCHANGED << idleSeq, reaperPermit >>
        BY <4>2
      <4>. QED
        BY <3>4, <4>1, <4>2
    <3>. QED
      BY <1>6, <2>1, <3>3, <3>5 DEF ReleaseLease
  <2>3. CASE ~ReleaseCharged(c)
    BY <1>6, <2>1, <2>3 DEF ReleaseLease
  <2>. QED
    BY <2>2, <2>3
<1>7. ASSUME NEW c \in Caller, NEW d \in Caller, CloneLease(c, d) PROVE TypeOK'
  <2>1. /\ caller[c].key \in Key
        /\ caller[c].gen \in 0 .. MaxGen
        /\ CloneCharged(c) \in BOOLEAN
    BY <1>7 DEF CloneLease, LeaseInv, GenerationInv, CallerState, CloneCharged
  <2>2. caller' \in [Caller -> CallerState]
    BY <1>7, <2>1, CallerValues DEF CloneLease
  <2>3. CASE CloneCharged(c)
    <3>1. slots[caller[c].key].gen \in 0 .. MaxGen /\ slots[caller[c].key].leases + 1 \in Nat
      BY <2>1 DEF Slot
    <3>2. slots' \in [Key -> Slot]
      BY <1>7, <2>1, <2>3, <3>1, SlotValues DEF CloneLease, AddLease
    <3>3. reaperPermit' \in BOOLEAN
      BY <1>7, <2>3 DEF CloneLease
    <3>. QED
      BY <1>7, <2>2, <3>2, <3>3 DEF CloneLease
  <2>4. CASE ~CloneCharged(c)
    BY <1>7, <2>2, <2>4 DEF CloneLease
  <2>. QED
    BY <2>3, <2>4
<1>8. ASSUME NEW g \in Gen, FinishPublished(g) PROVE TypeOK'
  <2>1. caller' \in [Caller -> CallerState]
    BY <1>8, NotifyEffect DEF FinishPublished, Outcome
  <2>2. slots' \in [Key -> Slot]
    <3>1. Ready(g, 0, idleSeq + 1) \in Slot
      BY GenIsNat, SlotValues
    <3>2. slots' = [slots EXCEPT ![FlightKey(g)] = Ready(g, 0, idleSeq + 1)]
      BY <1>8 DEF FinishPublished
    <3>. QED
      BY <3>1, <3>2
  <2>3. flight' \in [Gen -> Flight] /\ manager' \in [Gen -> Manager]
    BY <1>8 DEF FinishPublished, Flight, Manager
  <2>4. idleSeq' \in Nat /\ reaperPermit' \in BOOLEAN
    BY <1>8 DEF FinishPublished, NewIdleCandidate
  <2>. QED
    BY <1>8, <2>1, <2>2, <2>3, <2>4 DEF FinishPublished
<1>9. ASSUME NEW g \in Gen, FlightFailed(g) PROVE TypeOK'
  <2>1. caller' \in [Caller -> CallerState]
    BY <1>9, NotifyEffect DEF FlightFailed, Outcome
  <2>2. slots' \in [Key -> Slot] /\ flight' \in [Gen -> Flight]
    BY <1>9, SlotValues DEF FlightFailed, Flight
  <2>. QED
    BY <1>9, <2>1, <2>2 DEF FlightFailed
<1>10. ASSUME NEW g \in Gen, FlightStale(g) PROVE TypeOK'
  BY <1>10 DEF FlightStale, Flight
<1>11. ASSUME NEW g \in Gen, FlightExit(g) PROVE TypeOK'
  <2>1. g \in LiveFlights
    BY <1>11 DEF FlightExit, LiveFlights
  <2>2. Cardinality(LiveFlights) # 0
    BY <2>1, LiveFlightsCounted, FS_EmptySet
  <2>3. taskCount - 1 \in Nat
    BY <2>2, LiveFlightsCounted DEF TaskCountExact
  <2>4. flight' \in [Gen -> Flight]
    BY <1>11 DEF FlightExit, Flight
  <2>. QED
    BY <1>11, <2>3, <2>4 DEF FlightExit, UnregisterTask
<1>12. ASSUME ReaperScan PROVE TypeOK'
  <2>1. reaper' \in ReaperState
    BY <1>12, ReaperValues DEF ReaperScan, Sleeping, IdleKeys, Slot, ReaperState
  <2>. QED
    BY <1>12, <2>1 DEF ReaperScan
<1>13. ASSUME ReaperNotified PROVE TypeOK'
  <2>1. reaper' \in ReaperState /\ reaperPermit' \in BOOLEAN
    BY <1>13, ReaperValues DEF ReaperNotified
  <2>. QED
    BY <1>13, <2>1 DEF ReaperNotified
<1>14. ASSUME ReaperElapsed PROVE TypeOK'
  <2>1. slots' \in [Key -> Slot] /\ manager' \in [Gen -> Manager]
    BY <1>14, SlotValues DEF ReaperElapsed, Manager, Reaped
  <2>. QED
    BY <1>14, <2>1, ReaperValues DEF ReaperElapsed
<1>15. ASSUME NEW g \in Gen, ReaperJoins(g) PROVE TypeOK'
  BY <1>15, ReaperValues DEF ReaperJoins, Manager, Reaped
<1>16. ASSUME ReaperStops PROVE TypeOK'
  BY <1>16, ReaperValues DEF ReaperStops, Manager, Reaped
<1>17. ASSUME ReaperExit PROVE TypeOK'
  <2>1. taskCount - 1 \in Nat
    BY <1>17, LiveFlightsCounted DEF ReaperExit, TaskCountExact, ReaperLives
  <2>. QED
    BY <1>17, <2>1, ReaperValues DEF ReaperExit, UnregisterTask
<1>18. ASSUME DeadlinePasses PROVE TypeOK'
  BY <1>18 DEF DeadlinePasses
<1>19. ASSUME NEW k \in Key, Retire(k) PROVE TypeOK'
  <2>1. caller' \in [Caller -> CallerState]
    BY <1>19, NotifyEffect DEF Retire, Outcome
  <2>. QED
    BY <1>19, <2>1, SlotValues DEF Retire
<1>20. ASSUME DropRegistry PROVE TypeOK'
  <2>1. \A c \in Caller : Answered(caller[c].key, "Failed") \in CallerState
    BY CallerValues DEF CallerState, Outcome
  <2>2. caller' \in [Caller -> CallerState]
    BY <1>20, <2>1 DEF DropRegistry, DrainSlots
  <2>. QED
    BY <1>20, <2>2, SlotValues DEF DropRegistry, DrainSlots, Lifecycle
<1>21. CASE UNCHANGED registryVars
  BY <1>21 DEF registryVars
<1>. QED
  BY <1>1, <1>2, <1>3, <1>4, <1>5, <1>6, <1>7, <1>8, <1>9, <1>10, <1>11, <1>12, <1>13,
     <1>14, <1>15, <1>16, <1>17, <1>18, <1>19, <1>20, <1>21
     DEF RegistryNext, UseNext, FlightStep, ReaperStep

-----------------------------------------------------------------------------
(* Operations on leases keep who owns each slot, and in which phase.       *)

SlotsKept ==
    \A q \in Key : /\ slots'[q].phase = slots[q].phase
                   /\ slots'[q].gen = slots[q].gen
                   /\ slots[q].phase # "ready" => slots'[q] = slots[q]

LEMMA LeaseOpEffect ==
    ASSUME RegistryInv, NEW c \in Caller,
           \/ \E k \in Key : AcquireReady(c, k)
           \/ ReleaseLease(c)
           \/ \E d \in Caller : CloneLease(c, d)
    PROVE  SlotsKept
<1>. USE DEF SlotsKept, RegistryInv, TypeOK, Slot
<1>1. ASSUME NEW k \in Key, NEW i \in Nat, NEW n \in Nat, slots[k].phase = "ready",
             slots' = [slots EXCEPT ![k] = Ready(slots[k].gen, n, i)]
      PROVE  SlotsKept
  BY <1>1 DEF Ready
<1>2. ASSUME NEW k \in Key, slots[k].phase = "ready", AddLease(k)
      PROVE  SlotsKept
  <2>1. slots[k].leases + 1 \in Nat
    OBVIOUS
  <2>. QED
    BY <1>1, <1>2, <2>1 DEF AddLease
<1>3. CASE \E k \in Key : AcquireReady(c, k)
  BY <1>3, <1>2 DEF AcquireReady
<1>4. ASSUME caller[c].pc = "holding" PROVE caller[c].key \in Key
  BY <1>4 DEF LeaseInv, GenerationInv
<1>5. CASE ReleaseLease(c)
  <2>1. CASE ReleaseCharged(c)
    <3>1. PICK i \in Nat : slots' = [slots EXCEPT ![caller[c].key] =
              Ready(slots[caller[c].key].gen, slots[caller[c].key].leases - 1, i)]
      <4>1. caller[c].key \in Key /\ idleSeq + 1 \in Nat
        BY <1>4, <1>5 DEF ReleaseLease
      <4>. QED
        BY <1>5, <2>1, <4>1 DEF ReleaseLease
    <3>2. /\ caller[c].key \in Key
          /\ slots[caller[c].key].phase = "ready"
          /\ slots[caller[c].key].leases - 1 \in Nat
      BY <1>4, <1>5, <2>1 DEF ReleaseLease, ReleaseCharged, IsCurrent
    <3>. QED
      BY <1>1, <3>1, <3>2
  <2>2. CASE ~ReleaseCharged(c)
    BY <1>5, <2>2 DEF ReleaseLease
  <2>. QED
    BY <2>1, <2>2
<1>6. ASSUME NEW d \in Caller, CloneLease(c, d)
      PROVE  SlotsKept
  <2>1. CASE CloneCharged(c)
    BY <1>2, <1>4, <1>6, <2>1 DEF CloneLease, CloneCharged, IsCurrent
  <2>2. CASE ~CloneCharged(c)
    BY <1>6, <2>2 DEF CloneLease
  <2>. QED
    BY <2>1, <2>2
<1>. QED
  BY <1>3, <1>5, <1>6

-----------------------------------------------------------------------------
(* Generations: only a start numbers one, and only its flight gives it a   *)
(* manager.                                                                *)
LEMMA GenerationStep == RegistryInv /\ [RegistryNext]_registryVars => GenerationInv'
<1>. SUFFICES ASSUME RegistryInv, [RegistryNext]_registryVars PROVE GenerationInv'
  OBVIOUS
<1>. USE BoundAssumption DEF RegistryInv, TypeOK
<1>0. ASSUME UNCHANGED << nextGeneration, flight, manager >> PROVE GenerationInv'
  BY <1>0 DEF GenerationInv
<1>1. ASSUME NEW c \in Caller, NEW k \in Key, AcquireReady(c, k) PROVE GenerationInv'
  BY <1>1, <1>0 DEF AcquireReady
<1>2. ASSUME NEW c \in Caller, NEW k \in Key, AcquireWait(c, k) PROVE GenerationInv'
  BY <1>2, <1>0 DEF AcquireWait
<1>3. ASSUME NEW c \in Caller, NEW k \in Key, AcquireStart(c, k) PROVE GenerationInv'
  BY <1>3, GenIsNat DEF AcquireStart, GenerationInv, Gen
<1>4. ASSUME NEW c \in Caller, AcquireError(c) PROVE GenerationInv'
  BY <1>4, <1>0 DEF AcquireError
<1>5. ASSUME NEW c \in Caller, CancelAcquire(c) PROVE GenerationInv'
  BY <1>5, <1>0 DEF CancelAcquire
<1>6. ASSUME NEW c \in Caller, ReleaseLease(c) PROVE GenerationInv'
  BY <1>6, <1>0 DEF ReleaseLease
<1>7. ASSUME NEW c \in Caller, NEW d \in Caller, CloneLease(c, d) PROVE GenerationInv'
  BY <1>7, <1>0 DEF CloneLease
<1>8. ASSUME NEW g \in Gen, FinishPublished(g) PROVE GenerationInv'
  BY <1>8 DEF FinishPublished, GenerationInv, Flight
<1>9. ASSUME NEW g \in Gen, FlightFailed(g) PROVE GenerationInv'
  BY <1>9 DEF FlightFailed, GenerationInv, Flight
<1>10. ASSUME NEW g \in Gen, FlightStale(g) PROVE GenerationInv'
  BY <1>10 DEF FlightStale, GenerationInv, Flight
<1>11. ASSUME NEW g \in Gen, FlightExit(g) PROVE GenerationInv'
  BY <1>11 DEF FlightExit, GenerationInv, Flight
<1>12. ASSUME ReaperScan PROVE GenerationInv'
  BY <1>12, <1>0 DEF ReaperScan
<1>13. ASSUME ReaperNotified PROVE GenerationInv'
  BY <1>13, <1>0 DEF ReaperNotified
<1>14. ASSUME ReaperElapsed PROVE GenerationInv'
  <2>1. CASE StillExpired(reaper.key)
    <3>1. manager[reaper.gen] = "live" /\ flight[reaper.gen].stage # "running"
          /\ reaper.gen <= nextGeneration
      BY <1>14, <2>1 DEF ReaperElapsed, StillExpired, IsCurrent, SlotInv, ReaperState
    <3>. QED
      BY <1>14, <2>1, <3>1 DEF ReaperElapsed, GenerationInv
  <2>2. CASE ~StillExpired(reaper.key)
    BY <1>14, <2>2, <1>0 DEF ReaperElapsed
  <2>. QED
    BY <2>1, <2>2
<1>15. ASSUME NEW g \in Gen, ReaperJoins(g) PROVE GenerationInv'
  BY <1>15 DEF ReaperJoins, GenerationInv
<1>16. ASSUME ReaperStops PROVE GenerationInv'
  BY <1>16 DEF ReaperStops, GenerationInv
<1>17. ASSUME ReaperExit PROVE GenerationInv'
  BY <1>17, <1>0 DEF ReaperExit
<1>18. ASSUME DeadlinePasses PROVE GenerationInv'
  BY <1>18, <1>0 DEF DeadlinePasses
<1>19. ASSUME NEW k \in Key, Retire(k) PROVE GenerationInv'
  BY <1>19, <1>0 DEF Retire
<1>20. ASSUME DropRegistry PROVE GenerationInv'
  BY <1>20, <1>0 DEF DropRegistry, DrainSlots
<1>21. CASE UNCHANGED registryVars
  BY <1>21, <1>0 DEF registryVars
<1>. QED
  BY <1>1, <1>2, <1>3, <1>4, <1>5, <1>6, <1>7, <1>8, <1>9, <1>10, <1>11, <1>12, <1>13,
     <1>14, <1>15, <1>16, <1>17, <1>18, <1>19, <1>20, <1>21
     DEF RegistryNext, UseNext, FlightStep, ReaperStep

-----------------------------------------------------------------------------
(* Slots: publication, retirement and reaping keep each slot with a        *)
(* generation of its own key, in the phase its flight has reached.         *)
LEMMA SlotStep == RegistryInv /\ TypeOK' /\ [RegistryNext]_registryVars => SlotInv'
<1>. SUFFICES ASSUME RegistryInv /\ TypeOK', [RegistryNext]_registryVars PROVE SlotInv'
  OBVIOUS
<1>. USE BoundAssumption DEF RegistryInv, TypeOK
<1>0. ASSUME UNCHANGED << slots, nextGeneration, flight, manager >> PROVE SlotInv'
  BY <1>0 DEF SlotInv
<1>1. ASSUME NEW c \in Caller, NEW k \in Key, AcquireReady(c, k) PROVE SlotInv'
  <2>1. SlotsKept
    BY <1>1, LeaseOpEffect
  <2>. QED
    BY <1>1, <2>1 DEF AcquireReady, SlotsKept, SlotInv
<1>2. ASSUME NEW c \in Caller, NEW k \in Key, AcquireWait(c, k) PROVE SlotInv'
  BY <1>2 DEF AcquireWait, Creating, SlotInv
<1>3. ASSUME NEW c \in Caller, NEW k \in Key, AcquireStart(c, k) PROVE SlotInv'
  <2>1. /\ slots' = [slots EXCEPT ![k] = Creating(nextGeneration + 1, {c})]
        /\ flight' = [flight EXCEPT ![nextGeneration + 1] = [stage |-> "running", key |-> k]]
        /\ nextGeneration' = nextGeneration + 1
        /\ nextGeneration + 1 \in Gen
        /\ UNCHANGED manager
    BY <1>3 DEF AcquireStart
  <2>2. ASSUME NEW q \in Key, q # k
        PROVE  /\ slots'[q] = slots[q]
               /\ slots[q].phase # "vacant" => flight'[slots[q].gen] = flight[slots[q].gen]
    BY <2>1, <2>2 DEF SlotInv
  <2>3. slots'[k] = Creating(nextGeneration + 1, {c})
    BY <2>1
  <2>4. ASSUME NEW q \in Key PROVE
          /\ slots'[q].phase = "vacant" => slots'[q] = Vacant
          /\ slots'[q].phase # "vacant" => /\ slots'[q].gen \in Gen
                                          /\ slots'[q].gen <= nextGeneration'
                                          /\ flight'[slots'[q].gen].key = q
          /\ slots'[q].phase = "creating" => flight'[slots'[q].gen].stage = "running"
          /\ slots'[q].phase = "ready" =>
                 /\ flight'[slots'[q].gen].stage \in {"exiting", "done"}
                 /\ manager'[slots'[q].gen] = "live"
    <3>1. CASE q = k
      <4>1. flight'[nextGeneration + 1] = [stage |-> "running", key |-> k]
        BY <2>1
      <4>2. slots'[k].phase = "creating" /\ slots'[k].gen = nextGeneration + 1
        BY <2>3 DEF Creating
      <4>3. nextGeneration + 1 \in Gen /\ nextGeneration + 1 <= nextGeneration'
        BY <2>1, GenIsNat
      <4>4. flight'[slots'[k].gen].key = k /\ flight'[slots'[k].gen].stage = "running"
        BY <4>1, <4>2
      <4>. QED
        BY <3>1, <4>2, <4>3, <4>4
    <3>2. CASE q # k
      <4>1. /\ slots'[q] = slots[q]
            /\ slots[q].phase # "vacant" => flight'[slots[q].gen] = flight[slots[q].gen]
        BY <2>2, <3>2
      <4>2. slots[q].phase # "vacant" => slots[q].gen <= nextGeneration'
        <5>1. nextGeneration' = nextGeneration + 1 /\ nextGeneration \in Nat
          BY <2>1
        <5>2. slots[q].phase # "vacant" => slots[q].gen \in Nat /\ slots[q].gen <= nextGeneration
          BY GenIsNat DEF SlotInv
        <5>. QED
          BY <5>1, <5>2
      <4>3. UNCHANGED manager
        BY <2>1
      <4>. QED
        BY <4>1, <4>2, <4>3 DEF SlotInv
    <3>. QED
      BY <3>1, <3>2
  <2>. QED
    BY <2>4 DEF SlotInv
<1>4. ASSUME NEW c \in Caller, AcquireError(c) PROVE SlotInv'
  BY <1>4, <1>0 DEF AcquireError
<1>5. ASSUME NEW c \in Caller, CancelAcquire(c) PROVE SlotInv'
  BY <1>5, <1>0 DEF CancelAcquire
<1>6. ASSUME NEW c \in Caller, ReleaseLease(c) PROVE SlotInv'
  <2>1. SlotsKept
    BY <1>6, LeaseOpEffect
  <2>. QED
    BY <1>6, <2>1 DEF ReleaseLease, SlotsKept, SlotInv
<1>7. ASSUME NEW c \in Caller, NEW d \in Caller, CloneLease(c, d) PROVE SlotInv'
  <2>1. SlotsKept
    BY <1>7, LeaseOpEffect
  <2>. QED
    BY <1>7, <2>1 DEF CloneLease, SlotsKept, SlotInv
<1>8. ASSUME NEW g \in Gen, FinishPublished(g) PROVE SlotInv'
  <2>1. /\ flight[g].key \in Key
        /\ IsCurrent(flight[g].key, g, "creating")
        /\ slots' = [slots EXCEPT ![flight[g].key] = Ready(g, 0, idleSeq + 1)]
        /\ flight' = [flight EXCEPT ![g].stage = "exiting"]
        /\ manager' = [manager EXCEPT ![g] = "live"]
        /\ UNCHANGED nextGeneration
    BY <1>8 DEF FinishPublished, FlightKey, GenerationInv
  <2>2. ASSUME NEW q \in Key, q # flight[g].key
        PROVE  slots'[q] = slots[q] /\ (slots[q].phase # "vacant" => slots[q].gen # g)
    BY <2>1, <2>2 DEF SlotInv
  <2>3. slots'[flight[g].key] = Ready(g, 0, idleSeq + 1)
    BY <2>1
  <2>4. flight'[g].key = flight[g].key /\ flight'[g].stage = "exiting"
    BY <2>1 DEF Flight
  <2>5. \A h \in Gen : h # g => flight'[h] = flight[h] /\ manager'[h] = manager[h]
    BY <2>1
  <2>6. manager'[g] = "live" /\ g <= nextGeneration
    BY <2>1 DEF IsCurrent, SlotInv
  <2>. QED
    BY <2>1, <2>2, <2>3, <2>4, <2>5, <2>6 DEF Ready, SlotInv
<1>9. ASSUME NEW g \in Gen, FlightFailed(g) PROVE SlotInv'
  <2>1. /\ flight[g].key \in Key
        /\ IsCurrent(flight[g].key, g, "creating")
        /\ slots' = [slots EXCEPT ![flight[g].key] = Vacant]
        /\ flight' = [flight EXCEPT ![g].stage = "exiting"]
        /\ UNCHANGED << nextGeneration, manager >>
    BY <1>9 DEF FlightFailed, FlightKey, GenerationInv
  <2>2. ASSUME NEW q \in Key, q # flight[g].key
        PROVE  slots'[q] = slots[q] /\ (slots[q].phase # "vacant" => slots[q].gen # g)
    BY <2>1, <2>2 DEF SlotInv
  <2>. QED
    BY <2>1, <2>2 DEF Vacant, SlotInv
<1>10. ASSUME NEW g \in Gen, FlightStale(g) PROVE SlotInv'
  <2>1. /\ ~IsCurrent(flight[g].key, g, "creating")
        /\ flight[g].stage = "running"
        /\ flight' = [flight EXCEPT ![g].stage = "exiting"]
        /\ UNCHANGED << slots, nextGeneration, manager >>
    BY <1>10 DEF FlightStale, FlightKey
  <2>2. \A q \in Key : slots[q].phase # "vacant" => slots[q].gen # g
    BY <2>1 DEF SlotInv, IsCurrent, Slot
  <2>. QED
    BY <2>1, <2>2 DEF SlotInv
<1>11. ASSUME NEW g \in Gen, FlightExit(g) PROVE SlotInv'
  <2>1. /\ flight[g].stage = "exiting"
        /\ flight' = [flight EXCEPT ![g].stage = "done"]
        /\ UNCHANGED << slots, nextGeneration, manager >>
    BY <1>11 DEF FlightExit
  <2>2. flight'[g].key = flight[g].key /\ flight'[g].stage = "done"
    BY <2>1 DEF Flight
  <2>3. \A h \in Gen : h # g => flight'[h] = flight[h]
    BY <2>1
  <2>. QED
    BY <2>1, <2>2, <2>3 DEF SlotInv
<1>12. ASSUME ReaperScan PROVE SlotInv'
  BY <1>12, <1>0 DEF ReaperScan
<1>13. ASSUME ReaperNotified PROVE SlotInv'
  BY <1>13, <1>0 DEF ReaperNotified
<1>14. ASSUME ReaperElapsed PROVE SlotInv'
  <2>1. CASE StillExpired(reaper.key)
    <3>1. /\ reaper.key \in Key
          /\ slots[reaper.key].gen = reaper.gen
          /\ slots[reaper.key].phase = "ready"
          /\ slots' = [slots EXCEPT ![reaper.key] = Vacant]
          /\ manager' = [manager EXCEPT ![reaper.gen] = "disconnecting"]
          /\ UNCHANGED << nextGeneration, flight >>
      BY <1>14, <2>1 DEF ReaperElapsed, StillExpired, IsCurrent, ReaperState
    <3>2. ASSUME NEW q \in Key, q # reaper.key
          PROVE  slots'[q] = slots[q] /\ (slots[q].phase # "vacant" => slots[q].gen # reaper.gen)
      BY <3>1, <3>2 DEF SlotInv
    <3>. QED
      BY <3>1, <3>2 DEF Vacant, SlotInv
  <2>2. CASE ~StillExpired(reaper.key)
    BY <1>14, <2>2, <1>0 DEF ReaperElapsed
  <2>. QED
    BY <2>1, <2>2
<1>15. ASSUME NEW g \in Gen, ReaperJoins(g) PROVE SlotInv'
  BY <1>15 DEF ReaperJoins, SlotInv
<1>16. ASSUME ReaperStops PROVE SlotInv'
  BY <1>16 DEF ReaperStops, SlotInv
<1>17. ASSUME ReaperExit PROVE SlotInv'
  BY <1>17, <1>0 DEF ReaperExit
<1>18. ASSUME DeadlinePasses PROVE SlotInv'
  BY <1>18, <1>0 DEF DeadlinePasses
<1>19. ASSUME NEW k \in Key, Retire(k) PROVE SlotInv'
  BY <1>19 DEF Retire, Vacant, SlotInv
<1>20. ASSUME DropRegistry PROVE SlotInv'
  BY <1>20 DEF DropRegistry, DrainSlots, Vacant, SlotInv
<1>21. CASE UNCHANGED registryVars
  BY <1>21, <1>0 DEF registryVars
<1>. QED
  BY <1>1, <1>2, <1>3, <1>4, <1>5, <1>6, <1>7, <1>8, <1>9, <1>10, <1>11, <1>12, <1>13,
     <1>14, <1>15, <1>16, <1>17, <1>18, <1>19, <1>20, <1>21
     DEF RegistryNext, UseNext, FlightStep, ReaperStep

-----------------------------------------------------------------------------
(* Only a start takes a slot, and it brings a newer generation than any.   *)
LEMMA NewestStep == RegistryInv /\ TypeOK' /\ [RegistryNext]_registryVars => CurrentIsNewest'
<1>. SUFFICES ASSUME RegistryInv /\ TypeOK', [RegistryNext]_registryVars PROVE CurrentIsNewest'
  OBVIOUS
<1>. USE BoundAssumption DEF RegistryInv, TypeOK
<1>0. ASSUME UNCHANGED << slots, flight >> PROVE CurrentIsNewest'
  BY <1>0 DEF CurrentIsNewest
<1>1. ASSUME NEW c \in Caller, NEW k \in Key, AcquireReady(c, k) PROVE CurrentIsNewest'
  <2>1. SlotsKept
    BY <1>1, LeaseOpEffect
  <2>. QED
    BY <1>1, <2>1 DEF AcquireReady, SlotsKept, CurrentIsNewest
<1>2. ASSUME NEW c \in Caller, NEW k \in Key, AcquireWait(c, k) PROVE CurrentIsNewest'
  BY <1>2 DEF AcquireWait, Creating, CurrentIsNewest
<1>3. ASSUME NEW c \in Caller, NEW k \in Key, AcquireStart(c, k) PROVE CurrentIsNewest'
  <2>1. /\ slots' = [slots EXCEPT ![k] = Creating(nextGeneration + 1, {c})]
        /\ flight' = [flight EXCEPT ![nextGeneration + 1] = [stage |-> "running", key |-> k]]
        /\ nextGeneration + 1 \in Gen
    BY <1>3 DEF AcquireStart
  <2>2. slots'[k].gen = nextGeneration + 1 /\ \A q \in Key : q # k => slots'[q] = slots[q]
    BY <2>1 DEF Creating
  <2>3. /\ flight'[nextGeneration + 1].key = k
        /\ \A g \in Gen : g # nextGeneration + 1 => flight'[g] = flight[g]
    BY <2>1
  <2>4. \A g \in Gen : flight[g].key \in Key => g <= nextGeneration
    BY KeyAssumption DEF GenerationInv
  <2>. QED
    BY <2>2, <2>3, <2>4, GenIsNat DEF CurrentIsNewest
<1>4. ASSUME NEW c \in Caller, AcquireError(c) PROVE CurrentIsNewest'
  BY <1>4, <1>0 DEF AcquireError
<1>5. ASSUME NEW c \in Caller, CancelAcquire(c) PROVE CurrentIsNewest'
  BY <1>5, <1>0 DEF CancelAcquire
<1>6. ASSUME NEW c \in Caller, ReleaseLease(c) PROVE CurrentIsNewest'
  <2>1. SlotsKept
    BY <1>6, LeaseOpEffect
  <2>. QED
    BY <1>6, <2>1 DEF ReleaseLease, SlotsKept, CurrentIsNewest
<1>7. ASSUME NEW c \in Caller, NEW d \in Caller, CloneLease(c, d) PROVE CurrentIsNewest'
  <2>1. SlotsKept
    BY <1>7, LeaseOpEffect
  <2>. QED
    BY <1>7, <2>1 DEF CloneLease, SlotsKept, CurrentIsNewest
<1>8. ASSUME NEW g \in Gen, FinishPublished(g) PROVE CurrentIsNewest'
  <2>1. /\ IsCurrent(flight[g].key, g, "creating")
        /\ slots' = [slots EXCEPT ![flight[g].key] = Ready(g, 0, idleSeq + 1)]
        /\ flight' = [flight EXCEPT ![g].stage = "exiting"]
    BY <1>8 DEF FinishPublished, FlightKey
  <2>2. \A h \in Gen : flight'[h].key = flight[h].key
    BY <2>1 DEF Flight
  <2>. QED
    BY <2>1, <2>2 DEF Ready, IsCurrent, CurrentIsNewest
<1>9. ASSUME NEW g \in Gen, FlightFailed(g) PROVE CurrentIsNewest'
  <2>1. \A h \in Gen : flight'[h].key = flight[h].key
    BY <1>9 DEF FlightFailed, Flight
  <2>. QED
    BY <1>9, <2>1 DEF FlightFailed, Vacant, CurrentIsNewest
<1>10. ASSUME NEW g \in Gen, FlightStale(g) PROVE CurrentIsNewest'
  BY <1>10 DEF FlightStale, Flight, CurrentIsNewest
<1>11. ASSUME NEW g \in Gen, FlightExit(g) PROVE CurrentIsNewest'
  BY <1>11 DEF FlightExit, Flight, CurrentIsNewest
<1>12. ASSUME ReaperScan PROVE CurrentIsNewest'
  BY <1>12, <1>0 DEF ReaperScan
<1>13. ASSUME ReaperNotified PROVE CurrentIsNewest'
  BY <1>13, <1>0 DEF ReaperNotified
<1>14. ASSUME ReaperElapsed PROVE CurrentIsNewest'
  BY <1>14 DEF ReaperElapsed, Vacant, CurrentIsNewest
<1>15. ASSUME NEW g \in Gen, ReaperJoins(g) PROVE CurrentIsNewest'
  BY <1>15, <1>0 DEF ReaperJoins
<1>16. ASSUME ReaperStops PROVE CurrentIsNewest'
  BY <1>16, <1>0 DEF ReaperStops
<1>17. ASSUME ReaperExit PROVE CurrentIsNewest'
  BY <1>17, <1>0 DEF ReaperExit
<1>18. ASSUME DeadlinePasses PROVE CurrentIsNewest'
  BY <1>18, <1>0 DEF DeadlinePasses
<1>19. ASSUME NEW k \in Key, Retire(k) PROVE CurrentIsNewest'
  BY <1>19 DEF Retire, Vacant, CurrentIsNewest
<1>20. ASSUME DropRegistry PROVE CurrentIsNewest'
  BY <1>20 DEF DropRegistry, DrainSlots, Vacant, CurrentIsNewest
<1>21. CASE UNCHANGED registryVars
  BY <1>21, <1>0 DEF registryVars
<1>. QED
  BY <1>1, <1>2, <1>3, <1>4, <1>5, <1>6, <1>7, <1>8, <1>9, <1>10, <1>11, <1>12, <1>13,
     <1>14, <1>15, <1>16, <1>17, <1>18, <1>19, <1>20, <1>21
     DEF RegistryNext, UseNext, FlightStep, ReaperStep

-----------------------------------------------------------------------------
(* Leases: one is granted only of what is published, and one that misses   *)
(* its generation never meets it again.                                    *)
LEMMA LeaseStep == RegistryInv /\ TypeOK' /\ [RegistryNext]_registryVars => LeaseInv'
<1>. SUFFICES ASSUME RegistryInv /\ TypeOK', [RegistryNext]_registryVars PROVE LeaseInv'
  OBVIOUS
<1>. USE BoundAssumption DEF RegistryInv, TypeOK
<1>0. ASSUME UNCHANGED << slots, caller, flight, nextGeneration >> PROVE LeaseInv'
  BY <1>0 DEF LeaseInv, IsCurrent
<1>1. ASSUME NEW c \in Caller, NEW k \in Key, AcquireReady(c, k) PROVE LeaseInv'
  <2>1. SlotsKept
    BY <1>1, LeaseOpEffect
  <2>2. caller'[c] = Lease(k, slots[k].gen, TRUE) /\ \A d \in Caller : d # c => caller'[d] = caller[d]
    BY <1>1 DEF AcquireReady
  <2>3. /\ slots[k].gen \in Gen /\ slots[k].gen <= nextGeneration
        /\ flight[slots[k].gen].key = k /\ flight[slots[k].gen].stage \in {"exiting", "done"}
    BY <1>1 DEF AcquireReady, SlotInv
  <2>4. \A d \in Caller : caller[d].pc = "holding" => caller[d].key \in Key
    BY DEF LeaseInv, GenerationInv
  <2>5. UNCHANGED << flight, nextGeneration >>
    BY <1>1 DEF AcquireReady
  <2>. QED
    BY <2>1, <2>2, <2>3, <2>4, <2>5 DEF SlotsKept, LeaseInv, IsCurrent, Lease
<1>2. ASSUME NEW c \in Caller, NEW k \in Key, AcquireWait(c, k) PROVE LeaseInv'
  <2>1. \A q \in Key : slots'[q].phase = slots[q].phase /\ slots'[q].gen = slots[q].gen
    BY <1>2 DEF AcquireWait, Creating
  <2>2. \A d \in Caller : caller'[d].pc = "holding" => caller'[d] = caller[d]
    BY <1>2 DEF AcquireWait, Waiting
  <2>3. \A d \in Caller : caller[d].pc = "holding" => caller[d].key \in Key
    BY DEF LeaseInv, GenerationInv
  <2>4. UNCHANGED << flight, nextGeneration >>
    BY <1>2 DEF AcquireWait
  <2>. QED
    BY <2>1, <2>2, <2>3, <2>4 DEF LeaseInv, IsCurrent
<1>3. ASSUME NEW c \in Caller, NEW k \in Key, AcquireStart(c, k) PROVE LeaseInv'
  <2>1. \A q \in Key : slots'[q].phase = "ready" => slots'[q] = slots[q]
    BY <1>3 DEF AcquireStart, Creating
  <2>2. \A d \in Caller : caller'[d].pc = "holding" => caller'[d] = caller[d]
    BY <1>3 DEF AcquireStart, Waiting
  <2>3. \A g \in Gen : g <= nextGeneration => flight'[g] = flight[g] /\ g <= nextGeneration'
    <3>1. /\ nextGeneration' = nextGeneration + 1 /\ nextGeneration \in Nat
          /\ \A g \in Gen : g # nextGeneration + 1 => flight'[g] = flight[g]
      BY <1>3 DEF AcquireStart
    <3>. QED
      BY <3>1, GenIsNat
  <2>4. \A d \in Caller : caller[d].pc = "holding" =>
            /\ caller[d].key \in Key
            /\ flight'[caller[d].gen] = flight[caller[d].gen]
            /\ caller[d].gen <= nextGeneration'
    BY <2>3 DEF LeaseInv, GenerationInv
  <2>. QED
    BY <2>1, <2>2, <2>4 DEF LeaseInv, IsCurrent
<1>4. ASSUME NEW c \in Caller, AcquireError(c) PROVE LeaseInv'
  BY <1>4 DEF AcquireError, IdleCaller, LeaseInv, IsCurrent
<1>5. ASSUME NEW c \in Caller, CancelAcquire(c) PROVE LeaseInv'
  BY <1>5 DEF CancelAcquire, IdleCaller, LeaseInv, IsCurrent
<1>6. ASSUME NEW c \in Caller, ReleaseLease(c) PROVE LeaseInv'
  <2>1. SlotsKept
    BY <1>6, LeaseOpEffect
  <2>2. \A d \in Caller : caller'[d].pc = "holding" => caller'[d] = caller[d]
    BY <1>6 DEF ReleaseLease, IdleCaller
  <2>3. \A d \in Caller : caller[d].pc = "holding" => caller[d].key \in Key
    BY DEF LeaseInv, GenerationInv
  <2>4. UNCHANGED << flight, nextGeneration >>
    BY <1>6 DEF ReleaseLease
  <2>. QED
    BY <2>1, <2>2, <2>3, <2>4 DEF SlotsKept, LeaseInv, IsCurrent
<1>7. ASSUME NEW c \in Caller, NEW d \in Caller, CloneLease(c, d) PROVE LeaseInv'
  <2>1. SlotsKept
    BY <1>7, LeaseOpEffect
  <2>2. /\ caller[c].pc = "holding"
        /\ caller'[d] = Lease(caller[c].key, caller[c].gen, CloneCharged(c))
        /\ \A e \in Caller : e # d => caller'[e] = caller[e]
    BY <1>7 DEF CloneLease
  <2>3. \A e \in Caller : caller[e].pc = "holding" => caller[e].key \in Key
    BY DEF LeaseInv, GenerationInv
  <2>4. UNCHANGED << flight, nextGeneration >>
    BY <1>7 DEF CloneLease
  <2>5. ~CloneCharged(c) => ~IsCurrent(caller[c].key, caller[c].gen, "ready")
    BY <2>2 DEF CloneCharged, LeaseInv
  <2>. QED
    BY <2>1, <2>2, <2>3, <2>4, <2>5 DEF SlotsKept, LeaseInv, IsCurrent, Lease
<1>8. ASSUME NEW g \in Gen, FinishPublished(g) PROVE LeaseInv'
  <2>1. /\ flight[g].stage = "running"
        /\ slots' = [slots EXCEPT ![flight[g].key] = Ready(g, 0, idleSeq + 1)]
        /\ flight' = [flight EXCEPT ![g].stage = "exiting"]
        /\ UNCHANGED nextGeneration
    BY <1>8 DEF FinishPublished, FlightKey
  <2>2. \A d \in Caller : caller'[d].pc = "holding" => caller'[d] = caller[d]
    BY <1>8, NotifyKeepsLeases DEF FinishPublished, Outcome
  <2>3. \A d \in Caller : caller[d].pc = "holding" =>
            /\ caller[d].gen # g
            /\ caller[d].key \in Key
            /\ flight'[caller[d].gen] = flight[caller[d].gen]
    BY <2>1 DEF LeaseInv, GenerationInv
  <2>4. \A q \in Key : slots'[q] = slots[q] \/ slots'[q].gen = g
    BY <2>1 DEF Ready
  <2>. QED
    BY <2>1, <2>2, <2>3, <2>4 DEF LeaseInv, IsCurrent
<1>9. ASSUME NEW g \in Gen, FlightFailed(g) PROVE LeaseInv'
  <2>1. /\ flight[g].stage = "running"
        /\ slots' = [slots EXCEPT ![flight[g].key] = Vacant]
        /\ flight' = [flight EXCEPT ![g].stage = "exiting"]
        /\ UNCHANGED nextGeneration
    BY <1>9 DEF FlightFailed, FlightKey
  <2>2. \A d \in Caller : caller'[d].pc = "holding" => caller'[d] = caller[d]
    BY <1>9, NotifyKeepsLeases DEF FlightFailed, Outcome
  <2>3. \A d \in Caller : caller[d].pc = "holding" =>
            /\ caller[d].key \in Key
            /\ flight'[caller[d].gen] = flight[caller[d].gen]
    BY <2>1 DEF LeaseInv, GenerationInv
  <2>4. \A q \in Key : slots'[q] = slots[q] \/ slots'[q].phase = "vacant"
    BY <2>1 DEF Vacant
  <2>. QED
    BY <2>1, <2>2, <2>3, <2>4 DEF LeaseInv, IsCurrent
<1>10. ASSUME NEW g \in Gen, FlightStale(g) PROVE LeaseInv'
  BY <1>10 DEF FlightStale, LeaseInv, IsCurrent
<1>11. ASSUME NEW g \in Gen, FlightExit(g) PROVE LeaseInv'
  <2>1. /\ flight'[g].key = flight[g].key /\ flight'[g].stage = "done"
        /\ \A h \in Gen : h # g => flight'[h] = flight[h]
    BY <1>11 DEF FlightExit, Flight
  <2>. QED
    BY <1>11, <2>1 DEF FlightExit, LeaseInv, IsCurrent
<1>12. ASSUME ReaperScan PROVE LeaseInv'
  BY <1>12, <1>0 DEF ReaperScan
<1>13. ASSUME ReaperNotified PROVE LeaseInv'
  BY <1>13, <1>0 DEF ReaperNotified
<1>14. ASSUME ReaperElapsed PROVE LeaseInv'
  <2>1. \A q \in Key : slots'[q] = slots[q] \/ slots'[q].phase = "vacant"
    BY <1>14 DEF ReaperElapsed, Vacant
  <2>2. \A d \in Caller : caller[d].pc = "holding" => caller[d].key \in Key
    BY DEF LeaseInv, GenerationInv
  <2>. QED
    BY <1>14, <2>1, <2>2 DEF ReaperElapsed, LeaseInv, IsCurrent
<1>15. ASSUME NEW g \in Gen, ReaperJoins(g) PROVE LeaseInv'
  BY <1>15, <1>0 DEF ReaperJoins
<1>16. ASSUME ReaperStops PROVE LeaseInv'
  BY <1>16, <1>0 DEF ReaperStops
<1>17. ASSUME ReaperExit PROVE LeaseInv'
  BY <1>17, <1>0 DEF ReaperExit
<1>18. ASSUME DeadlinePasses PROVE LeaseInv'
  BY <1>18, <1>0 DEF DeadlinePasses
<1>19. ASSUME NEW k \in Key, Retire(k) PROVE LeaseInv'
  <2>1. \A q \in Key : slots'[q] = slots[q] \/ slots'[q].phase = "vacant"
    BY <1>19 DEF Retire, Vacant
  <2>2. \A d \in Caller : caller'[d].pc = "holding" => caller'[d] = caller[d]
    BY <1>19, NotifyKeepsLeases DEF Retire, Outcome
  <2>3. \A d \in Caller : caller[d].pc = "holding" => caller[d].key \in Key
    BY DEF LeaseInv, GenerationInv
  <2>4. nextGeneration' = nextGeneration /\ flight' = flight
    BY <1>19 DEF Retire
  <2>. QED
    BY <2>1, <2>2, <2>3, <2>4 DEF LeaseInv, IsCurrent
<1>20. ASSUME DropRegistry PROVE LeaseInv'
  <2>1. \A q \in Key : slots'[q].phase = "vacant"
    BY <1>20 DEF DropRegistry, DrainSlots, Vacant
  <2>2. \A d \in Caller : caller'[d].pc = "holding" => caller'[d] = caller[d]
    BY <1>20 DEF DropRegistry, DrainSlots, Answered
  <2>3. \A d \in Caller : caller[d].pc = "holding" => caller[d].key \in Key
    BY DEF LeaseInv, GenerationInv
  <2>4. UNCHANGED << flight, nextGeneration >>
    BY <1>20 DEF DropRegistry, DrainSlots
  <2>. QED
    BY <2>1, <2>2, <2>3, <2>4 DEF LeaseInv, IsCurrent
<1>21. CASE UNCHANGED registryVars
  BY <1>21, <1>0 DEF registryVars
<1>. QED
  BY <1>1, <1>2, <1>3, <1>4, <1>5, <1>6, <1>7, <1>8, <1>9, <1>10, <1>11, <1>12, <1>13,
     <1>14, <1>15, <1>16, <1>17, <1>18, <1>19, <1>20, <1>21
     DEF RegistryNext, UseNext, FlightStep, ReaperStep

-----------------------------------------------------------------------------
(* The flight an acquire waits for runs and owns the slot of its key.      *)
LEMMA WaiterFlight ==
    ASSUME RegistryInv, NEW c \in Caller, caller[c].pc = "waiting"
    PROVE  /\ caller[c].gen \in Gen
           /\ flight[caller[c].gen].stage = "running"
           /\ IsCurrent(flight[caller[c].gen].key, caller[c].gen, "creating")
<1>1. /\ caller[c].key \in Key
      /\ IsCurrent(caller[c].key, caller[c].gen, "creating")
      /\ flight[caller[c].gen] = [stage |-> "running", key |-> caller[c].key]
  BY DEF RegistryInv, NoStrandedWaiter, WaitsForKey
<1>. QED
  BY <1>1 DEF RegistryInv, SlotInv, IsCurrent

(* When a slot is taken away with an answer to its waiters, those who still *)
(* wait do so elsewhere.                                                   *)
LEMMA NotifyAnswersAll ==
    ASSUME RegistryInv, NEW k \in Key, NEW out \in Outcome,
           \A q \in Key : q # k => slots'[q] = slots[q],
           \A h \in Gen : h # slots[k].gen => flight'[h] = flight[h],
           caller' = NotifyWaiters(slots[k].waiters, slots[k].gen, out)
    PROVE  (NoStrandedWaiter /\ WaitsForKey)'
<1>. USE DEF RegistryInv, TypeOK
<1>1. SUFFICES ASSUME NEW d \in Caller, caller'[d].pc = "waiting"
      PROVE  /\ caller'[d].key \in Key
             /\ slots'[caller'[d].key].phase = "creating"
             /\ slots'[caller'[d].key].gen = caller'[d].gen
             /\ d \in slots'[caller'[d].key].waiters
             /\ flight'[caller'[d].gen] = [stage |-> "running", key |-> caller'[d].key]
  BY DEF NoStrandedWaiter, WaitsForKey, IsCurrent
<1>2. /\ caller'[d] = caller[d]
      /\ ~(d \in slots[k].waiters /\ caller[d].gen = slots[k].gen)
  BY <1>1 DEF NotifyWaiters, Answered
<1>3. /\ caller[d].key \in Key
      /\ IsCurrent(caller[d].key, caller[d].gen, "creating")
      /\ d \in slots[caller[d].key].waiters
      /\ flight[caller[d].gen] = [stage |-> "running", key |-> caller[d].key]
  BY <1>1, <1>2 DEF NoStrandedWaiter, WaitsForKey
<1>4. caller[d].key # k
  BY <1>2, <1>3 DEF IsCurrent
<1>5. caller[d].gen \in Gen /\ caller[d].gen # slots[k].gen
  <2>1. caller[d].gen \in Gen
    BY <1>3 DEF IsCurrent, SlotInv
  <2>2. CASE slots[k].phase = "vacant"
    BY <2>1, <2>2, NoGenZero DEF SlotInv, Vacant
  <2>3. CASE slots[k].phase # "vacant"
    <3>1. flight[slots[k].gen].key = k
      BY <2>3 DEF SlotInv
    <3>2. flight[caller[d].gen].key = caller[d].key
      BY <1>3
    <3>. QED
      BY <1>4, <2>1, <3>1, <3>2
  <2>. QED
    BY <2>1, <2>2, <2>3
<1>. QED
  BY <1>2, <1>3, <1>4, <1>5 DEF IsCurrent

(* Waiters: whoever takes a creating slot away answers all who wait for    *)
(* it.                                                                     *)
LEMMA WaiterStep == RegistryInv /\ TypeOK' /\ [RegistryNext]_registryVars => (NoStrandedWaiter /\ WaitsForKey)'
<1>. SUFFICES ASSUME RegistryInv /\ TypeOK', [RegistryNext]_registryVars PROVE (NoStrandedWaiter /\ WaitsForKey)'
  OBVIOUS
<1>. USE BoundAssumption DEF RegistryInv, TypeOK
<1>0. ASSUME UNCHANGED << slots, caller, flight >> PROVE (NoStrandedWaiter /\ WaitsForKey)'
  BY <1>0 DEF NoStrandedWaiter, WaitsForKey, IsCurrent
<1>1. ASSUME NEW c \in Caller, NEW k \in Key, AcquireReady(c, k) PROVE (NoStrandedWaiter /\ WaitsForKey)'
  <2>1. \A q \in Key : slots[q].phase = "creating" => slots'[q] = slots[q]
    BY <1>1, LeaseOpEffect DEF SlotsKept
  <2>2. \A d \in Caller : caller'[d].pc = "waiting" => caller'[d] = caller[d]
    BY <1>1 DEF AcquireReady, Lease
  <2>3. UNCHANGED flight
    BY <1>1 DEF AcquireReady
  <2>. QED
    BY <2>1, <2>2, <2>3 DEF NoStrandedWaiter, WaitsForKey, IsCurrent
<1>2. ASSUME NEW c \in Caller, NEW k \in Key, AcquireWait(c, k) PROVE (NoStrandedWaiter /\ WaitsForKey)'
  <2>1. /\ slots' = [slots EXCEPT ![k] = Creating(slots[k].gen, slots[k].waiters \cup {c})]
        /\ caller' = [caller EXCEPT ![c] = Waiting(k, slots[k].gen)]
        /\ slots[k].phase = "creating"
        /\ UNCHANGED flight
    BY <1>2 DEF AcquireWait
  <2>2. \A q \in Key : /\ slots'[q].phase = slots[q].phase
                       /\ slots'[q].gen = slots[q].gen
                       /\ slots[q].waiters \subseteq slots'[q].waiters
    BY <2>1 DEF Creating
  <2>3. /\ caller'[c] = Waiting(k, slots[k].gen) /\ c \in slots'[k].waiters
        /\ \A d \in Caller : d # c => caller'[d] = caller[d]
    BY <2>1 DEF Creating
  <2>4. flight[slots[k].gen] = [stage |-> "running", key |-> k]
    BY <2>1 DEF SlotInv, Flight
  <2>5. ASSUME NEW d \in Caller, caller'[d].pc = "waiting"
        PROVE  /\ caller'[d].key \in Key
               /\ slots'[caller'[d].key].phase = "creating"
             /\ slots'[caller'[d].key].gen = caller'[d].gen
               /\ d \in slots'[caller'[d].key].waiters
               /\ flight'[caller'[d].gen] = [stage |-> "running", key |-> caller'[d].key]
    <3>1. CASE d = c
      BY <2>1, <2>2, <2>3, <2>4, <3>1 DEF Waiting, IsCurrent
    <3>2. CASE d # c
      <4>1. caller'[d] = caller[d] /\ caller[d].pc = "waiting"
        BY <2>3, <2>5, <3>2
      <4>2. /\ caller[d].key \in Key
            /\ slots[caller[d].key].phase = "creating"
            /\ slots[caller[d].key].gen = caller[d].gen
            /\ d \in slots[caller[d].key].waiters
            /\ flight[caller[d].gen] = [stage |-> "running", key |-> caller[d].key]
        BY <4>1 DEF NoStrandedWaiter, WaitsForKey, IsCurrent
      <4>3. flight' = flight
        BY <2>1
      <4>. QED
        BY <2>2, <4>1, <4>2, <4>3
    <3>. QED
      BY <3>1, <3>2
  <2>. QED
    BY <2>5 DEF NoStrandedWaiter, WaitsForKey, IsCurrent
<1>3. ASSUME NEW c \in Caller, NEW k \in Key, AcquireStart(c, k) PROVE (NoStrandedWaiter /\ WaitsForKey)'
  <2>1. /\ slots' = [slots EXCEPT ![k] = Creating(nextGeneration + 1, {c})]
        /\ caller' = [caller EXCEPT ![c] = Waiting(k, nextGeneration + 1)]
        /\ slots[k].phase = "vacant"
        /\ nextGeneration + 1 \in Gen
        /\ flight' = [flight EXCEPT ![nextGeneration + 1] = [stage |-> "running", key |-> k]]
    BY <1>3 DEF AcquireStart
  <2>2. \A q \in Key : q # k => slots'[q] = slots[q]
    BY <2>1
  <2>3. /\ slots'[k].phase = "creating" /\ slots'[k].gen = nextGeneration + 1
        /\ c \in slots'[k].waiters
    BY <2>1 DEF Creating
  <2>4. /\ caller'[c].key = k /\ caller'[c].gen = nextGeneration + 1
        /\ \A d \in Caller : d # c => caller'[d] = caller[d]
    BY <2>1 DEF Waiting
  <2>5. flight'[nextGeneration + 1] = [stage |-> "running", key |-> k]
    BY <2>1
  <2>6. \A g \in Gen : flight[g].stage = "running" => flight'[g] = flight[g]
    <3>1. flight[nextGeneration + 1].stage = "none"
      BY <2>1, GenIsNat DEF GenerationInv
    <3>. QED
      BY <2>1, <3>1
  <2>7. ASSUME NEW d \in Caller, caller'[d].pc = "waiting"
        PROVE  /\ caller'[d].key \in Key
               /\ slots'[caller'[d].key].phase = "creating"
             /\ slots'[caller'[d].key].gen = caller'[d].gen
               /\ d \in slots'[caller'[d].key].waiters
               /\ flight'[caller'[d].gen] = [stage |-> "running", key |-> caller'[d].key]
    <3>1. CASE d = c
      BY <2>3, <2>4, <2>5, <3>1 DEF IsCurrent
    <3>2. CASE d # c
      <4>1. /\ caller[d].key \in Key /\ caller[d].key # k
            /\ IsCurrent(caller[d].key, caller[d].gen, "creating")
            /\ d \in slots[caller[d].key].waiters
            /\ flight[caller[d].gen] = [stage |-> "running", key |-> caller[d].key]
            /\ caller[d].gen \in Gen
        BY <2>1, <2>4, <2>7, <3>2 DEF NoStrandedWaiter, WaitsForKey, IsCurrent, SlotInv
      <4>. QED
        BY <2>2, <2>4, <2>6, <3>2, <4>1 DEF IsCurrent
    <3>. QED
      BY <3>1, <3>2
  <2>. QED
    BY <2>7 DEF NoStrandedWaiter, WaitsForKey, IsCurrent
<1>4. ASSUME NEW c \in Caller, AcquireError(c) PROVE (NoStrandedWaiter /\ WaitsForKey)'
  BY <1>4 DEF AcquireError, IdleCaller, NoStrandedWaiter, WaitsForKey, IsCurrent
<1>5. ASSUME NEW c \in Caller, CancelAcquire(c) PROVE (NoStrandedWaiter /\ WaitsForKey)'
  BY <1>5 DEF CancelAcquire, IdleCaller, NoStrandedWaiter, WaitsForKey, IsCurrent
<1>6. ASSUME NEW c \in Caller, ReleaseLease(c) PROVE (NoStrandedWaiter /\ WaitsForKey)'
  <2>1. \A q \in Key : slots[q].phase = "creating" => slots'[q] = slots[q]
    BY <1>6, LeaseOpEffect DEF SlotsKept
  <2>2. \A d \in Caller : caller'[d].pc = "waiting" => caller'[d] = caller[d]
    BY <1>6 DEF ReleaseLease, IdleCaller
  <2>3. UNCHANGED flight
    BY <1>6 DEF ReleaseLease
  <2>. QED
    BY <2>1, <2>2, <2>3 DEF NoStrandedWaiter, WaitsForKey, IsCurrent
<1>7. ASSUME NEW c \in Caller, NEW d \in Caller, CloneLease(c, d) PROVE (NoStrandedWaiter /\ WaitsForKey)'
  <2>1. \A q \in Key : slots[q].phase = "creating" => slots'[q] = slots[q]
    BY <1>7, LeaseOpEffect DEF SlotsKept
  <2>2. \A e \in Caller : caller'[e].pc = "waiting" => caller'[e] = caller[e]
    BY <1>7 DEF CloneLease, Lease
  <2>3. UNCHANGED flight
    BY <1>7 DEF CloneLease
  <2>. QED
    BY <2>1, <2>2, <2>3 DEF NoStrandedWaiter, WaitsForKey, IsCurrent
<1>8. ASSUME NEW g \in Gen, FinishPublished(g) PROVE (NoStrandedWaiter /\ WaitsForKey)'
  <2>1. /\ IsCurrent(flight[g].key, g, "creating") /\ flight[g].key \in Key
        /\ slots' = [slots EXCEPT ![flight[g].key] = Ready(g, 0, idleSeq + 1)]
        /\ flight' = [flight EXCEPT ![g].stage = "exiting"]
        /\ caller' = NotifyWaiters(slots[flight[g].key].waiters, g, "Published")
    BY <1>8 DEF FinishPublished, FlightKey, GenerationInv
  <2>2. \A q \in Key : q # flight[g].key => slots'[q] = slots[q]
    BY <2>1
  <2>3. slots[flight[g].key].gen = g /\ \A h \in Gen : h # g => flight'[h] = flight[h]
    BY <2>1 DEF IsCurrent
  <2>. QED
    BY <2>1, <2>2, <2>3, NotifyAnswersAll DEF Outcome
<1>9. ASSUME NEW g \in Gen, FlightFailed(g) PROVE (NoStrandedWaiter /\ WaitsForKey)'
  <2>1. /\ IsCurrent(flight[g].key, g, "creating") /\ flight[g].key \in Key
        /\ slots' = [slots EXCEPT ![flight[g].key] = Vacant]
        /\ flight' = [flight EXCEPT ![g].stage = "exiting"]
        /\ caller' = NotifyWaiters(slots[flight[g].key].waiters, g, "Failed")
    BY <1>9 DEF FlightFailed, FlightKey, GenerationInv
  <2>2. \A q \in Key : q # flight[g].key => slots'[q] = slots[q]
    BY <2>1
  <2>3. slots[flight[g].key].gen = g /\ \A h \in Gen : h # g => flight'[h] = flight[h]
    BY <2>1 DEF IsCurrent
  <2>. QED
    BY <2>1, <2>2, <2>3, NotifyAnswersAll DEF Outcome
<1>10. ASSUME NEW g \in Gen, FlightStale(g) PROVE (NoStrandedWaiter /\ WaitsForKey)'
  <2>1. /\ ~IsCurrent(flight[g].key, g, "creating")
        /\ flight' = [flight EXCEPT ![g].stage = "exiting"]
        /\ UNCHANGED << slots, caller >>
    BY <1>10 DEF FlightStale, FlightKey
  <2>2. \A d \in Caller : caller[d].pc = "waiting" =>
            flight'[caller[d].gen] = flight[caller[d].gen]
    BY <2>1, WaiterFlight
  <2>. QED
    BY <2>1, <2>2 DEF NoStrandedWaiter, WaitsForKey, IsCurrent
<1>11. ASSUME NEW g \in Gen, FlightExit(g) PROVE (NoStrandedWaiter /\ WaitsForKey)'
  <2>1. \A d \in Caller : caller[d].pc = "waiting" =>
            flight'[caller[d].gen] = flight[caller[d].gen]
    BY <1>11, WaiterFlight DEF FlightExit
  <2>2. UNCHANGED << slots, caller >>
    BY <1>11 DEF FlightExit
  <2>. QED
    BY <2>1, <2>2 DEF NoStrandedWaiter, WaitsForKey, IsCurrent
<1>12. ASSUME ReaperScan PROVE (NoStrandedWaiter /\ WaitsForKey)'
  BY <1>12, <1>0 DEF ReaperScan
<1>13. ASSUME ReaperNotified PROVE (NoStrandedWaiter /\ WaitsForKey)'
  BY <1>13, <1>0 DEF ReaperNotified
<1>14. ASSUME ReaperElapsed PROVE (NoStrandedWaiter /\ WaitsForKey)'
  <2>1. \A q \in Key : slots[q].phase = "creating" => slots'[q] = slots[q]
    BY <1>14 DEF ReaperElapsed, StillExpired, IsCurrent
  <2>2. UNCHANGED << flight, caller >>
    BY <1>14 DEF ReaperElapsed
  <2>. QED
    BY <2>1, <2>2 DEF NoStrandedWaiter, WaitsForKey, IsCurrent
<1>15. ASSUME NEW g \in Gen, ReaperJoins(g) PROVE (NoStrandedWaiter /\ WaitsForKey)'
  BY <1>15, <1>0 DEF ReaperJoins
<1>16. ASSUME ReaperStops PROVE (NoStrandedWaiter /\ WaitsForKey)'
  BY <1>16, <1>0 DEF ReaperStops
<1>17. ASSUME ReaperExit PROVE (NoStrandedWaiter /\ WaitsForKey)'
  BY <1>17, <1>0 DEF ReaperExit
<1>18. ASSUME DeadlinePasses PROVE (NoStrandedWaiter /\ WaitsForKey)'
  BY <1>18, <1>0 DEF DeadlinePasses
<1>19. ASSUME NEW k \in Key, Retire(k) PROVE (NoStrandedWaiter /\ WaitsForKey)'
  <2>1. /\ slots' = [slots EXCEPT ![k] = Vacant]
        /\ UNCHANGED flight
        /\ caller' = NotifyWaiters(slots[k].waiters, slots[k].gen, "Superseded")
    BY <1>19 DEF Retire
  <2>2. \A q \in Key : q # k => slots'[q] = slots[q]
    BY <2>1
  <2>. QED
    BY <2>1, <2>2, NotifyAnswersAll DEF Outcome
<1>20. ASSUME DropRegistry PROVE (NoStrandedWaiter /\ WaitsForKey)'
  <2>1. \A d \in Caller : caller'[d].pc # "waiting"
    BY <1>20 DEF DropRegistry, DrainSlots, Answered, NoStrandedWaiter
  <2>. QED
    BY <2>1 DEF NoStrandedWaiter, WaitsForKey
<1>21. CASE UNCHANGED registryVars
  BY <1>21, <1>0 DEF registryVars
<1>. QED
  BY <1>1, <1>2, <1>3, <1>4, <1>5, <1>6, <1>7, <1>8, <1>9, <1>10, <1>11, <1>12, <1>13,
     <1>14, <1>15, <1>16, <1>17, <1>18, <1>19, <1>20, <1>21
     DEF RegistryNext, UseNext, FlightStep, ReaperStep

-----------------------------------------------------------------------------
(* Idle deadlines: the first lease cancels one, the last one sets one.      *)
LEMMA IdleStep == RegistryInv /\ TypeOK' /\ [RegistryNext]_registryVars => IdleIffUnused'
<1>. SUFFICES ASSUME RegistryInv /\ TypeOK', [RegistryNext]_registryVars PROVE IdleIffUnused'
  OBVIOUS
<1>. USE BoundAssumption DEF RegistryInv, TypeOK
<1>0. ASSUME UNCHANGED << slots >> PROVE IdleIffUnused'
  BY <1>0 DEF IdleIffUnused
<1>1. ASSUME NEW c \in Caller, NEW k \in Key, AcquireReady(c, k) PROVE IdleIffUnused'
  BY <1>1 DEF AcquireReady, AddLease, Ready, IdleIffUnused, Slot
<1>2. ASSUME NEW c \in Caller, NEW k \in Key, AcquireWait(c, k) PROVE IdleIffUnused'
  BY <1>2 DEF AcquireWait, Creating, IdleIffUnused
<1>3. ASSUME NEW c \in Caller, NEW k \in Key, AcquireStart(c, k) PROVE IdleIffUnused'
  BY <1>3 DEF AcquireStart, Creating, IdleIffUnused
<1>4. ASSUME NEW c \in Caller, AcquireError(c) PROVE IdleIffUnused'
  BY <1>4, <1>0 DEF AcquireError
<1>5. ASSUME NEW c \in Caller, CancelAcquire(c) PROVE IdleIffUnused'
  BY <1>5, <1>0 DEF CancelAcquire
<1>6. ASSUME NEW c \in Caller, ReleaseLease(c) PROVE IdleIffUnused'
  <2>1. CASE ReleaseCharged(c)
    <3>1. /\ caller[c].key \in Key
          /\ slots[caller[c].key].phase = "ready"
          /\ slots[caller[c].key].leases # 0 /\ slots[caller[c].key].leases \in Nat
          /\ idleSeq + 1 # 0
      BY <1>6, <2>1 DEF ReleaseLease, ReleaseCharged, IsCurrent, LeaseInv, GenerationInv, Slot
    <3>2. slots' = [slots EXCEPT ![caller[c].key] =
                      Ready(slots[caller[c].key].gen, slots[caller[c].key].leases - 1,
                            IF slots[caller[c].key].leases = 1 THEN idleSeq + 1
                            ELSE slots[caller[c].key].idle)]
      BY <1>6, <2>1 DEF ReleaseLease
    <3>3. slots[caller[c].key].idle = 0
      BY <3>1 DEF IdleIffUnused
    <3>. QED
      BY <3>1, <3>2, <3>3 DEF Ready, IdleIffUnused
  <2>2. CASE ~ReleaseCharged(c)
    BY <1>6, <2>2, <1>0 DEF ReleaseLease
  <2>. QED
    BY <2>1, <2>2
<1>7. ASSUME NEW c \in Caller, NEW d \in Caller, CloneLease(c, d) PROVE IdleIffUnused'
  <2>1. CASE CloneCharged(c)
    <3>1. /\ caller[c].key \in Key
          /\ slots[caller[c].key].leases \in Nat
          /\ AddLease(caller[c].key)
      BY <1>7, <2>1 DEF CloneLease, LeaseInv, GenerationInv, Slot
    <3>. QED
      BY <3>1 DEF AddLease, Ready, IdleIffUnused
  <2>2. CASE ~CloneCharged(c)
    BY <1>7, <2>2, <1>0 DEF CloneLease
  <2>. QED
    BY <2>1, <2>2
<1>8. ASSUME NEW g \in Gen, FinishPublished(g) PROVE IdleIffUnused'
  BY <1>8 DEF FinishPublished, Ready, IdleIffUnused
<1>9. ASSUME NEW g \in Gen, FlightFailed(g) PROVE IdleIffUnused'
  BY <1>9 DEF FlightFailed, Vacant, IdleIffUnused
<1>10. ASSUME NEW g \in Gen, FlightStale(g) PROVE IdleIffUnused'
  BY <1>10, <1>0 DEF FlightStale
<1>11. ASSUME NEW g \in Gen, FlightExit(g) PROVE IdleIffUnused'
  BY <1>11, <1>0 DEF FlightExit
<1>12. ASSUME ReaperScan PROVE IdleIffUnused'
  BY <1>12, <1>0 DEF ReaperScan
<1>13. ASSUME ReaperNotified PROVE IdleIffUnused'
  BY <1>13, <1>0 DEF ReaperNotified
<1>14. ASSUME ReaperElapsed PROVE IdleIffUnused'
  BY <1>14 DEF ReaperElapsed, Vacant, IdleIffUnused
<1>15. ASSUME NEW g \in Gen, ReaperJoins(g) PROVE IdleIffUnused'
  BY <1>15, <1>0 DEF ReaperJoins
<1>16. ASSUME ReaperStops PROVE IdleIffUnused'
  BY <1>16, <1>0 DEF ReaperStops
<1>17. ASSUME ReaperExit PROVE IdleIffUnused'
  BY <1>17, <1>0 DEF ReaperExit
<1>18. ASSUME DeadlinePasses PROVE IdleIffUnused'
  BY <1>18, <1>0 DEF DeadlinePasses
<1>19. ASSUME NEW k \in Key, Retire(k) PROVE IdleIffUnused'
  BY <1>19 DEF Retire, Vacant, IdleIffUnused
<1>20. ASSUME DropRegistry PROVE IdleIffUnused'
  BY <1>20 DEF DropRegistry, DrainSlots, Vacant, IdleIffUnused
<1>21. CASE UNCHANGED registryVars
  BY <1>21, <1>0 DEF registryVars
<1>. QED
  BY <1>1, <1>2, <1>3, <1>4, <1>5, <1>6, <1>7, <1>8, <1>9, <1>10, <1>11, <1>12, <1>13,
     <1>14, <1>15, <1>16, <1>17, <1>18, <1>19, <1>20, <1>21
     DEF RegistryNext, UseNext, FlightStep, ReaperStep

-----------------------------------------------------------------------------
(* Lease counts.                                                           *)

(* Steps that touch no lease change no generation's charged leases.        *)
LEMMA ChargedKept ==
    ASSUME \A c \in Caller : caller[c].pc = "holding" \/ caller'[c].pc = "holding" =>
                                caller'[c] = caller[c]
    PROVE  \A g \in Gen : Charged(g)' = Charged(g)
  BY DEF Charged

(* What a lease counts for is the current generation of its key or nothing. *)
LEMMA CountedLeaseOfCurrent ==
    ASSUME RegistryInv, NEW c \in Caller, NEW k \in Key, slots[k].phase = "ready",
           c \in Charged(slots[k].gen)
    PROVE  /\ caller[c].key = k
           /\ IsCurrent(k, caller[c].gen, "ready")
           /\ slots[k].leases # 0
<1>1. caller[c].key = k /\ IsCurrent(k, caller[c].gen, "ready")
  BY DEF RegistryInv, LeaseInv, SlotInv, Charged, IsCurrent
<1>2. Cardinality(Charged(slots[k].gen)) # 0
  BY ChargedCounted, FS_EmptySet
<1>. QED
  BY <1>1, <1>2 DEF RegistryInv, LeaseCountExact

(* Such steps keep the counts exact when they change no count either.      *)
LEMMA CountsKept ==
    ASSUME RegistryInv,
           \A q \in Key : slots'[q].phase = "ready" =>
                             slots'[q].phase = slots[q].phase /\ slots'[q].gen = slots[q].gen
                             /\ slots'[q].leases = slots[q].leases,
           \A c \in Caller : caller[c].pc = "holding" \/ caller'[c].pc = "holding" =>
                                caller'[c] = caller[c]
    PROVE  LeaseCountExact'
<1>1. \A g \in Gen : Charged(g)' = Charged(g)
  BY ChargedKept
<1>2. ASSUME NEW q \in Key, slots'[q].phase = "ready"
      PROVE  slots'[q].leases = Cardinality(Charged(slots[q].gen)')
  BY <1>1, <1>2 DEF RegistryInv, LeaseCountExact, SlotInv
<1>. QED
  BY <1>1, <1>2 DEF RegistryInv, LeaseCountExact, SlotInv, Charged

(* One consumer that held nothing now holds one counted lease more.        *)
LEMMA CountOneMore ==
    ASSUME RegistryInv, NEW c \in Caller, NEW k \in Key, slots[k].phase = "ready",
           caller[c].pc # "holding", AddLease(k),
           caller' = [caller EXCEPT ![c] = Lease(k, slots[k].gen, TRUE)]
    PROVE  LeaseCountExact'
<1>. USE DEF RegistryInv, TypeOK
<1>1. /\ slots'[k].gen = slots[k].gen /\ slots'[k].leases = slots[k].leases + 1
      /\ \A q \in Key : q # k => slots'[q] = slots[q]
  BY DEF AddLease, Ready
<1>2. /\ caller'[c].pc = "holding" /\ caller'[c].counted /\ caller'[c].gen = slots[k].gen
      /\ \A d \in Caller : d # c => caller'[d] = caller[d]
  BY DEF Lease
<1>3. PICK h \in Gen : h = slots[k].gen
  BY DEF SlotInv
<1>4. /\ Charged(h)' = Charged(h) \cup {c}
      /\ c \notin Charged(h)
      /\ \A g \in Gen : g # h => Charged(g)' = Charged(g)
  BY <1>2, <1>3 DEF Charged
<1>5. Cardinality(Charged(h)') = Cardinality(Charged(h)) + 1
  BY <1>4, ChargedCounted, FS_AddElement
<1>6. slots[k].leases = Cardinality(Charged(h))
  BY <1>3 DEF LeaseCountExact
<1>7. ASSUME NEW q \in Key, slots'[q].phase = "ready"
      PROVE  slots'[q].leases = Cardinality(Charged(slots[q].gen)')
  <2>1. CASE q = k
    BY <1>1, <1>3, <1>5, <1>6, <2>1
  <2>2. CASE q # k
    <3>1. slots'[q] = slots[q] /\ slots[q].gen \in Gen /\ slots[q].gen # h
      BY <1>1, <1>3, <1>7, <2>2 DEF SlotInv
    <3>. QED
      BY <1>4, <1>7, <3>1 DEF LeaseCountExact
  <2>. QED
    BY <2>1, <2>2
<1>. QED
  BY <1>7 DEF LeaseCountExact

(* Counts: each lease operation moves the count of the generation it names *)
(* and the set of its leases together.                                     *)
LEMMA LeaseCountStep == RegistryInv /\ TypeOK' /\ [RegistryNext]_registryVars => LeaseCountExact'
<1>. SUFFICES ASSUME RegistryInv /\ TypeOK', [RegistryNext]_registryVars PROVE LeaseCountExact'
  OBVIOUS
<1>. USE BoundAssumption DEF RegistryInv, TypeOK
<1>0. ASSUME UNCHANGED << slots, caller >> PROVE LeaseCountExact'
  BY <1>0, CountsKept
<1>1. ASSUME NEW c \in Caller, NEW k \in Key, AcquireReady(c, k) PROVE LeaseCountExact'
  <2>1. /\ slots[k].phase = "ready" /\ AddLease(k)
        /\ caller' = [caller EXCEPT ![c] = Lease(k, slots[k].gen, TRUE)]
        /\ caller[c].pc # "holding"
    BY <1>1 DEF AcquireReady, Admitted, Enters
  <2>. QED
    BY <2>1, CountOneMore
<1>2. ASSUME NEW c \in Caller, NEW k \in Key, AcquireWait(c, k) PROVE LeaseCountExact'
  <2>1. \A d \in Caller : caller[d].pc = "holding" \/ caller'[d].pc = "holding" =>
                             caller'[d] = caller[d]
    BY <1>2 DEF AcquireWait, Admitted, Enters, Waiting
  <2>2. \A q \in Key : slots'[q].phase = "ready" => slots'[q] = slots[q]
    BY <1>2 DEF AcquireWait, Creating
  <2>. QED
    BY <2>1, <2>2, CountsKept
<1>3. ASSUME NEW c \in Caller, NEW k \in Key, AcquireStart(c, k) PROVE LeaseCountExact'
  <2>1. \A d \in Caller : caller[d].pc = "holding" \/ caller'[d].pc = "holding" =>
                             caller'[d] = caller[d]
    BY <1>3 DEF AcquireStart, Admitted, Enters, Waiting
  <2>2. \A q \in Key : slots'[q].phase = "ready" => slots'[q] = slots[q]
    BY <1>3 DEF AcquireStart, Creating
  <2>. QED
    BY <2>1, <2>2, CountsKept
<1>4. ASSUME NEW c \in Caller, AcquireError(c) PROVE LeaseCountExact'
  <2>1. \A d \in Caller : caller[d].pc = "holding" \/ caller'[d].pc = "holding" =>
                             caller'[d] = caller[d]
    BY <1>4 DEF AcquireError, IdleCaller
  <2>. QED
    BY <1>4, <2>1, CountsKept DEF AcquireError
<1>5. ASSUME NEW c \in Caller, CancelAcquire(c) PROVE LeaseCountExact'
  <2>1. \A d \in Caller : caller[d].pc = "holding" \/ caller'[d].pc = "holding" =>
                             caller'[d] = caller[d]
    BY <1>5 DEF CancelAcquire, IdleCaller
  <2>. QED
    BY <1>5, <2>1, CountsKept DEF CancelAcquire
<1>6. ASSUME NEW c \in Caller, ReleaseLease(c) PROVE LeaseCountExact'
  <2>1. /\ caller[c].pc = "holding"
        /\ caller'[c].pc = "idle"
        /\ \A d \in Caller : d # c => caller'[d] = caller[d]
    BY <1>6 DEF ReleaseLease, IdleCaller
  <2>2. CASE ReleaseCharged(c)
    <3>1. /\ caller[c].key \in Key /\ caller[c].counted
          /\ IsCurrent(caller[c].key, caller[c].gen, "ready")
      BY <2>1, <2>2 DEF ReleaseCharged, LeaseInv, GenerationInv
    <3>2. /\ slots'[caller[c].key].leases = slots[caller[c].key].leases - 1
          /\ slots'[caller[c].key].gen = caller[c].gen
          /\ \A q \in Key : q # caller[c].key => slots'[q] = slots[q]
      BY <1>6, <2>2, <3>1 DEF ReleaseLease, Ready, IsCurrent
    <3>3. PICK h \in Gen : h = caller[c].gen
      BY <2>1 DEF LeaseInv
    <3>4. /\ Charged(h)' = Charged(h) \ {c}
          /\ c \in Charged(h)
          /\ \A g \in Gen : g # h => Charged(g)' = Charged(g)
      BY <2>1, <3>1, <3>3 DEF Charged
    <3>5. Cardinality(Charged(h)') = Cardinality(Charged(h)) - 1
      BY <3>4, ChargedCounted, FS_RemoveElement
    <3>6. /\ slots[caller[c].key].phase = "ready" /\ slots[caller[c].key].gen = h
          /\ \A q \in Key : slots[q].phase = "ready" =>
                 slots[q].gen \in Gen /\ (q # caller[c].key => slots[q].gen # h)
      BY <3>1, <3>3 DEF SlotInv, IsCurrent
    <3>7. slots[caller[c].key].leases = Cardinality(Charged(h))
      BY <3>1, <3>6 DEF LeaseCountExact
    <3>8. ASSUME NEW q \in Key, slots'[q].phase = "ready"
          PROVE  slots'[q].leases = Cardinality(Charged(slots[q].gen)')
      <4>1. CASE q = caller[c].key
        BY <3>2, <3>3, <3>5, <3>7, <4>1
      <4>2. CASE q # caller[c].key
        <5>1. slots'[q] = slots[q] /\ slots[q].gen \in Gen /\ slots[q].gen # h
          BY <3>2, <3>6, <3>8, <4>2
        <5>. QED
          BY <3>4, <3>8, <5>1 DEF LeaseCountExact
      <4>. QED
        BY <4>1, <4>2
    <3>. QED
      BY <3>8 DEF LeaseCountExact
  <2>3. CASE ~ReleaseCharged(c)
    <3>1. UNCHANGED slots
      BY <1>6, <2>3 DEF ReleaseLease
    <3>2. ASSUME NEW k \in Key, slots[k].phase = "ready"
          PROVE  Charged(slots[k].gen)' = Charged(slots[k].gen)
      <4>1. c \notin Charged(slots[k].gen)
        BY <2>3, <3>2, CountedLeaseOfCurrent DEF ReleaseCharged, Charged
      <4>. QED
        BY <2>1, <3>1, <4>1 DEF Charged
    <3>. QED
      BY <3>1, <3>2 DEF LeaseCountExact
  <2>. QED
    BY <2>2, <2>3
<1>7. ASSUME NEW c \in Caller, NEW d \in Caller, CloneLease(c, d) PROVE LeaseCountExact'
  <2>1. /\ caller[c].pc = "holding" /\ caller[d].pc = "idle"
        /\ caller' = [caller EXCEPT ![d] = Lease(caller[c].key, caller[c].gen, CloneCharged(c))]
    BY <1>7 DEF CloneLease
  <2>2. CASE CloneCharged(c)
    <3>1. /\ caller[c].key \in Key
          /\ slots[caller[c].key].phase = "ready"
          /\ slots[caller[c].key].gen = caller[c].gen
          /\ AddLease(caller[c].key)
      BY <1>7, <2>1, <2>2 DEF CloneLease, CloneCharged, IsCurrent, LeaseInv, GenerationInv
    <3>2. caller' = [caller EXCEPT ![d] = Lease(caller[c].key, caller[c].gen, TRUE)]
      BY <2>1, <2>2 DEF CloneCharged
    <3>. QED
      BY <2>1, <3>1, <3>2, CountOneMore
  <2>3. CASE ~CloneCharged(c)
    <3>1. UNCHANGED slots
      BY <1>7, <2>3 DEF CloneLease
    <3>2. \A g : Charged(g)' = Charged(g)
      BY <2>1, <2>3 DEF Charged, Lease
    <3>. QED
      BY <3>1, <3>2 DEF LeaseCountExact
  <2>. QED
    BY <2>2, <2>3
<1>8. ASSUME NEW g \in Gen, FinishPublished(g) PROVE LeaseCountExact'
  <2>1. /\ flight[g].stage = "running" /\ flight[g].key \in Key
        /\ IsCurrent(flight[g].key, g, "creating")
        /\ slots' = [slots EXCEPT ![flight[g].key] = Ready(g, 0, idleSeq + 1)]
    BY <1>8 DEF FinishPublished, FlightKey, GenerationInv
  <2>2. \A d \in Caller : caller[d].pc = "holding" \/ caller'[d].pc = "holding" =>
                             caller'[d] = caller[d]
    BY <1>8, NotifyKeepsLeases DEF FinishPublished, Outcome
  <2>3. \A h \in Gen : Charged(h)' = Charged(h)
    BY <2>2, ChargedKept
  <2>4. Charged(g) = {}
    BY <2>1 DEF LeaseInv, Charged
  <2>5. /\ slots'[flight[g].key].gen = g /\ slots'[flight[g].key].leases = 0
        /\ \A q \in Key : q # flight[g].key => slots'[q] = slots[q]
    BY <2>1 DEF Ready
  <2>6. Cardinality(Charged(g)') = 0
    BY <2>3, <2>4, FS_EmptySet
  <2>7. ASSUME NEW q \in Key, slots'[q].phase = "ready"
        PROVE  slots'[q].leases = Cardinality(Charged(slots[q].gen)')
    <3>1. CASE q = flight[g].key
      BY <2>5, <2>6, <3>1
    <3>2. CASE q # flight[g].key
      <4>1. slots'[q] = slots[q] /\ slots[q].gen \in Gen
        BY <2>5, <2>7, <3>2 DEF SlotInv
      <4>. QED
        BY <2>3, <2>7, <4>1 DEF LeaseCountExact
    <3>. QED
      BY <3>1, <3>2
  <2>. QED
    BY <2>7 DEF LeaseCountExact
<1>9. ASSUME NEW g \in Gen, FlightFailed(g) PROVE LeaseCountExact'
  <2>1. \A d \in Caller : caller[d].pc = "holding" \/ caller'[d].pc = "holding" =>
                             caller'[d] = caller[d]
    BY <1>9, NotifyKeepsLeases DEF FlightFailed, Outcome
  <2>2. \A q \in Key : slots'[q].phase = "ready" => slots'[q] = slots[q]
    BY <1>9 DEF FlightFailed, Vacant
  <2>. QED
    BY <2>1, <2>2, CountsKept
<1>10. ASSUME NEW g \in Gen, FlightStale(g) PROVE LeaseCountExact'
  BY <1>10, <1>0 DEF FlightStale
<1>11. ASSUME NEW g \in Gen, FlightExit(g) PROVE LeaseCountExact'
  BY <1>11, <1>0 DEF FlightExit
<1>12. ASSUME ReaperScan PROVE LeaseCountExact'
  BY <1>12, <1>0 DEF ReaperScan
<1>13. ASSUME ReaperNotified PROVE LeaseCountExact'
  BY <1>13, <1>0 DEF ReaperNotified
<1>14. ASSUME ReaperElapsed PROVE LeaseCountExact'
  <2>1. \A q \in Key : slots'[q].phase = "ready" => slots'[q] = slots[q]
    BY <1>14 DEF ReaperElapsed, Vacant
  <2>2. UNCHANGED caller
    BY <1>14 DEF ReaperElapsed
  <2>. QED
    BY <2>1, <2>2, CountsKept
<1>15. ASSUME NEW g \in Gen, ReaperJoins(g) PROVE LeaseCountExact'
  BY <1>15, <1>0 DEF ReaperJoins
<1>16. ASSUME ReaperStops PROVE LeaseCountExact'
  BY <1>16, <1>0 DEF ReaperStops
<1>17. ASSUME ReaperExit PROVE LeaseCountExact'
  BY <1>17, <1>0 DEF ReaperExit
<1>18. ASSUME DeadlinePasses PROVE LeaseCountExact'
  BY <1>18, <1>0 DEF DeadlinePasses
<1>19. ASSUME NEW k \in Key, Retire(k) PROVE LeaseCountExact'
  <2>1. \A d \in Caller : caller[d].pc = "holding" \/ caller'[d].pc = "holding" =>
                             caller'[d] = caller[d]
    BY <1>19, NotifyKeepsLeases DEF Retire, Outcome
  <2>2. \A q \in Key : slots'[q].phase = "ready" => slots'[q] = slots[q]
    BY <1>19 DEF Retire, Vacant
  <2>. QED
    BY <2>1, <2>2, CountsKept
<1>20. ASSUME DropRegistry PROVE LeaseCountExact'
  <2>1. \A q \in Key : slots'[q].phase = "vacant"
    BY <1>20 DEF DropRegistry, DrainSlots, Vacant
  <2>. QED
    BY <2>1 DEF LeaseCountExact
<1>21. CASE UNCHANGED registryVars
  BY <1>21, <1>0 DEF registryVars
<1>. QED
  BY <1>1, <1>2, <1>3, <1>4, <1>5, <1>6, <1>7, <1>8, <1>9, <1>10, <1>11, <1>12, <1>13,
     <1>14, <1>15, <1>16, <1>17, <1>18, <1>19, <1>20, <1>21
     DEF RegistryNext, UseNext, FlightStep, ReaperStep

-----------------------------------------------------------------------------
(* The reaper takes a generation only when no lease of it is left: a       *)
(* counted one would be in the count, an uncounted one is of an old one.   *)
LEMMA ReapedStep == RegistryInv /\ TypeOK' /\ [RegistryNext]_registryVars => NoLeaseOfReaped'
<1>. SUFFICES ASSUME RegistryInv /\ TypeOK', [RegistryNext]_registryVars PROVE NoLeaseOfReaped'
  OBVIOUS
<1>. USE BoundAssumption DEF RegistryInv, TypeOK
<1>0. ASSUME UNCHANGED << caller, manager >> PROVE NoLeaseOfReaped'
  BY <1>0 DEF NoLeaseOfReaped
<1>1. ASSUME NEW c \in Caller, NEW k \in Key, AcquireReady(c, k) PROVE NoLeaseOfReaped'
  BY <1>1 DEF AcquireReady, Lease, SlotInv, NoLeaseOfReaped, Reaped
<1>2. ASSUME NEW c \in Caller, NEW k \in Key, AcquireWait(c, k) PROVE NoLeaseOfReaped'
  BY <1>2 DEF AcquireWait, Waiting, NoLeaseOfReaped
<1>3. ASSUME NEW c \in Caller, NEW k \in Key, AcquireStart(c, k) PROVE NoLeaseOfReaped'
  BY <1>3 DEF AcquireStart, Waiting, NoLeaseOfReaped
<1>4. ASSUME NEW c \in Caller, AcquireError(c) PROVE NoLeaseOfReaped'
  BY <1>4 DEF AcquireError, IdleCaller, NoLeaseOfReaped
<1>5. ASSUME NEW c \in Caller, CancelAcquire(c) PROVE NoLeaseOfReaped'
  BY <1>5 DEF CancelAcquire, IdleCaller, NoLeaseOfReaped
<1>6. ASSUME NEW c \in Caller, ReleaseLease(c) PROVE NoLeaseOfReaped'
  BY <1>6 DEF ReleaseLease, IdleCaller, NoLeaseOfReaped
<1>7. ASSUME NEW c \in Caller, NEW d \in Caller, CloneLease(c, d) PROVE NoLeaseOfReaped'
  BY <1>7 DEF CloneLease, Lease, NoLeaseOfReaped
<1>8. ASSUME NEW g \in Gen, FinishPublished(g) PROVE NoLeaseOfReaped'
  <2>1. \A d \in Caller : caller'[d].pc = "holding" => caller'[d] = caller[d]
    BY <1>8, NotifyKeepsLeases DEF FinishPublished, Outcome
  <2>2. manager' = [manager EXCEPT ![g] = "live"]
    BY <1>8 DEF FinishPublished
  <2>. QED
    BY <2>1, <2>2 DEF NoLeaseOfReaped, LeaseInv, Reaped
<1>9. ASSUME NEW g \in Gen, FlightFailed(g) PROVE NoLeaseOfReaped'
  <2>1. \A d \in Caller : caller'[d].pc = "holding" => caller'[d] = caller[d]
    BY <1>9, NotifyKeepsLeases DEF FlightFailed, Outcome
  <2>. QED
    BY <1>9, <2>1 DEF FlightFailed, NoLeaseOfReaped
<1>10. ASSUME NEW g \in Gen, FlightStale(g) PROVE NoLeaseOfReaped'
  BY <1>10, <1>0 DEF FlightStale
<1>11. ASSUME NEW g \in Gen, FlightExit(g) PROVE NoLeaseOfReaped'
  BY <1>11, <1>0 DEF FlightExit
<1>12. ASSUME ReaperScan PROVE NoLeaseOfReaped'
  BY <1>12, <1>0 DEF ReaperScan
<1>13. ASSUME ReaperNotified PROVE NoLeaseOfReaped'
  BY <1>13, <1>0 DEF ReaperNotified
<1>14. ASSUME ReaperElapsed PROVE NoLeaseOfReaped'
  <2>1. CASE StillExpired(reaper.key)
    <3>1. /\ reaper.key \in Key
          /\ IsCurrent(reaper.key, reaper.gen, "ready")
          /\ slots[reaper.key].leases = 0
          /\ manager' = [manager EXCEPT ![reaper.gen] = "disconnecting"]
          /\ UNCHANGED caller
      BY <1>14, <2>1 DEF ReaperElapsed, StillExpired, ReaperState
    <3>2. ASSUME NEW c \in Caller, caller[c].pc = "holding"
          PROVE  caller[c].gen # reaper.gen
      <4>1. SUFFICES ASSUME caller[c].gen = reaper.gen PROVE FALSE
        OBVIOUS
      <4>2. caller[c].key = reaper.key
        BY <3>1, <3>2, <4>1 DEF LeaseInv, SlotInv, IsCurrent
      <4>3. caller[c].counted
        BY <3>1, <3>2, <4>1, <4>2 DEF LeaseInv
      <4>4. c \in Charged(slots[reaper.key].gen)
        BY <3>1, <3>2, <4>1, <4>3 DEF Charged, IsCurrent
      <4>. QED
        BY <3>1, <4>4, CountedLeaseOfCurrent DEF IsCurrent
    <3>. QED
      BY <3>1, <3>2 DEF NoLeaseOfReaped, LeaseInv
  <2>2. CASE ~StillExpired(reaper.key)
    BY <1>14, <2>2, <1>0 DEF ReaperElapsed
  <2>. QED
    BY <2>1, <2>2
<1>15. ASSUME NEW g \in Gen, ReaperJoins(g) PROVE NoLeaseOfReaped'
  BY <1>15 DEF ReaperJoins, NoLeaseOfReaped, LeaseInv, Reaped
<1>16. ASSUME ReaperStops PROVE NoLeaseOfReaped'
  BY <1>16 DEF ReaperStops, NoLeaseOfReaped, LeaseInv, Reaped
<1>17. ASSUME ReaperExit PROVE NoLeaseOfReaped'
  BY <1>17, <1>0 DEF ReaperExit
<1>18. ASSUME DeadlinePasses PROVE NoLeaseOfReaped'
  BY <1>18, <1>0 DEF DeadlinePasses
<1>19. ASSUME NEW k \in Key, Retire(k) PROVE NoLeaseOfReaped'
  <2>1. \A d \in Caller : caller'[d].pc = "holding" => caller'[d] = caller[d]
    BY <1>19, NotifyKeepsLeases DEF Retire, Outcome
  <2>. QED
    BY <1>19, <2>1 DEF Retire, NoLeaseOfReaped
<1>20. ASSUME DropRegistry PROVE NoLeaseOfReaped'
  <2>1. \A d \in Caller : caller'[d].pc = "holding" => caller'[d] = caller[d]
    BY <1>20 DEF DropRegistry, DrainSlots, Answered
  <2>. QED
    BY <1>20, <2>1 DEF DropRegistry, DrainSlots, NoLeaseOfReaped
<1>21. CASE UNCHANGED registryVars
  BY <1>21, <1>0 DEF registryVars
<1>. QED
  BY <1>1, <1>2, <1>3, <1>4, <1>5, <1>6, <1>7, <1>8, <1>9, <1>10, <1>11, <1>12, <1>13,
     <1>14, <1>15, <1>16, <1>17, <1>18, <1>19, <1>20, <1>21
     DEF RegistryNext, UseNext, FlightStep, ReaperStep

-----------------------------------------------------------------------------
(* The task counter: one for each flight not yet over, one for the reaper. *)
LEMMA TaskCountStep == RegistryInv /\ TypeOK' /\ [RegistryNext]_registryVars => TaskCountExact'
<1>. SUFFICES ASSUME RegistryInv /\ TypeOK', [RegistryNext]_registryVars PROVE TaskCountExact'
  OBVIOUS
<1>. USE BoundAssumption DEF RegistryInv, TypeOK
<1>0. ASSUME UNCHANGED << taskCount, flight, reaper >> PROVE TaskCountExact'
  BY <1>0 DEF TaskCountExact, LiveFlights, ReaperLives
<1>1. ASSUME NEW c \in Caller, NEW k \in Key, AcquireReady(c, k) PROVE TaskCountExact'
  <2>1. LiveFlights' = LiveFlights
    BY <1>1 DEF AcquireReady, LiveFlights
  <2>2. /\ taskCount' = taskCount + (IF reaper.pc = "off" THEN 1 ELSE 0)
        /\ ReaperLives' <=> (ReaperLives \/ reaper.pc = "off")
    BY <1>1 DEF AcquireReady, RegisterTasks, ReaperLives, ReaperAt
  <2>. QED
    BY <2>1, <2>2, LiveFlightsCounted DEF TaskCountExact, ReaperLives
<1>2. ASSUME NEW c \in Caller, NEW k \in Key, AcquireWait(c, k) PROVE TaskCountExact'
  <2>1. LiveFlights' = LiveFlights
    BY <1>2 DEF AcquireWait, LiveFlights
  <2>2. /\ taskCount' = taskCount + (IF reaper.pc = "off" THEN 1 ELSE 0)
        /\ ReaperLives' <=> (ReaperLives \/ reaper.pc = "off")
    BY <1>2 DEF AcquireWait, RegisterTasks, ReaperLives, ReaperAt
  <2>. QED
    BY <2>1, <2>2, LiveFlightsCounted DEF TaskCountExact, ReaperLives
<1>3. ASSUME NEW c \in Caller, NEW k \in Key, AcquireStart(c, k) PROVE TaskCountExact'
  <2>1. /\ nextGeneration + 1 \in Gen
        /\ flight' = [flight EXCEPT ![nextGeneration + 1] = [stage |-> "running", key |-> k]]
    BY <1>3 DEF AcquireStart
  <2>2. nextGeneration + 1 \notin LiveFlights
    BY <2>1, GenIsNat DEF GenerationInv, LiveFlights
  <2>3. LiveFlights' = LiveFlights \cup {nextGeneration + 1}
    BY <2>1 DEF LiveFlights
  <2>4. Cardinality(LiveFlights') = Cardinality(LiveFlights) + 1
    BY <2>2, <2>3, LiveFlightsCounted, FS_AddElement
  <2>5. /\ taskCount' = taskCount + 1 + (IF reaper.pc = "off" THEN 1 ELSE 0)
        /\ ReaperLives' <=> (ReaperLives \/ reaper.pc = "off")
    BY <1>3 DEF AcquireStart, RegisterTasks, ReaperLives, ReaperAt
  <2>. QED
    BY <2>4, <2>5, LiveFlightsCounted DEF TaskCountExact, ReaperLives
<1>4. ASSUME NEW c \in Caller, AcquireError(c) PROVE TaskCountExact'
  BY <1>4, <1>0 DEF AcquireError
<1>5. ASSUME NEW c \in Caller, CancelAcquire(c) PROVE TaskCountExact'
  BY <1>5, <1>0 DEF CancelAcquire
<1>6. ASSUME NEW c \in Caller, ReleaseLease(c) PROVE TaskCountExact'
  BY <1>6, <1>0 DEF ReleaseLease
<1>7. ASSUME NEW c \in Caller, NEW d \in Caller, CloneLease(c, d) PROVE TaskCountExact'
  BY <1>7, <1>0 DEF CloneLease
<1>8. ASSUME NEW g \in Gen, FinishPublished(g) PROVE TaskCountExact'
  <2>1. LiveFlights' = LiveFlights
    BY <1>8 DEF FinishPublished, LiveFlights, Flight
  <2>2. UNCHANGED << reaper, taskCount >>
    BY <1>8 DEF FinishPublished
  <2>. QED
    BY <2>1, <2>2 DEF TaskCountExact, ReaperLives
<1>9. ASSUME NEW g \in Gen, FlightFailed(g) PROVE TaskCountExact'
  <2>1. LiveFlights' = LiveFlights
    BY <1>9 DEF FlightFailed, LiveFlights, Flight
  <2>2. UNCHANGED << reaper, taskCount >>
    BY <1>9 DEF FlightFailed
  <2>. QED
    BY <2>1, <2>2 DEF TaskCountExact, ReaperLives
<1>10. ASSUME NEW g \in Gen, FlightStale(g) PROVE TaskCountExact'
  <2>1. LiveFlights' = LiveFlights
    BY <1>10 DEF FlightStale, LiveFlights, Flight
  <2>2. UNCHANGED << reaper, taskCount >>
    BY <1>10 DEF FlightStale
  <2>. QED
    BY <2>1, <2>2 DEF TaskCountExact, ReaperLives
<1>11. ASSUME NEW g \in Gen, FlightExit(g) PROVE TaskCountExact'
  <2>1. g \in LiveFlights
    BY <1>11 DEF FlightExit, LiveFlights
  <2>2. LiveFlights' = LiveFlights \ {g}
    BY <1>11 DEF FlightExit, LiveFlights, Flight
  <2>3. Cardinality(LiveFlights') = Cardinality(LiveFlights) - 1
    BY <2>1, <2>2, LiveFlightsCounted, FS_RemoveElement
  <2>4. taskCount' = taskCount - 1 /\ UNCHANGED reaper
    BY <1>11 DEF FlightExit, UnregisterTask
  <2>. QED
    BY <2>3, <2>4, LiveFlightsCounted DEF TaskCountExact, ReaperLives
<1>12. ASSUME ReaperScan PROVE TaskCountExact'
  <2>1. LiveFlights' = LiveFlights
    BY <1>12 DEF ReaperScan, LiveFlights
  <2>2. ReaperLives /\ ReaperLives' /\ UNCHANGED taskCount
    BY <1>12 DEF ReaperScan, ReaperLives, ReaperAt, Sleeping
  <2>. QED
    BY <2>1, <2>2 DEF TaskCountExact
<1>13. ASSUME ReaperNotified PROVE TaskCountExact'
  <2>1. LiveFlights' = LiveFlights
    BY <1>13 DEF ReaperNotified, LiveFlights
  <2>2. ReaperLives /\ ReaperLives' /\ UNCHANGED taskCount
    BY <1>13 DEF ReaperNotified, ReaperLives, ReaperAt
  <2>. QED
    BY <2>1, <2>2 DEF TaskCountExact
<1>14. ASSUME ReaperElapsed PROVE TaskCountExact'
  <2>1. LiveFlights' = LiveFlights
    BY <1>14 DEF ReaperElapsed, LiveFlights
  <2>2. ReaperLives /\ ReaperLives' /\ UNCHANGED taskCount
    BY <1>14 DEF ReaperElapsed, ReaperLives, ReaperAt
  <2>. QED
    BY <2>1, <2>2 DEF TaskCountExact
<1>15. ASSUME NEW g \in Gen, ReaperJoins(g) PROVE TaskCountExact'
  <2>1. LiveFlights' = LiveFlights
    BY <1>15 DEF ReaperJoins, LiveFlights
  <2>2. ReaperLives /\ ReaperLives' /\ UNCHANGED taskCount
    BY <1>15 DEF ReaperJoins, ReaperLives, ReaperAt
  <2>. QED
    BY <2>1, <2>2 DEF TaskCountExact
<1>16. ASSUME ReaperStops PROVE TaskCountExact'
  <2>1. LiveFlights' = LiveFlights
    BY <1>16 DEF ReaperStops, LiveFlights
  <2>2. ReaperLives /\ ReaperLives' /\ UNCHANGED taskCount
    BY <1>16 DEF ReaperStops, ReaperLives, ReaperAt
  <2>. QED
    BY <2>1, <2>2 DEF TaskCountExact
<1>17. ASSUME ReaperExit PROVE TaskCountExact'
  <2>1. LiveFlights' = LiveFlights
    BY <1>17 DEF ReaperExit, LiveFlights
  <2>2. ReaperLives /\ ~ReaperLives' /\ taskCount' = taskCount - 1
    BY <1>17 DEF ReaperExit, UnregisterTask, ReaperLives, ReaperAt
  <2>. QED
    BY <2>1, <2>2, LiveFlightsCounted DEF TaskCountExact
<1>18. ASSUME DeadlinePasses PROVE TaskCountExact'
  BY <1>18, <1>0 DEF DeadlinePasses
<1>19. ASSUME NEW k \in Key, Retire(k) PROVE TaskCountExact'
  BY <1>19, <1>0 DEF Retire
<1>20. ASSUME DropRegistry PROVE TaskCountExact'
  BY <1>20, <1>0 DEF DropRegistry, DrainSlots
<1>21. CASE UNCHANGED registryVars
  BY <1>21, <1>0 DEF registryVars
<1>. QED
  BY <1>1, <1>2, <1>3, <1>4, <1>5, <1>6, <1>7, <1>8, <1>9, <1>10, <1>11, <1>12, <1>13,
     <1>14, <1>15, <1>16, <1>17, <1>18, <1>19, <1>20, <1>21
     DEF RegistryNext, UseNext, FlightStep, ReaperStep

-----------------------------------------------------------------------------
(* The invariant.                                                          *)

(* It holds of the fresh registry.                                         *)
LEMMA RegistryStarts == RegistryInit => RegistryInv
<1>. SUFFICES ASSUME RegistryInit PROVE RegistryInv
  OBVIOUS
<1>. USE BoundAssumption
<1>1. TypeOK
  <2>1. slots \in [Key -> Slot]
    BY SlotValues DEF RegistryInit
  <2>2. caller \in [Caller -> CallerState]
    BY CallerValues DEF RegistryInit
  <2>3. flight \in [Gen -> Flight] /\ manager \in [Gen -> Manager] /\ reaper \in ReaperState
    BY ReaperValues DEF RegistryInit, Flight, Manager
  <2>4. lifecycle \in Lifecycle /\ nextGeneration \in 0 .. MaxGen /\ gated \in SUBSET Gen
    BY DEF RegistryInit, Lifecycle
  <2>5. idleSeq \in Nat /\ now \in Nat /\ taskCount \in Nat
    BY DEF RegistryInit
  <2>6. reaperPermit \in BOOLEAN
    BY Zenon DEF RegistryInit
  <2>7. cancelled \in BOOLEAN
    BY Zenon DEF RegistryInit
  <2>8. taskPermit \in BOOLEAN
    BY Zenon DEF RegistryInit
  <2>. QED
    BY <2>1, <2>2, <2>3, <2>4, <2>5, <2>6, <2>7, <2>8 DEF TypeOK
<1>2. TaskCountExact
  <2>1. LiveFlights = {}
    BY DEF RegistryInit, LiveFlights
  <2>2. ~ReaperLives /\ taskCount = 0
    BY DEF RegistryInit, ReaperLives, ReaperAt
  <2>. QED
    BY <2>1, <2>2, FS_EmptySet DEF TaskCountExact
<1>3. GenerationInv
  BY DEF RegistryInit, GenerationInv, Gen
<1>4. SlotInv /\ CurrentIsNewest /\ LeaseCountExact /\ IdleIffUnused
  BY DEF RegistryInit, SlotInv, CurrentIsNewest, LeaseCountExact, IdleIffUnused, Vacant
<1>5. NoStrandedWaiter /\ WaitsForKey /\ LeaseInv /\ NoLeaseOfReaped
  BY DEF RegistryInit, NoStrandedWaiter, WaitsForKey, LeaseInv, NoLeaseOfReaped, IdleCaller
<1>. QED
  BY <1>1, <1>2, <1>3, <1>4, <1>5 DEF RegistryInv

(* Every step keeps it.                                                    *)
LEMMA RegistryStepInv == RegistryInv /\ [RegistryNext]_registryVars => RegistryInv'
<1>. SUFFICES ASSUME RegistryInv, [RegistryNext]_registryVars PROVE RegistryInv'
  OBVIOUS
<1>1. TypeOK'
  BY TypeStep
<1>2. TaskCountExact' /\ GenerationInv' /\ SlotInv' /\ CurrentIsNewest'
  BY <1>1, TaskCountStep, GenerationStep, SlotStep, NewestStep
<1>3. NoStrandedWaiter' /\ WaitsForKey' /\ LeaseInv'
  BY <1>1, WaiterStep, LeaseStep
<1>4. LeaseCountExact' /\ IdleIffUnused' /\ NoLeaseOfReaped'
  BY <1>1, LeaseCountStep, IdleStep, ReapedStep
<1>. QED
  BY <1>1, <1>2, <1>3, <1>4 DEF RegistryInv

(* RegistryInv holds in every state of the registry, for every number of   *)
(* keys, consumers and generations.                                        *)
THEOREM RegistryInvariant == RegistrySpec => []RegistryInv
  BY RegistryStarts, RegistryStepInv, PTL DEF RegistrySpec

(* The state of SessionRegistryState and of its tasks stays well formed.   *)
THEOREM RegistryTypeCorrect == RegistrySpec => []TypeOK
<1>1. RegistryInv => TypeOK
  BY DEF RegistryInv
<1>. QED
  BY <1>1, RegistryInvariant, PTL

(* A published generation's lease count is the number of counted leases of *)
(* that generation: release_lease and clone_lease, compared by generation, *)
(* neither leak a lease nor take one from a replacement.                   *)
THEOREM LeasesCounted == RegistrySpec => []LeaseCountExact
<1>1. RegistryInv => LeaseCountExact
  BY DEF RegistryInv
<1>. QED
  BY <1>1, RegistryInvariant, PTL

(* A published generation has an idle deadline exactly while it has no     *)
(* counted lease.                                                          *)
THEOREM IdleDeadlines == RegistrySpec => []IdleIffUnused
<1>1. RegistryInv => IdleIffUnused
  BY DEF RegistryInv
<1>. QED
  BY <1>1, RegistryInvariant, PTL

(* The reaper never disconnects a manager that some lease, counted or not, *)
(* still names.                                                            *)
THEOREM NothingReapedInUse == RegistrySpec => []NoLeaseOfReaped
<1>1. RegistryInv => NoLeaseOfReaped
  BY DEF RegistryInv
<1>. QED
  BY <1>1, RegistryInvariant, PTL

(* Every acquire that waits is registered with a flight that still runs.   *)
THEOREM NobodyStranded == RegistrySpec => []NoStrandedWaiter
<1>1. RegistryInv => NoStrandedWaiter
  BY DEF RegistryInv
<1>. QED
  BY <1>1, RegistryInvariant, PTL

(* A slot holds the newest generation its key ever started: a retired      *)
(* flight never publishes over a later one.                                *)
THEOREM NewestIsCurrent == RegistrySpec => []CurrentIsNewest
<1>1. RegistryInv => CurrentIsNewest
  BY DEF RegistryInv
<1>. QED
  BY <1>1, RegistryInvariant, PTL

(* The task counter that wait_for_tasks reads is the number of tasks whose *)
(* guard is alive, so shutdown neither returns early nor waits for ever    *)
(* on a phantom task.                                                      *)
THEOREM TasksCounted == RegistrySpec => []TaskCountExact
<1>1. RegistryInv => TaskCountExact
  BY DEF RegistryInv
<1>. QED
  BY <1>1, RegistryInvariant, PTL

-----------------------------------------------------------------------------
(* The snapshot sums over the slots what the consumers hold: the sum is a  *)
(* recursion over sets of keys, and the cardinalities of the leases held   *)
(* of these sets satisfy its equation.                                     *)

ReadyKeys == {k \in Key : slots[k].phase = "ready"}

(* The leases charged to what some of the keys hold.                       *)
HeldOf(s) == {c \in Caller : \E k \in s : c \in Charged(slots[k].gen)}

(* One step of the recursion of MapThenSumSet.                             *)
AnyOf(s) == CHOOSE k \in s : TRUE
SumOver(f) == [s \in SUBSET ReadyKeys |->
                  IF s = {} THEN 0 ELSE slots[AnyOf(s)].leases + f[s \ {AnyOf(s)}]]

HeldCount == [s \in SUBSET ReadyKeys |-> Cardinality(HeldOf(s))]

(* A set of numbers that is not empty has a least one.                     *)
LEMMA LeastNumber ==
    ASSUME NEW S \in SUBSET Nat, S # {}
    PROVE  \E n \in S : \A m \in S : n <= m
<1>. DEFINE R == {p \in Nat \X Nat : p[1] < p[2]}
<1>1. IsWellFoundedOn(R, Nat)
  BY NatLessThanWellFounded DEF OpToRel
<1>2. \A n, m \in Nat : <<m, n>> \in R <=> m < n
  OBVIOUS
<1>. HIDE DEF R
<1>3. PICK n \in S : \A m \in S : ~(<<m, n>> \in R)
  BY <1>1, WFMin
<1>4. n \in Nat /\ \A m \in S : m \in Nat /\ ~(m < n)
  BY <1>2, <1>3
<1>. QED
  BY <1>4

(* Different keys hold different generations, so there are finitely many.  *)
LEMMA ReadyKeysFinite == RegistryInv => IsFiniteSet(ReadyKeys)
<1>. SUFFICES ASSUME RegistryInv PROVE IsFiniteSet(ReadyKeys)
  OBVIOUS
<1>. DEFINE gens == [k \in ReadyKeys |-> slots[k].gen]
<1>1. IsFiniteSet(Gen)
  BY BoundAssumption, FS_Interval DEF Gen
<1>2. gens \in Injection(ReadyKeys, Gen)
  BY DEF Injection, IsInjective, RegistryInv, SlotInv, ReadyKeys
<1>. HIDE DEF gens
<1>. QED
  BY <1>1, <1>2, FS_Injection

(* One key more adds the leases of its slot.                               *)
LEMMA HeldOfOneMore ==
    ASSUME RegistryInv, NEW s \in SUBSET ReadyKeys, NEW k \in s
    PROVE  HeldCount[s] = slots[k].leases + HeldCount[s \ {k}]
<1>1. slots[k].leases = Cardinality(Charged(slots[k].gen))
  BY DEF RegistryInv, LeaseCountExact, ReadyKeys
<1>2. \A q \in s \ {k} : slots[q].gen # slots[k].gen
  BY DEF RegistryInv, SlotInv, ReadyKeys
<1>3. Charged(slots[k].gen) \cap HeldOf(s \ {k}) = {}
  BY <1>2 DEF HeldOf, Charged
<1>4. HeldOf(s) = Charged(slots[k].gen) \cup HeldOf(s \ {k})
  BY DEF HeldOf, Charged
<1>5. HeldOf(s \ {k}) \subseteq Caller
  BY DEF HeldOf
<1>6. IsFiniteSet(HeldOf(s \ {k})) /\ IsFiniteSet(Charged(slots[k].gen))
  BY <1>5, CallerAssumption, FS_Subset, ChargedCounted
<1>7. Cardinality(HeldOf(s)) = Cardinality(Charged(slots[k].gen)) + Cardinality(HeldOf(s \ {k}))
  <2>. DEFINE A == Charged(slots[k].gen)
              B == HeldOf(s \ {k})
  <2>1. Cardinality(A \cap B) = 0
    BY <1>3, FS_EmptySet
  <2>2. Cardinality(A) \in Nat /\ Cardinality(B) \in Nat
    BY <1>6, FS_CardinalityType
  <2>3. IsFiniteSet(A) /\ IsFiniteSet(B) /\ HeldOf(s) = A \cup B
    BY <1>4, <1>6
  <2>. HIDE DEF A, B
  <2>4. Cardinality(A \cup B) = Cardinality(A) + Cardinality(B) - Cardinality(A \cap B)
    BY <2>3, FS_Union
  <2>5. Cardinality(HeldOf(s)) = Cardinality(A) + Cardinality(B)
    BY <2>1, <2>2, <2>3, <2>4
  <2>. QED
    BY <2>5 DEF A, B
<1>8. s \ {k} \in SUBSET ReadyKeys
  OBVIOUS
<1>. QED
  BY <1>1, <1>7, <1>8 DEF HeldCount

(* So the counts are a solution of the recursion...                        *)
CountsSum == HeldCount = SumOver(HeldCount)

LEMMA HeldCountSums == RegistryInv => CountsSum
<1>. SUFFICES ASSUME RegistryInv PROVE HeldCount = SumOver(HeldCount)
  BY DEF CountsSum
<1>1. ASSUME NEW s \in SUBSET ReadyKeys
      PROVE  HeldCount[s] = SumOver(HeldCount)[s]
  <2>1. CASE s = {}
    <3>1. HeldOf(s) = {}
      BY <2>1 DEF HeldOf
    <3>. QED
      BY <2>1, <3>1, FS_EmptySet DEF HeldCount, SumOver
  <2>2. CASE s # {}
    <3>1. AnyOf(s) \in s
      BY <2>2 DEF AnyOf
    <3>2. HeldCount[s] = slots[AnyOf(s)].leases + HeldCount[s \ {AnyOf(s)}]
      BY <3>1, HeldOfOneMore
    <3>. QED
      BY <2>2, <3>2 DEF SumOver
  <2>. QED
    BY <2>1, <2>2
<1>2. /\ HeldCount = [s \in SUBSET ReadyKeys |-> HeldCount[s]]
      /\ SumOver(HeldCount) = [s \in SUBSET ReadyKeys |-> SumOver(HeldCount)[s]]
  BY DEF HeldCount, SumOver
<1>. QED
  BY <1>1, <1>2, Zenon

(* ... and the only one: two solutions would differ first at a smallest    *)
(* set, which has no smaller one to differ at.                             *)
LEMMA SumUnique ==
    ASSUME RegistryInv, NEW f, f = SumOver(f)
    PROVE  f[ReadyKeys] = HeldCount[ReadyKeys]
<1>. DEFINE Differ == {s \in SUBSET ReadyKeys : f[s] # HeldCount[s]}
            Sizes == {Cardinality(s) : s \in Differ}
<1>1. \A s \in SUBSET ReadyKeys : IsFiniteSet(s) /\ Cardinality(s) \in Nat
  BY ReadyKeysFinite, FS_Subset, FS_CardinalityType
<1>2. Sizes \in SUBSET Nat
  BY <1>1
<1>3. SUFFICES ASSUME Differ # {} PROVE FALSE
  OBVIOUS
<1>4. PICK n \in Sizes : \A m \in Sizes : n <= m
  <2>1. Sizes # {}
    BY <1>3
  <2>. HIDE DEF Sizes
  <2>. QED
    BY <1>2, <2>1, LeastNumber
<1>5. PICK s \in Differ : n = Cardinality(s)
  BY <1>4
<1>6. \A t \in SUBSET ReadyKeys :
         f[t] = IF t = {} THEN 0 ELSE slots[AnyOf(t)].leases + f[t \ {AnyOf(t)}]
  BY Zenon DEF SumOver
<1>7. \A t \in SUBSET ReadyKeys :
         HeldCount[t] = IF t = {} THEN 0
                        ELSE slots[AnyOf(t)].leases + HeldCount[t \ {AnyOf(t)}]
  BY HeldCountSums, Zenon DEF SumOver, CountsSum
<1>8. s \in SUBSET ReadyKeys /\ s # {} /\ f[s \ {AnyOf(s)}] # HeldCount[s \ {AnyOf(s)}]
  BY <1>5, <1>6, <1>7
<1>9. AnyOf(s) \in s
  BY <1>8 DEF AnyOf
<1>10. Cardinality(s \ {AnyOf(s)}) \in Sizes
  BY <1>8
<1>11. Cardinality(s \ {AnyOf(s)}) = Cardinality(s) - 1
  BY <1>1, <1>8, <1>9, FS_RemoveElement
<1>. QED
  <2>1. n <= n - 1 /\ n \in Nat
    BY <1>2, <1>4, <1>5, <1>10, <1>11
  <2>. QED
    BY <2>1

(* The sum of a snapshot is the number of leases of current generations.   *)
LEMMA LeasesSummed ==
    RegistryInv =>
        SnapshotOf(lifecycle, slots, taskCount).activeLeases = Cardinality(HeldOf(ReadyKeys))
<1>. SUFFICES ASSUME RegistryInv
     PROVE SnapshotOf(lifecycle, slots, taskCount).activeLeases = Cardinality(HeldOf(ReadyKeys))
  OBVIOUS
<1>1. SnapshotOf(lifecycle, slots, taskCount).activeLeases
          = (CHOOSE f : f = SumOver(f))[ReadyKeys]
  BY DEF SnapshotOf, MapThenSumSet, MapThenFoldSet, ReadyKeys, AnyOf, SumOver
<1>2. PICK f : f = SumOver(f) /\ f = (CHOOSE g : g = SumOver(g))
  BY HeldCountSums DEF CountsSum
<1>3. f[ReadyKeys] = HeldCount[ReadyKeys]
  BY <1>2, SumUnique
<1>. QED
  BY <1>1, <1>2, <1>3 DEF HeldCount

(* Those are the leases SnapshotTruthful counts.                           *)
HoldersCounted ==
    HeldOf(ReadyKeys) = {c \in Caller : /\ caller[c].pc = "holding"
                                        /\ caller[c].counted
                                        /\ IsCurrent(caller[c].key, caller[c].gen, "ready")}

LEMMA HeldLeases == RegistryInv => HoldersCounted
<1>. SUFFICES ASSUME RegistryInv, NEW c \in Caller
     PROVE (\E k \in ReadyKeys : c \in Charged(slots[k].gen))
             <=> /\ caller[c].pc = "holding" /\ caller[c].counted
                 /\ IsCurrent(caller[c].key, caller[c].gen, "ready")
  BY DEF HeldOf, HoldersCounted
<1>1. ASSUME NEW k \in ReadyKeys, c \in Charged(slots[k].gen)
      PROVE  /\ caller[c].pc = "holding" /\ caller[c].counted
             /\ IsCurrent(caller[c].key, caller[c].gen, "ready")
  BY <1>1, CountedLeaseOfCurrent DEF ReadyKeys, Charged
<1>2. ASSUME caller[c].pc = "holding", caller[c].counted,
             IsCurrent(caller[c].key, caller[c].gen, "ready")
      PROVE  caller[c].key \in ReadyKeys /\ c \in Charged(slots[caller[c].key].gen)
  BY <1>2 DEF RegistryInv, LeaseInv, GenerationInv, IsCurrent, ReadyKeys, Charged
<1>. QED
  BY <1>1, <1>2

(* So a snapshot of the present state is truthful.                         *)
SnapshotCurrent == snapshot = SnapshotOf(lifecycle, slots, taskCount)

LEMMA PublishedIsTruthful == RegistryInv /\ SnapshotCurrent => SnapshotTruthful
<1>. SUFFICES ASSUME RegistryInv, SnapshotCurrent PROVE SnapshotTruthful
  OBVIOUS
<1>1. snapshot.activeLeases = Cardinality(HeldOf(ReadyKeys))
  BY LeasesSummed DEF SnapshotCurrent
<1>2. snapshot.state = lifecycle /\ snapshot.taskCount = taskCount
  BY DEF SnapshotCurrent, SnapshotOf
<1>3. snapshot.creatingCount = Cardinality({k \in Key : slots[k].phase = "creating"})
  BY DEF SnapshotCurrent, SnapshotOf
<1>4. snapshot.idleCount = Cardinality(IdleKeys)
  <2>1. IdleKeys = {k \in {q \in Key : slots[q].phase = "ready"} :
                       slots[k].leases = 0 /\ slots[k].idle # 0}
    BY DEF IdleKeys
  <2>. QED
    BY <2>1 DEF SnapshotCurrent, SnapshotOf
<1>. QED
  BY <1>1, <1>2, <1>3, <1>4, HeldLeases DEF SnapshotTruthful, HoldersCounted, RegistryInv, TaskCountExact

(* A sum over other slots with the same leases is the same sum.            *)
LEMMA SameLeasesSameSum ==
    ASSUME RegistryInv, RegistryInv', ReadyKeys' = ReadyKeys,
           \A k \in ReadyKeys : slots'[k].leases = slots[k].leases
    PROVE  Cardinality(HeldOf(ReadyKeys))' = Cardinality(HeldOf(ReadyKeys))
<1>1. HeldCount' = SumOver(HeldCount)'
  <2>1. CountsSum'
    BY HeldCountSums, PTL
  <2>. QED
    BY <2>1 DEF CountsSum
<1>2. SumOver(HeldCount)' = SumOver(HeldCount')
  <2>1. \A s \in SUBSET ReadyKeys : s # {} => AnyOf(s) \in ReadyKeys
    BY DEF AnyOf
  <2>2. \A s \in SUBSET ReadyKeys : s # {} => slots'[AnyOf(s)].leases = slots[AnyOf(s)].leases
    BY <2>1
  <2>3. SumOver(HeldCount)' = [s \in SUBSET ReadyKeys |->
            IF s = {} THEN 0 ELSE slots'[AnyOf(s)].leases + HeldCount'[s \ {AnyOf(s)}]]
    BY DEF SumOver, AnyOf
  <2>4. SumOver(HeldCount') = [s \in SUBSET ReadyKeys |->
            IF s = {} THEN 0 ELSE slots[AnyOf(s)].leases + HeldCount'[s \ {AnyOf(s)}]]
    BY DEF SumOver
  <2>. QED
    BY <2>2, <2>3, <2>4, Zenon
<1>3. HeldCount'[ReadyKeys] = HeldCount[ReadyKeys]
  BY <1>1, <1>2, SumUnique
<1>. QED
  BY <1>3 DEF HeldCount

(* A step that publishes nothing changes nothing a snapshot shows.         *)
LEMMA UnpublishedStep ==
    ASSUME RegistryInv, RegistryInv', SnapshotTruthful,
           UNCHANGED << snapshot, lifecycle, taskCount >>,
           \A k \in Key : /\ slots'[k].phase = slots[k].phase
                          /\ slots[k].phase = "ready" => slots'[k] = slots[k]
    PROVE  SnapshotTruthful'
<1>1. ReadyKeys' = ReadyKeys /\ \A k \in ReadyKeys : slots'[k].leases = slots[k].leases
  BY DEF ReadyKeys
<1>2. Cardinality(HeldOf(ReadyKeys))' = Cardinality(HeldOf(ReadyKeys))
  BY <1>1, SameLeasesSameSum
<1>3. snapshot.activeLeases = Cardinality(HeldOf(ReadyKeys))
  BY HeldLeases DEF SnapshotTruthful, HoldersCounted
<1>4. IdleKeys' = IdleKeys
         /\ {k \in Key : slots'[k].phase = "creating"} = {k \in Key : slots[k].phase = "creating"}
  BY DEF IdleKeys
<1>5. snapshot.taskCount = taskCount
  BY DEF SnapshotTruthful, RegistryInv, TaskCountExact
<1>6. snapshot'.activeLeases = Cardinality(HeldOf(ReadyKeys)')
  BY <1>2, <1>3
<1>7. HeldOf(ReadyKeys)' = {c \in Caller :
                              /\ caller[c].pc = "holding"
                              /\ caller[c].counted
                              /\ IsCurrent(caller[c].key, caller[c].gen, "ready")}'
  <2>1. HoldersCounted'
    BY HeldLeases, PTL
  <2>. QED
    BY <2>1 DEF HoldersCounted
<1>8. snapshot'.taskCount = (Cardinality(LiveFlights) + (IF ReaperLives THEN 1 ELSE 0))'
  BY <1>5 DEF RegistryInv, TaskCountExact
<1>. QED
  BY <1>4, <1>6, <1>7, <1>8 DEF SnapshotTruthful

(* Every step publishes or changes nothing that is shown.                  *)
LEMMA StepPublishes ==
    ASSUME RegistryInv, [RegistryNext]_registryVars
    PROVE  \/ PublishSnapshot
           \/ /\ UNCHANGED << snapshot, lifecycle, taskCount >>
              /\ \A k \in Key : /\ slots'[k].phase = slots[k].phase
                                /\ slots[k].phase = "ready" => slots'[k] = slots[k]
<1>. DEFINE Hidden == /\ UNCHANGED << snapshot, lifecycle, taskCount >>
                      /\ \A k \in Key : /\ slots'[k].phase = slots[k].phase
                                        /\ slots[k].phase = "ready" => slots'[k] = slots[k]
<1>. SUFFICES PublishSnapshot \/ Hidden
  OBVIOUS
<1>1. ASSUME UNCHANGED << snapshot, lifecycle, taskCount, slots >> PROVE Hidden
  BY <1>1
<1>2. ASSUME NEW c \in Caller, NEW k \in Key, AcquireWait(c, k) PROVE PublishSnapshot \/ Hidden
  <2>1. CASE reaper.pc = "off"
    BY <1>2, <2>1 DEF AcquireWait, PublishSnapshotIf
  <2>2. CASE reaper.pc # "off"
    <3>1. UNCHANGED << snapshot, lifecycle >>
      BY <1>2, <2>2 DEF AcquireWait, PublishSnapshotIf
    <3>2. UNCHANGED taskCount
      BY <1>2, <2>2 DEF AcquireWait, RegisterTasks, RegistryInv, TypeOK
    <3>3. \A q \in Key : /\ slots'[q].phase = slots[q].phase
                         /\ slots[q].phase = "ready" => slots'[q] = slots[q]
      BY <1>2 DEF AcquireWait, Creating, RegistryInv, TypeOK
    <3>. QED
      BY <3>1, <3>2, <3>3
  <2>. QED
    BY <2>1, <2>2
<1>3. ASSUME NEW c \in Caller, ReleaseLease(c) PROVE PublishSnapshot \/ Hidden
  BY <1>3, <1>1 DEF ReleaseLease, PublishSnapshotIf
<1>4. ASSUME NEW c \in Caller, NEW d \in Caller, CloneLease(c, d) PROVE PublishSnapshot \/ Hidden
  BY <1>4, <1>1 DEF CloneLease, PublishSnapshotIf
<1>5. ASSUME ReaperElapsed PROVE PublishSnapshot \/ Hidden
  BY <1>5, <1>1 DEF ReaperElapsed, PublishSnapshotIf
<1>6. ASSUME NEW c \in Caller, AcquireError(c) \/ CancelAcquire(c) PROVE Hidden
  BY <1>6, <1>1 DEF AcquireError, CancelAcquire
<1>7. ASSUME NEW g \in Gen, FlightStale(g) \/ ReaperJoins(g) PROVE Hidden
  BY <1>7, <1>1 DEF FlightStale, ReaperJoins
<1>8. ASSUME ReaperScan \/ ReaperNotified \/ ReaperStops \/ DeadlinePasses PROVE Hidden
  BY <1>8, <1>1 DEF ReaperScan, ReaperNotified, ReaperStops, DeadlinePasses
<1>9. ASSUME NEW c \in Caller, NEW k \in Key, AcquireReady(c, k) \/ AcquireStart(c, k)
      PROVE  PublishSnapshot
  BY <1>9 DEF AcquireReady, AcquireStart
<1>10. ASSUME NEW g \in Gen, FinishPublished(g) \/ FlightFailed(g) \/ FlightExit(g)
       PROVE  PublishSnapshot
  BY <1>10 DEF FinishPublished, FlightFailed, FlightExit, UnregisterTask
<1>11. ASSUME ReaperExit \/ DropRegistry PROVE PublishSnapshot
  BY <1>11 DEF ReaperExit, UnregisterTask, DropRegistry, DrainSlots
<1>12. ASSUME NEW k \in Key, Retire(k) PROVE PublishSnapshot
  BY <1>12 DEF Retire
<1>13. CASE UNCHANGED registryVars
  BY <1>13, <1>1 DEF registryVars
<1>. HIDE DEF Hidden
<1>14. CASE UseNext
  <2>1. ASSUME NEW g \in Gen, FlightStep(g) \/ FlightExit(g) PROVE PublishSnapshot \/ Hidden
    BY <2>1, <1>7, <1>10 DEF FlightStep
  <2>2. ASSUME ReaperStep PROVE PublishSnapshot \/ Hidden
    BY <2>2, <1>5, <1>7, <1>8, <1>11 DEF ReaperStep
  <2>. QED
    BY <1>2, <1>3, <1>4, <1>6, <1>8, <1>9, <1>14, <2>1, <2>2 DEF UseNext
<1>. QED
  BY <1>11, <1>12, <1>13, <1>14 DEF RegistryNext

(* So the snapshot stays truthful.                                         *)
LEMMA SnapshotStep ==
    RegistryInv /\ RegistryInv' /\ SnapshotTruthful /\ [RegistryNext]_registryVars
        => SnapshotTruthful'
<1>. SUFFICES ASSUME RegistryInv, RegistryInv', SnapshotTruthful, [RegistryNext]_registryVars
     PROVE SnapshotTruthful'
  OBVIOUS
<1>1. CASE PublishSnapshot
  <2>1. SnapshotCurrent'
    BY <1>1 DEF PublishSnapshot, SnapshotCurrent
  <2>. QED
    BY <2>1, PublishedIsTruthful, PTL
<1>2. CASE ~PublishSnapshot
  BY <1>2, StepPublishes, UnpublishedStep
<1>. QED
  BY <1>1, <1>2

(* The last snapshot that subscribers saw, or the next to see, shows the   *)
(* state of the registry: no operation forgets to publish what it changed  *)
(* (publish_snapshot after lock), and the leases it sums over the slots    *)
(* are those that consumers hold of current generations.                   *)
THEOREM SnapshotsTruthful == RegistrySpec => []SnapshotTruthful
<1>1. RegistryInit => SnapshotTruthful
  <2>1. RegistryInit => SnapshotCurrent
    BY DEF RegistryInit, SnapshotCurrent
  <2>. QED
    BY <2>1, RegistryStarts, PublishedIsTruthful
<1>2. RegistryInv /\ RegistryInv' /\ SnapshotTruthful /\ [RegistryNext]_registryVars
        => SnapshotTruthful'
  BY SnapshotStep
<1>. QED
  BY <1>1, <1>2, RegistryInvariant, PTL DEF RegistrySpec

-----------------------------------------------------------------------------
(* The registry implements SharedSessions: each step is a step of          *)
(* SharedSessions or changes nothing its consumers can tell.  Of the       *)
(* registry's invariant this needs who owns a slot (SlotInv), what leases  *)
(* name (LeaseInv) and that the reaper took nothing in use                 *)
(* (NoLeaseOfReaped).                                                      *)

(* What the mapping shows of the slots does not change.                    *)
LEMMA SlotsShown ==
    ASSUME \A q \in Key : slots'[q].phase = slots[q].phase /\ slots'[q].gen = slots[q].gen
    PROVE  /\ [q \in Key |-> slots'[q].gen] = [q \in Key |-> slots[q].gen]
           /\ {q \in Key : slots'[q].phase = "ready"} = {q \in Key : slots[q].phase = "ready"}
  OBVIOUS

(* What it shows of the consumers does not change when no lease does.      *)
LEMMA UseShown ==
    ASSUME \A c \in Caller : caller[c].pc = "holding" \/ caller'[c].pc = "holding" =>
                                caller'[c] = caller[c]
    PROVE  [c \in Caller |-> IF caller'[c].pc = "holding" THEN caller'[c].gen ELSE 0]
             = [c \in Caller |-> IF caller[c].pc = "holding" THEN caller[c].gen ELSE 0]
  OBVIOUS

(* A step that moves no slot and no lease, and takes no manager for        *)
(* disconnection, is invisible.                                            *)
LEMMA ViewStutters ==
    ASSUME UNCHANGED << lifecycle, nextGeneration >>,
           \A q \in Key : slots'[q].phase = slots[q].phase /\ slots'[q].gen = slots[q].gen,
           \A c \in Caller : caller[c].pc = "holding" \/ caller'[c].pc = "holding" =>
                                caller'[c] = caller[c],
           \A g \in Gen : manager'[g] \in Reaped <=> manager[g] \in Reaped
    PROVE  UNCHANGED Sessions!sessionVars
<1>1. {g \in Gen : manager'[g] \in Reaped} = {g \in Gen : manager[g] \in Reaped}
  OBVIOUS
<1>. QED
  BY <1>1, SlotsShown, UseShown DEF Sessions!sessionVars, Reaped

(* A slot that becomes vacant is withdrawn from the view.                  *)
LEMMA SlotVacated ==
    ASSUME NEW k \in Key, slots'[k] = Vacant, \A q \in Key : q # k => slots'[q] = slots[q]
    PROVE  /\ [q \in Key |-> slots'[q].gen] = [[q \in Key |-> slots[q].gen] EXCEPT ![k] = 0]
           /\ {q \in Key : slots'[q].phase = "ready"}
                = {q \in Key : slots[q].phase = "ready"} \ {k}
<1>1. slots'[k].gen = 0 /\ slots'[k].phase # "ready"
  BY DEF Vacant
<1>. QED
  BY <1>1

(* The mapping's changes of use.                                           *)
LEMMA UseTaken ==
    ASSUME NEW c \in Caller, NEW g, caller'[c].pc = "holding", caller'[c].gen = g,
           \A d \in Caller : d # c => caller'[d] = caller[d]
    PROVE  [d \in Caller |-> IF caller'[d].pc = "holding" THEN caller'[d].gen ELSE 0]
             = [[d \in Caller |-> IF caller[d].pc = "holding" THEN caller[d].gen ELSE 0]
                  EXCEPT ![c] = g]
  OBVIOUS

LEMMA UseGivenBack ==
    ASSUME NEW c \in Caller, caller'[c].pc # "holding",
           \A d \in Caller : d # c => caller'[d] = caller[d]
    PROVE  [d \in Caller |-> IF caller'[d].pc = "holding" THEN caller'[d].gen ELSE 0]
             = [[d \in Caller |-> IF caller[d].pc = "holding" THEN caller[d].gen ELSE 0]
                  EXCEPT ![c] = 0]
  OBVIOUS

(* A fresh registry shares no session.                                     *)
LEMMA RefinesInit == RegistryInit => Sessions!Init
<1>. SUFFICES ASSUME RegistryInit PROVE Sessions!Init
  OBVIOUS
<1>1. \A k \in Key : slots[k].gen = 0 /\ slots[k].phase = "vacant"
  BY DEF RegistryInit, Vacant
<1>2. \A c \in Caller : caller[c].pc = "idle"
  BY DEF RegistryInit, IdleCaller
<1>3. \A g \in Gen : manager[g] \notin Reaped
  BY DEF RegistryInit, Reaped
<1>4. lifecycle = "Running" /\ nextGeneration = 0
  BY DEF RegistryInit
<1>. QED
  BY <1>1, <1>2, <1>3, <1>4 DEF Sessions!Init

-----------------------------------------------------------------------------
(* Every step is one of SharedSessions, or stutters.                       *)
LEMMA RefinesStep ==
    RegistryInv /\ RegistryInv' /\ [RegistryNext]_registryVars => [Sessions!Next]_(Sessions!sessionVars)
<1>. SUFFICES ASSUME RegistryInv /\ RegistryInv', [RegistryNext]_registryVars PROVE [Sessions!Next]_(Sessions!sessionVars)
  OBVIOUS
<1>. USE DEF RegistryInv, TypeOK
<1>0. ASSUME UNCHANGED << lifecycle, nextGeneration, slots, caller, manager >> PROVE [Sessions!Next]_(Sessions!sessionVars)
  <2>1. \A q \in Key : slots'[q].phase = slots[q].phase /\ slots'[q].gen = slots[q].gen
    BY <1>0
  <2>. QED
    BY <1>0, <2>1, ViewStutters
<1>1. ASSUME NEW c \in Caller, NEW k \in Key, AcquireReady(c, k) PROVE [Sessions!Next]_(Sessions!sessionVars)
  <2>1. /\ lifecycle = "Running" /\ slots[k].phase = "ready" /\ caller[c].pc # "holding"
        /\ caller' = [caller EXCEPT ![c] = Lease(k, slots[k].gen, TRUE)]
        /\ UNCHANGED << lifecycle, nextGeneration, manager >>
    BY <1>1 DEF AcquireReady, Admitted, Enters
  <2>2. \A q \in Key : slots'[q].phase = slots[q].phase /\ slots'[q].gen = slots[q].gen
    BY <1>1, LeaseOpEffect DEF SlotsKept
  <2>3. /\ caller'[c].pc = "holding" /\ caller'[c].gen = slots[k].gen
        /\ \A d \in Caller : d # c => caller'[d] = caller[d]
    BY <2>1 DEF Lease
  <2>4. Sessions!Obtain(c, k)
    BY <2>1, <2>2, <2>3, SlotsShown, UseTaken DEF Sessions!Obtain
  <2>. QED
    BY <2>4 DEF Sessions!Next
<1>2. ASSUME NEW c \in Caller, NEW k \in Key, AcquireWait(c, k) PROVE [Sessions!Next]_(Sessions!sessionVars)
  <2>1. UNCHANGED << lifecycle, nextGeneration >>
    BY <1>2 DEF AcquireWait, Admitted, Enters, Waiting, Creating
  <2>2. \A q \in Key : slots'[q].phase = slots[q].phase /\ slots'[q].gen = slots[q].gen
    BY <1>2 DEF AcquireWait, Admitted, Enters, Waiting, Creating
  <2>3. \A e \in Caller : caller[e].pc = "holding" \/ caller'[e].pc = "holding" =>
                             caller'[e] = caller[e]
    BY <1>2 DEF AcquireWait, Admitted, Enters, Waiting, Creating
  <2>4. \A h \in Gen : manager'[h] \in Reaped <=> manager[h] \in Reaped
    BY <1>2 DEF AcquireWait, Admitted, Enters, Waiting, Creating
  <2>. QED
    BY <2>1, <2>2, <2>3, <2>4, ViewStutters
<1>3. ASSUME NEW c \in Caller, NEW k \in Key, AcquireStart(c, k) PROVE [Sessions!Next]_(Sessions!sessionVars)
  <2>1. /\ lifecycle = "Running" /\ slots[k].phase = "vacant"
        /\ nextGeneration' = nextGeneration + 1 /\ nextGeneration' \in Gen
        /\ slots' = [slots EXCEPT ![k] = Creating(nextGeneration', {c})]
        /\ UNCHANGED << lifecycle, manager >>
    BY <1>3 DEF AcquireStart, Admitted
  <2>2. slots[k].gen = 0
    BY <2>1 DEF SlotInv, Vacant
  <2>3. /\ slots'[k].gen = nextGeneration' /\ slots'[k].phase = "creating"
        /\ \A q \in Key : q # k => slots'[q] = slots[q]
    BY <2>1 DEF Creating
  <2>4. \A d \in Caller : caller[d].pc = "holding" \/ caller'[d].pc = "holding" =>
                             caller'[d] = caller[d]
    BY <1>3 DEF AcquireStart, Admitted, Enters, Waiting
  <2>5. [q \in Key |-> slots'[q].gen]
          = [[q \in Key |-> slots[q].gen] EXCEPT ![k] = nextGeneration']
    BY <2>3
  <2>6. {q \in Key : slots'[q].phase = "ready"} = {q \in Key : slots[q].phase = "ready"}
    BY <2>1, <2>3
  <2>7. Sessions!Start(k)
    BY <2>1, <2>2, <2>4, <2>5, <2>6, UseShown DEF Sessions!Start, Sessions!Gen, Gen
  <2>. QED
    BY <2>7 DEF Sessions!Next
<1>4. ASSUME NEW c \in Caller, AcquireError(c) PROVE [Sessions!Next]_(Sessions!sessionVars)
  <2>1. UNCHANGED << lifecycle, nextGeneration >>
    BY <1>4 DEF AcquireError, IdleCaller
  <2>2. \A q \in Key : slots'[q].phase = slots[q].phase /\ slots'[q].gen = slots[q].gen
    BY <1>4 DEF AcquireError, IdleCaller
  <2>3. \A e \in Caller : caller[e].pc = "holding" \/ caller'[e].pc = "holding" =>
                             caller'[e] = caller[e]
    BY <1>4 DEF AcquireError, IdleCaller
  <2>4. \A h \in Gen : manager'[h] \in Reaped <=> manager[h] \in Reaped
    BY <1>4 DEF AcquireError, IdleCaller
  <2>. QED
    BY <2>1, <2>2, <2>3, <2>4, ViewStutters
<1>5. ASSUME NEW c \in Caller, CancelAcquire(c) PROVE [Sessions!Next]_(Sessions!sessionVars)
  <2>1. UNCHANGED << lifecycle, nextGeneration >>
    BY <1>5 DEF CancelAcquire, IdleCaller
  <2>2. \A q \in Key : slots'[q].phase = slots[q].phase /\ slots'[q].gen = slots[q].gen
    BY <1>5 DEF CancelAcquire, IdleCaller
  <2>3. \A e \in Caller : caller[e].pc = "holding" \/ caller'[e].pc = "holding" =>
                             caller'[e] = caller[e]
    BY <1>5 DEF CancelAcquire, IdleCaller
  <2>4. \A h \in Gen : manager'[h] \in Reaped <=> manager[h] \in Reaped
    BY <1>5 DEF CancelAcquire, IdleCaller
  <2>. QED
    BY <2>1, <2>2, <2>3, <2>4, ViewStutters
<1>6. ASSUME NEW c \in Caller, ReleaseLease(c) PROVE [Sessions!Next]_(Sessions!sessionVars)
  <2>1. /\ caller[c].pc = "holding" /\ caller' = [caller EXCEPT ![c] = IdleCaller]
        /\ UNCHANGED << lifecycle, nextGeneration, manager >>
    BY <1>6 DEF ReleaseLease
  <2>2. \A q \in Key : slots'[q].phase = slots[q].phase /\ slots'[q].gen = slots[q].gen
    BY <1>6, LeaseOpEffect DEF SlotsKept
  <2>3. /\ caller'[c].pc # "holding"
        /\ \A d \in Caller : d # c => caller'[d] = caller[d]
    BY <2>1 DEF IdleCaller
  <2>4. caller[c].gen # 0
    BY <2>1, NoGenZero DEF LeaseInv
  <2>5. Sessions!GiveBack(c)
    BY <2>1, <2>2, <2>3, <2>4, SlotsShown, UseGivenBack DEF Sessions!GiveBack
  <2>. QED
    BY <2>5 DEF Sessions!Next
<1>7. ASSUME NEW c \in Caller, NEW d \in Caller, CloneLease(c, d) PROVE [Sessions!Next]_(Sessions!sessionVars)
  <2>1. /\ caller[c].pc = "holding" /\ caller[d].pc = "idle"
        /\ caller' = [caller EXCEPT ![d] = Lease(caller[c].key, caller[c].gen, CloneCharged(c))]
        /\ UNCHANGED << lifecycle, nextGeneration, manager >>
    BY <1>7 DEF CloneLease
  <2>2. \A q \in Key : slots'[q].phase = slots[q].phase /\ slots'[q].gen = slots[q].gen
    BY <1>7, LeaseOpEffect DEF SlotsKept
  <2>3. /\ caller'[d].pc = "holding" /\ caller'[d].gen = caller[c].gen
        /\ \A e \in Caller : e # d => caller'[e] = caller[e]
    BY <2>1 DEF Lease
  <2>4. caller[c].gen # 0
    BY <2>1, NoGenZero DEF LeaseInv
  <2>5. Sessions!Share(c, d)
    BY <2>1, <2>2, <2>3, <2>4, SlotsShown, UseTaken DEF Sessions!Share
  <2>. QED
    BY <2>5 DEF Sessions!Next
<1>8. ASSUME NEW g \in Gen, FinishPublished(g) PROVE [Sessions!Next]_(Sessions!sessionVars)
  <2>0. PICK k \in Key : k = flight[g].key
    BY <1>8 DEF FinishPublished, GenerationInv
  <2>1. /\ flight[g].stage = "running" /\ lifecycle = "Running"
        /\ slots[k].phase = "creating" /\ slots[k].gen = g
        /\ slots' = [slots EXCEPT ![k] = Ready(g, 0, idleSeq + 1)]
        /\ manager' = [manager EXCEPT ![g] = "live"]
        /\ UNCHANGED << lifecycle, nextGeneration >>
    BY <1>8, <2>0 DEF FinishPublished, FlightKey, IsCurrent
  <2>2. \A d \in Caller : caller[d].pc = "holding" \/ caller'[d].pc = "holding" =>
                             caller'[d] = caller[d]
    BY <1>8, NotifyKeepsLeases DEF FinishPublished, Outcome
  <2>3. /\ slots'[k].phase = "ready" /\ slots'[k].gen = g
        /\ \A q \in Key : q # k => slots'[q] = slots[q]
    BY <2>1 DEF Ready
  <2>4. [q \in Key |-> slots'[q].gen] = [q \in Key |-> slots[q].gen]
    BY <2>1, <2>3
  <2>5. {q \in Key : slots'[q].phase = "ready"}
          = {q \in Key : slots[q].phase = "ready"} \cup {k}
    BY <2>1, <2>3
  <2>6. manager[g] = "none"
    BY <2>1, NoGenZero DEF GenerationInv
  <2>7. {h \in Gen : manager'[h] \in Reaped} = {h \in Gen : manager[h] \in Reaped}
    BY <2>1, <2>6 DEF Reaped
  <2>8. Sessions!Open(k)
    BY <2>1, <2>2, <2>4, <2>5, <2>7, UseShown, NoGenZero DEF Sessions!Open, Reaped
  <2>. QED
    BY <2>8 DEF Sessions!Next
<1>9. ASSUME NEW g \in Gen, FlightFailed(g) PROVE [Sessions!Next]_(Sessions!sessionVars)
  <2>0. PICK k \in Key : k = flight[g].key
    BY <1>9 DEF FlightFailed, GenerationInv
  <2>1. /\ flight[g].stage = "running" /\ slots[k].gen = g
        /\ slots' = [slots EXCEPT ![k] = Vacant]
        /\ UNCHANGED << lifecycle, nextGeneration, manager >>
    BY <1>9, <2>0 DEF FlightFailed, FlightKey, IsCurrent
  <2>3. \A d \in Caller : caller[d].pc = "holding" \/ caller'[d].pc = "holding" =>
                             caller'[d] = caller[d]
    BY <1>9, NotifyKeepsLeases DEF FlightFailed, Outcome
  <2>4. slots'[k] = Vacant /\ \A q \in Key : q # k => slots'[q] = slots[q]
    BY <2>1
  <2>5. Sessions!Withdraw(k)
    BY <2>1, <2>3, <2>4, SlotVacated, UseShown, NoGenZero
    DEF Sessions!Withdraw, Sessions!Vacate
  <2>. QED
    BY <2>5 DEF Sessions!Next
<1>10. ASSUME NEW g \in Gen, FlightStale(g) PROVE [Sessions!Next]_(Sessions!sessionVars)
  <2>1. UNCHANGED << lifecycle, nextGeneration >>
    BY <1>10 DEF FlightStale
  <2>2. \A q \in Key : slots'[q].phase = slots[q].phase /\ slots'[q].gen = slots[q].gen
    BY <1>10 DEF FlightStale
  <2>3. \A e \in Caller : caller[e].pc = "holding" \/ caller'[e].pc = "holding" =>
                             caller'[e] = caller[e]
    BY <1>10 DEF FlightStale
  <2>4. \A h \in Gen : manager'[h] \in Reaped <=> manager[h] \in Reaped
    BY <1>10 DEF FlightStale
  <2>. QED
    BY <2>1, <2>2, <2>3, <2>4, ViewStutters
<1>11. ASSUME NEW g \in Gen, FlightExit(g) PROVE [Sessions!Next]_(Sessions!sessionVars)
  <2>1. UNCHANGED << lifecycle, nextGeneration >>
    BY <1>11 DEF FlightExit
  <2>2. \A q \in Key : slots'[q].phase = slots[q].phase /\ slots'[q].gen = slots[q].gen
    BY <1>11 DEF FlightExit
  <2>3. \A e \in Caller : caller[e].pc = "holding" \/ caller'[e].pc = "holding" =>
                             caller'[e] = caller[e]
    BY <1>11 DEF FlightExit
  <2>4. \A h \in Gen : manager'[h] \in Reaped <=> manager[h] \in Reaped
    BY <1>11 DEF FlightExit
  <2>. QED
    BY <2>1, <2>2, <2>3, <2>4, ViewStutters
<1>12. ASSUME ReaperScan PROVE [Sessions!Next]_(Sessions!sessionVars)
  <2>1. UNCHANGED << lifecycle, nextGeneration >>
    BY <1>12 DEF ReaperScan
  <2>2. \A q \in Key : slots'[q].phase = slots[q].phase /\ slots'[q].gen = slots[q].gen
    BY <1>12 DEF ReaperScan
  <2>3. \A e \in Caller : caller[e].pc = "holding" \/ caller'[e].pc = "holding" =>
                             caller'[e] = caller[e]
    BY <1>12 DEF ReaperScan
  <2>4. \A h \in Gen : manager'[h] \in Reaped <=> manager[h] \in Reaped
    BY <1>12 DEF ReaperScan
  <2>. QED
    BY <2>1, <2>2, <2>3, <2>4, ViewStutters
<1>13. ASSUME ReaperNotified PROVE [Sessions!Next]_(Sessions!sessionVars)
  <2>1. UNCHANGED << lifecycle, nextGeneration >>
    BY <1>13 DEF ReaperNotified
  <2>2. \A q \in Key : slots'[q].phase = slots[q].phase /\ slots'[q].gen = slots[q].gen
    BY <1>13 DEF ReaperNotified
  <2>3. \A e \in Caller : caller[e].pc = "holding" \/ caller'[e].pc = "holding" =>
                             caller'[e] = caller[e]
    BY <1>13 DEF ReaperNotified
  <2>4. \A h \in Gen : manager'[h] \in Reaped <=> manager[h] \in Reaped
    BY <1>13 DEF ReaperNotified
  <2>. QED
    BY <2>1, <2>2, <2>3, <2>4, ViewStutters
<1>14. ASSUME ReaperElapsed PROVE [Sessions!Next]_(Sessions!sessionVars)
  <2>1. UNCHANGED << lifecycle, nextGeneration, caller >>
    BY <1>14 DEF ReaperElapsed
  <2>2. CASE StillExpired(reaper.key)
    <3>1. PICK k \in Key : k = reaper.key
      BY <1>14 DEF ReaperElapsed, ReaperState
    <3>2. /\ slots[k].phase = "ready" /\ slots[k].gen = reaper.gen
          /\ slots' = [slots EXCEPT ![k] = Vacant]
          /\ manager' = [manager EXCEPT ![reaper.gen] = "disconnecting"]
      BY <1>14, <2>2, <3>1 DEF ReaperElapsed, StillExpired, IsCurrent
    <3>3. reaper.gen \in Gen
      BY <3>2 DEF SlotInv
    <3>4. slots'[k] = Vacant /\ \A q \in Key : q # k => slots'[q] = slots[q]
      BY <3>2
    <3>5. /\ manager'[reaper.gen] = "disconnecting"
          /\ \A h \in Gen : h # reaper.gen => manager'[h] = manager[h]
      BY <3>2, <3>3
    <3>6. ASSUME NEW c \in Caller, caller[c].pc = "holding" PROVE caller[c].gen # reaper.gen
      BY <2>1, <3>5, <3>6 DEF NoLeaseOfReaped, Reaped
    <3>7. {h \in Gen : manager'[h] \in Reaped}
            = {h \in Gen : manager[h] \in Reaped} \cup {reaper.gen}
      BY <3>3, <3>5 DEF Reaped
    <3>8. [c \in Caller |-> IF caller'[c].pc = "holding" THEN caller'[c].gen ELSE 0]
            = [c \in Caller |-> IF caller[c].pc = "holding" THEN caller[c].gen ELSE 0]
      BY <2>1
    <3>9. \A c \in Caller : (IF caller[c].pc = "holding" THEN caller[c].gen ELSE 0) # reaper.gen
      BY <3>3, <3>6, NoGenZero
    <3>10. Sessions!Expire(k)
      BY <2>1, <3>2, <3>4, <3>7, <3>8, <3>9, SlotVacated
      DEF Sessions!Expire, Sessions!Unused, Sessions!Vacate, Reaped
    <3>. QED
      BY <3>10 DEF Sessions!Next
  <2>3. CASE ~StillExpired(reaper.key)
    <3>1. UNCHANGED << slots, manager >>
      BY <1>14, <2>3 DEF ReaperElapsed
    <3>. QED
      BY <2>1, <3>1, <1>0
  <2>. QED
    BY <2>2, <2>3
<1>15. ASSUME NEW g \in Gen, ReaperJoins(g) PROVE [Sessions!Next]_(Sessions!sessionVars)
  <2>1. UNCHANGED << lifecycle, nextGeneration >>
    BY <1>15 DEF ReaperJoins, Reaped
  <2>2. \A q \in Key : slots'[q].phase = slots[q].phase /\ slots'[q].gen = slots[q].gen
    BY <1>15 DEF ReaperJoins, Reaped
  <2>3. \A e \in Caller : caller[e].pc = "holding" \/ caller'[e].pc = "holding" =>
                             caller'[e] = caller[e]
    BY <1>15 DEF ReaperJoins, Reaped
  <2>4. \A h \in Gen : manager'[h] \in Reaped <=> manager[h] \in Reaped
    BY <1>15 DEF ReaperJoins, Reaped
  <2>. QED
    BY <2>1, <2>2, <2>3, <2>4, ViewStutters
<1>16. ASSUME ReaperStops PROVE [Sessions!Next]_(Sessions!sessionVars)
  <2>1. UNCHANGED << lifecycle, nextGeneration >>
    BY <1>16 DEF ReaperStops, Reaped
  <2>2. \A q \in Key : slots'[q].phase = slots[q].phase /\ slots'[q].gen = slots[q].gen
    BY <1>16 DEF ReaperStops, Reaped
  <2>3. \A e \in Caller : caller[e].pc = "holding" \/ caller'[e].pc = "holding" =>
                             caller'[e] = caller[e]
    BY <1>16 DEF ReaperStops, Reaped
  <2>4. \A h \in Gen : manager'[h] \in Reaped <=> manager[h] \in Reaped
    BY <1>16 DEF ReaperStops, Reaped
  <2>. QED
    BY <2>1, <2>2, <2>3, <2>4, ViewStutters
<1>17. ASSUME ReaperExit PROVE [Sessions!Next]_(Sessions!sessionVars)
  <2>1. UNCHANGED << lifecycle, nextGeneration >>
    BY <1>17 DEF ReaperExit
  <2>2. \A q \in Key : slots'[q].phase = slots[q].phase /\ slots'[q].gen = slots[q].gen
    BY <1>17 DEF ReaperExit
  <2>3. \A e \in Caller : caller[e].pc = "holding" \/ caller'[e].pc = "holding" =>
                             caller'[e] = caller[e]
    BY <1>17 DEF ReaperExit
  <2>4. \A h \in Gen : manager'[h] \in Reaped <=> manager[h] \in Reaped
    BY <1>17 DEF ReaperExit
  <2>. QED
    BY <2>1, <2>2, <2>3, <2>4, ViewStutters
<1>18. ASSUME DeadlinePasses PROVE [Sessions!Next]_(Sessions!sessionVars)
  <2>1. UNCHANGED << lifecycle, nextGeneration >>
    BY <1>18 DEF DeadlinePasses
  <2>2. \A q \in Key : slots'[q].phase = slots[q].phase /\ slots'[q].gen = slots[q].gen
    BY <1>18 DEF DeadlinePasses
  <2>3. \A e \in Caller : caller[e].pc = "holding" \/ caller'[e].pc = "holding" =>
                             caller'[e] = caller[e]
    BY <1>18 DEF DeadlinePasses
  <2>4. \A h \in Gen : manager'[h] \in Reaped <=> manager[h] \in Reaped
    BY <1>18 DEF DeadlinePasses
  <2>. QED
    BY <2>1, <2>2, <2>3, <2>4, ViewStutters
<1>19. ASSUME NEW k \in Key, Retire(k) PROVE [Sessions!Next]_(Sessions!sessionVars)
  <2>1. /\ slots[k].phase # "vacant"
        /\ slots' = [slots EXCEPT ![k] = Vacant]
        /\ UNCHANGED << lifecycle, nextGeneration, manager >>
    BY <1>19 DEF Retire
  <2>2. slots[k].gen # 0
    BY <2>1, NoGenZero DEF SlotInv
  <2>3. \A d \in Caller : caller[d].pc = "holding" \/ caller'[d].pc = "holding" =>
                             caller'[d] = caller[d]
    BY <1>19, NotifyKeepsLeases DEF Retire, Outcome
  <2>4. slots'[k] = Vacant /\ \A q \in Key : q # k => slots'[q] = slots[q]
    BY <2>1
  <2>5. Sessions!Withdraw(k)
    BY <2>1, <2>2, <2>3, <2>4, SlotVacated, UseShown
    DEF Sessions!Withdraw, Sessions!Vacate
  <2>. QED
    BY <2>5 DEF Sessions!Next
<1>20. ASSUME DropRegistry PROVE [Sessions!Next]_(Sessions!sessionVars)
  <2>1. /\ lifecycle = "Running" /\ lifecycle' = "Stopped"
        /\ slots' = [k \in Key |-> Vacant]
        /\ UNCHANGED << nextGeneration, manager >>
    BY <1>20 DEF DropRegistry, DrainSlots
  <2>2. \A d \in Caller : caller[d].pc = "holding" \/ caller'[d].pc = "holding" =>
                             caller'[d] = caller[d]
    BY <1>20 DEF DropRegistry, DrainSlots, Answered
  <2>3. \A q \in Key : slots'[q].gen = 0 /\ slots'[q].phase # "ready"
    BY <2>1 DEF Vacant
  <2>4. /\ [q \in Key |-> slots'[q].gen] = [q \in Key |-> 0]
        /\ {q \in Key : slots'[q].phase = "ready"} = {}
    BY <2>3
  <2>5. Sessions!Close
    BY <2>1, <2>2, <2>4, UseShown DEF Sessions!Close
  <2>. QED
    BY <2>5 DEF Sessions!Next
<1>21. CASE UNCHANGED registryVars
  BY <1>21, <1>0 DEF registryVars
<1>. QED
  BY <1>1, <1>2, <1>3, <1>4, <1>5, <1>6, <1>7, <1>8, <1>9, <1>10, <1>11, <1>12, <1>13,
     <1>14, <1>15, <1>16, <1>17, <1>18, <1>19, <1>20, <1>21
     DEF RegistryNext, UseNext, FlightStep, ReaperStep

-----------------------------------------------------------------------------
(* Whatever is retired, cancelled, cloned, released late or reaped, what   *)
(* consumers see of session_registry.rs is SharedSessions: one current     *)
(* session per key, only that one is obtained, and only a session nobody   *)
(* uses expires.                                                           *)
THEOREM RegistryRefines == RegistrySpec => ImplementsSharedSessions
  BY RefinesInit, RefinesStep, RegistryInvariant, PTL
  DEF RegistrySpec, ImplementsSharedSessions, Sessions!Spec

(* The reaper takes a manager only when the slot it is current in has been *)
(* unused up to its own deadline: a reacquire in between, or a replacement *)
(* under the same key, makes take_expired_manager decline.                 *)
THEOREM OnlyExpiredReaped == RegistrySpec => ReapsOnlyExpired
<1>. DEFINE Reaps == \A g \in Gen : (manager[g] \notin Reaped /\ manager'[g] \in Reaped) =>
                        \E k \in Key : /\ IsCurrent(k, g, "ready")
                                       /\ k \in IdleKeys
                                       /\ slots[k].idle <= now
<1>1. RegistryInv /\ [RegistryNext]_registryVars => Reaps
  <2>. SUFFICES ASSUME RegistryInv, [RegistryNext]_registryVars PROVE Reaps
    OBVIOUS
  <2>. USE DEF RegistryInv, TypeOK
  <2>1. ASSUME UNCHANGED manager PROVE Reaps
    BY <2>1 DEF Reaped
  <2>2. ASSUME NEW h \in Gen, FinishPublished(h) PROVE Reaps
    BY <2>2 DEF FinishPublished, Reaped
  <2>3. ASSUME ReaperElapsed PROVE Reaps
    <3>1. CASE StillExpired(reaper.key)
      <4>1. reaper.key \in Key
        BY <2>3 DEF ReaperElapsed, ReaperState
      <4>2. /\ IsCurrent(reaper.key, reaper.gen, "ready")
            /\ slots[reaper.key].leases = 0
            /\ slots[reaper.key].idle <= now
            /\ manager' = [manager EXCEPT ![reaper.gen] = "disconnecting"]
        BY <2>3, <3>1 DEF ReaperElapsed, StillExpired
      <4>3. reaper.key \in IdleKeys
        BY <4>1, <4>2 DEF IdleKeys, IdleIffUnused, IsCurrent
      <4>. QED
        BY <4>1, <4>2, <4>3 DEF Reaped
    <3>2. CASE ~StillExpired(reaper.key)
      BY <2>1, <2>3, <3>2 DEF ReaperElapsed
    <3>. QED
      BY <3>1, <3>2
  <2>4. ASSUME NEW h \in Gen, ReaperJoins(h) PROVE Reaps
    BY <2>4 DEF ReaperJoins, Reaped
  <2>5. ASSUME ReaperStops PROVE Reaps
    BY <2>5 DEF ReaperStops, Reaped
  <2>6. ASSUME NEW c \in Caller, NEW q \in Key,
               AcquireReady(c, q) \/ AcquireWait(c, q) \/ AcquireStart(c, q)
        PROVE  Reaps
    BY <2>1, <2>6 DEF AcquireReady, AcquireWait, AcquireStart
  <2>7. ASSUME NEW c \in Caller, NEW d \in Caller,
               AcquireError(c) \/ CancelAcquire(c) \/ ReleaseLease(c) \/ CloneLease(c, d)
        PROVE  Reaps
    BY <2>1, <2>7 DEF AcquireError, CancelAcquire, ReleaseLease, CloneLease
  <2>8. ASSUME NEW h \in Gen, FlightFailed(h) \/ FlightStale(h) \/ FlightExit(h) PROVE Reaps
    BY <2>1, <2>8 DEF FlightFailed, FlightStale, FlightExit
  <2>9. ASSUME ReaperScan \/ ReaperNotified \/ ReaperExit \/ DeadlinePasses PROVE Reaps
    BY <2>1, <2>9 DEF ReaperScan, ReaperNotified, ReaperExit, DeadlinePasses
  <2>10. ASSUME NEW q \in Key, Retire(q) PROVE Reaps
    BY <2>1, <2>10 DEF Retire
  <2>11. CASE DropRegistry
    BY <2>1, <2>11 DEF DropRegistry, DrainSlots
  <2>12. CASE UNCHANGED registryVars
    BY <2>1, <2>12 DEF registryVars
  <2>. QED
    BY <2>2, <2>3, <2>4, <2>5, <2>6, <2>7, <2>8, <2>9, <2>10, <2>11, <2>12
    DEF RegistryNext, UseNext, FlightStep, ReaperStep
<1>2. RegistryInv /\ [RegistryNext]_registryVars =>
        [\A g \in Gen : (manager[g] \notin Reaped /\ manager'[g] \in Reaped) =>
            \E k \in Key : /\ IsCurrent(k, g, "ready")
                           /\ k \in IdleKeys
                           /\ slots[k].idle <= now]_registryVars
  BY <1>1
<1>. HIDE DEF Reaps
<1>. QED
  BY <1>2, RegistryInvariant, PTL DEF RegistrySpec, ReapsOnlyExpired

-----------------------------------------------------------------------------
(* The service                                                             *)

Published == {"exiting", "done"}
Untouched == {"none"} \cup Reaped
AllVacant == \A k \in Key : slots[k].phase = "vacant"

(* Admission and gates: what was gated had been published, and nothing is  *)
(* published once admission closed.                                        *)
GateInv ==
    /\ \A g \in gated : flight[g].stage \in Published
    /\ lifecycle = "Running" => gated = {}
    /\ lifecycle # "Running" => AllVacant

(* While admission is open every lease is of a current generation, and     *)
(* every live manager is current: these are the ones the drain gates.      *)
HeldInv ==
    lifecycle = "Running" =>
        \A c \in Caller : caller[c].pc = "holding" =>
            IsCurrent(caller[c].key, caller[c].gen, "ready")

LiveInv ==
    lifecycle = "Running" =>
        \A g \in Gen : manager[g] = "live" => \E k \in Key : IsCurrent(k, g, "ready")

(* One caller starts the shutdown, and only of a running registry.         *)
StartInv ==
    /\ \A s \in Closer : closer[s].pc = "starting" =>
            /\ shutdownStarted /\ driver.pc = "off"
            /\ \A r \in Closer : closer[r].pc = "starting" => r = s
    /\ driver.pc # "off" => shutdownStarted /\ lifecycle # "Running"
    /\ driver.pc = "off" /\ ~dropped => lifecycle = "Running"
    /\ dropped => ~shutdownStarted

(* The stages of the driver: the managers it was given, the join set, and  *)
(* what it has counted so far.                                             *)
Joining == {"joining", "counting", "parked", "aborting"}
Settled == {"stopping", "reporting", "done"}

OffInv == driver.pc = "off" => \A g \in Gen : manager[g] \in {"live"} \cup Untouched

OthersInv == driver.pc # "off" => \A g \in Gen \ gated : manager[g] \in Untouched

SpawnedInv ==
    driver.pc = "spawned" =>
        /\ driver.pending = gated
        /\ \A g \in gated : manager[g] = "live"
        /\ driver.report.completed = 0

JoiningInv ==
    driver.pc \in Joining =>
        /\ driver.pending \subseteq gated
        /\ \A g \in gated : manager[g] = "stopped" \/ (g \in driver.pending /\ manager[g] = "stopping")
        /\ driver.report.requested = driver.report.completed + Cardinality(driver.pending)
        /\ driver.pc \in {"counting", "parked"} => driver.pending = {}
        /\ driver.pc = "aborting" /\ ~driver.report.timedOut =>
              driver.pending = {} /\ taskCount = 0

SettledInv ==
    driver.pc \in Settled =>
        /\ driver.report.requested = driver.report.completed + driver.report.remaining
        /\ taskCount <= driver.report.tasks
        /\ \A g \in gated : manager[g] \in {"stopped", "abandoned"}
        /\ ~driver.report.timedOut => taskCount = 0 /\ \A g \in gated : manager[g] = "stopped"

DriverInv ==
    /\ driver \in Driver
    /\ driver.pc # "off" => driver.report.requested = Cardinality(gated)
    /\ OffInv /\ OthersInv /\ SpawnedInv /\ JoiningInv /\ SettledInv

ReportInv ==
    /\ report # NoReport => driver.pc = "done" /\ report = driver.report
    /\ \A s \in Closer : closer[s].pc = "returned" => report # NoReport /\ closer[s].result = report

ServiceInv ==
    /\ RegistryInv
    /\ closer \in [Closer -> CloserState]
    /\ GateInv /\ HeldInv /\ LiveInv /\ RetainedLeasesGated
    /\ StartInv /\ DriverInv /\ ReportInv /\ NoLostWakeup

-----------------------------------------------------------------------------
(* What the registry and its consumers do, as far as shutdown cares.       *)

(* Published flights stay published; the last task leaves a permit behind, *)
(* and only the driver takes it.                                           *)
TaskEffect ==
    /\ lifecycle' = lifecycle /\ gated' = gated
    /\ \A g \in Gen : flight[g].stage \in Published => flight'[g].stage \in Published
    /\ taskPermit => taskPermit'
    /\ taskCount' = 0 => taskCount = 0 \/ taskPermit'
    /\ lifecycle # "Running" /\ AllVacant => taskCount' <= taskCount

LEMMA UseTasks == ASSUME RegistryInv, UseNext PROVE TaskEffect
<1>. USE BoundAssumption DEF RegistryInv, TypeOK, TaskEffect
<1>0. ASSUME UNCHANGED << lifecycle, gated, flight, taskCount, taskPermit >> PROVE TaskEffect
  BY <1>0
<1>1. ASSUME NEW c \in Caller, NEW k \in Key, AcquireReady(c, k) PROVE TaskEffect
  BY <1>1 DEF AcquireReady, Admitted, RegisterTasks
<1>2. ASSUME NEW c \in Caller, NEW k \in Key, AcquireWait(c, k) PROVE TaskEffect
  BY <1>2 DEF AcquireWait, Admitted, RegisterTasks
<1>3. ASSUME NEW c \in Caller, NEW k \in Key, AcquireStart(c, k) PROVE TaskEffect
  <2>1. \A g \in Gen : flight[g].stage \in Published => g # nextGeneration + 1
    BY DEF GenerationInv, Published
  <2>2. \A g \in Gen : g # nextGeneration + 1 => flight'[g] = flight[g]
    BY <1>3 DEF AcquireStart
  <2>3. /\ lifecycle = "Running" /\ lifecycle' = lifecycle /\ gated' = gated
        /\ taskPermit' = taskPermit /\ taskCount' # 0
    BY <1>3 DEF AcquireStart, Admitted, RegisterTasks
  <2>. QED
    BY <2>1, <2>2, <2>3
<1>4. ASSUME NEW c \in Caller, AcquireError(c) \/ CancelAcquire(c) PROVE TaskEffect
  BY <1>4, <1>0 DEF AcquireError, CancelAcquire
<1>5. ASSUME NEW c \in Caller, ReleaseLease(c) PROVE TaskEffect
  BY <1>5, <1>0 DEF ReleaseLease
<1>6. ASSUME NEW c \in Caller, NEW d \in Caller, CloneLease(c, d) PROVE TaskEffect
  BY <1>6, <1>0 DEF CloneLease
<1>7. ASSUME NEW g \in Gen, FlightStep(g) PROVE TaskEffect
  <2>1. \A h \in Gen : flight'[h].stage = IF h = g THEN "exiting" ELSE flight[h].stage
    BY <1>7 DEF FlightStep, FinishPublished, FlightFailed, FlightStale, Flight
  <2>2. UNCHANGED << lifecycle, gated, taskCount, taskPermit >>
    BY <1>7 DEF FlightStep, FinishPublished, FlightFailed, FlightStale
  <2>. QED
    BY <2>1, <2>2 DEF Published
<1>8. ASSUME NEW g \in Gen, FlightExit(g) PROVE TaskEffect
  <2>1. \A h \in Gen : flight'[h].stage = IF h = g THEN "done" ELSE flight[h].stage
    BY <1>8 DEF FlightExit, Flight
  <2>2. lifecycle' = lifecycle /\ gated' = gated /\ taskPermit' = TRUE /\ taskCount' = taskCount - 1
    BY <1>8 DEF FlightExit, UnregisterTask
  <2>. QED
    BY <2>1, <2>2 DEF Published
<1>9. ASSUME ReaperStep PROVE TaskEffect
  <2>1. ASSUME ReaperExit PROVE TaskEffect
    <3>1. UNCHANGED << lifecycle, gated, flight >> /\ taskPermit' = TRUE /\ taskCount' = taskCount - 1
      BY <2>1 DEF ReaperExit, UnregisterTask
    <3>. QED
      BY <3>1
  <2>2. ASSUME ~ReaperExit PROVE UNCHANGED << lifecycle, gated, flight, taskCount, taskPermit >>
    BY <1>9, <2>2 DEF ReaperStep, ReaperScan, ReaperNotified, ReaperElapsed, ReaperStops, ReaperJoins
  <2>. QED
    BY <1>0, <2>1, <2>2
<1>10. ASSUME DeadlinePasses PROVE TaskEffect
  BY <1>10, <1>0 DEF DeadlinePasses
<1>. QED
  BY <1>1, <1>2, <1>3, <1>4, <1>5, <1>6, <1>7, <1>8, <1>9, <1>10 DEF UseNext

(* A current generation stays current or is taken by the reaper.           *)
StaysCurrent(k, g) == IsCurrent(k, g, "ready")' \/ manager'[g] \in Reaped

SlotEffect ==
    /\ \A k \in Key, g \in Gen : IsCurrent(k, g, "ready") => StaysCurrent(k, g)
    /\ lifecycle # "Running" /\ AllVacant => AllVacant'

LEMMA UseSlots == ASSUME RegistryInv, UseNext PROVE SlotEffect
<1>. USE BoundAssumption DEF RegistryInv, TypeOK, SlotEffect, StaysCurrent, IsCurrent, AllVacant
<1>0. ASSUME UNCHANGED slots PROVE SlotEffect
  BY <1>0
<1>1. ASSUME SlotsKept PROVE SlotEffect
  BY <1>1 DEF SlotsKept
<1>2. ASSUME NEW c \in Caller, NEW k \in Key, AcquireWait(c, k) PROVE SlotEffect
  BY <1>2 DEF AcquireWait, Admitted
<1>3. ASSUME NEW c \in Caller, NEW k \in Key, AcquireStart(c, k) PROVE SlotEffect
  BY <1>3 DEF AcquireStart, Admitted
<1>4. ASSUME NEW c \in Caller, AcquireError(c) \/ CancelAcquire(c) PROVE SlotEffect
  BY <1>4, <1>0 DEF AcquireError, CancelAcquire
<1>5. ASSUME NEW g \in Gen, FinishPublished(g) PROVE SlotEffect
  BY <1>5 DEF FinishPublished
<1>6. ASSUME NEW g \in Gen, FlightFailed(g) PROVE SlotEffect
  BY <1>6 DEF FlightFailed, Vacant
<1>7. ASSUME NEW g \in Gen, FlightStale(g) \/ FlightExit(g) PROVE SlotEffect
  BY <1>7, <1>0 DEF FlightStale, FlightExit
<1>8. ASSUME ReaperElapsed PROVE SlotEffect
  <2>1. CASE ~StillExpired(reaper.key)
    BY <1>8, <2>1, <1>0 DEF ReaperElapsed
  <2>2. CASE StillExpired(reaper.key)
    <3>1. slots' = [slots EXCEPT ![reaper.key] = Vacant]
      BY <1>8, <2>2 DEF ReaperElapsed
    <3>2. manager' = [manager EXCEPT ![reaper.gen] = "disconnecting"]
      BY <1>8, <2>2 DEF ReaperElapsed
    <3>3. slots[reaper.key].gen = reaper.gen
      BY <2>2 DEF StillExpired
    <3>. QED
      BY <3>1, <3>2, <3>3 DEF Vacant, Reaped
  <2>. QED
    BY <2>1, <2>2
<1>9. ASSUME ReaperStep, ~ReaperElapsed PROVE SlotEffect
  <2>1. UNCHANGED slots
    BY <1>9 DEF ReaperStep, ReaperScan, ReaperNotified, ReaperStops, ReaperJoins, ReaperExit
  <2>. QED
    BY <2>1, <1>0
<1>10. ASSUME DeadlinePasses PROVE SlotEffect
  BY <1>10, <1>0 DEF DeadlinePasses
<1>11. ASSUME NEW c \in Caller, \/ \E k \in Key : AcquireReady(c, k)
                                \/ ReleaseLease(c)
                                \/ \E d \in Caller : CloneLease(c, d)
       PROVE  SlotEffect
  <2>1. SlotsKept
    BY <1>11, LeaseOpEffect
  <2>. QED
    BY <2>1, <1>1
<1>. QED
  BY <1>2, <1>3, <1>4, <1>5, <1>6, <1>7, <1>8, <1>9, <1>10, <1>11 DEF UseNext, FlightStep

(* A flight publishes its manager under its key; the reaper takes live     *)
(* ones of a slot; nothing else moves a manager.                           *)
ManagerEffect ==
    \A g \in Gen :
        \/ manager'[g] = manager[g]
        \/ manager[g] \in Reaped /\ manager'[g] \in Reaped
        \/ /\ lifecycle = "Running" /\ manager'[g] = "live"
           /\ \E k \in Key : IsCurrent(k, g, "ready")'
        \/ /\ ~AllVacant /\ manager[g] = "live" /\ manager'[g] \in Reaped

LEMMA UseManagers == ASSUME RegistryInv, UseNext PROVE ManagerEffect
<1>. USE BoundAssumption DEF RegistryInv, TypeOK, ManagerEffect
<1>0. ASSUME UNCHANGED manager PROVE ManagerEffect
  BY <1>0
<1>1. ASSUME NEW c \in Caller, NEW k \in Key, AcquireReady(c, k) \/ AcquireWait(c, k) \/ AcquireStart(c, k)
      PROVE  ManagerEffect
  BY <1>1, <1>0 DEF AcquireReady, AcquireWait, AcquireStart
<1>2. ASSUME NEW c \in Caller, AcquireError(c) \/ CancelAcquire(c) \/ ReleaseLease(c) PROVE ManagerEffect
  BY <1>2, <1>0 DEF AcquireError, CancelAcquire, ReleaseLease
<1>3. ASSUME NEW c \in Caller, NEW d \in Caller, CloneLease(c, d) PROVE ManagerEffect
  BY <1>3, <1>0 DEF CloneLease
<1>4. ASSUME NEW g \in Gen, FinishPublished(g) PROVE ManagerEffect
  <2>1. flight[g].key \in Key
    BY <1>4, NoGenZero DEF FinishPublished, GenerationInv
  <2>2. slots' = [slots EXCEPT ![flight[g].key] = Ready(g, 0, idleSeq + 1)]
    BY <1>4 DEF FinishPublished, FlightKey
  <2>3. IsCurrent(flight[g].key, g, "ready")'
    <3>1. slots'[flight[g].key] = Ready(g, 0, idleSeq + 1)
      BY <2>1, <2>2
    <3>2. flight'[g].key = flight[g].key
      BY <1>4 DEF FinishPublished, Flight
    <3>. QED
      BY <3>1, <3>2 DEF Ready, IsCurrent
  <2>4. \E k \in Key : IsCurrent(k, g, "ready")'
    <3>1. flight'[g].key \in Key
      BY <1>4, <2>1 DEF FinishPublished, Flight
    <3>. QED
      BY <2>3, <3>1
  <2>5. lifecycle = "Running" /\ manager' = [manager EXCEPT ![g] = "live"]
    BY <1>4 DEF FinishPublished
  <2>. QED
    BY <2>4, <2>5
<1>5. ASSUME NEW g \in Gen, FlightFailed(g) \/ FlightStale(g) \/ FlightExit(g) PROVE ManagerEffect
  BY <1>5, <1>0 DEF FlightFailed, FlightStale, FlightExit
<1>6. ASSUME ReaperElapsed PROVE ManagerEffect
  <2>1. CASE ~StillExpired(reaper.key)
    BY <1>6, <2>1, <1>0 DEF ReaperElapsed
  <2>2. CASE StillExpired(reaper.key)
    <3>1. manager' = [manager EXCEPT ![reaper.gen] = "disconnecting"]
      BY <1>6, <2>2 DEF ReaperElapsed
    <3>2. reaper.key \in Key
      BY <1>6 DEF ReaperElapsed, ReaperState
    <3>3. slots[reaper.key].gen = reaper.gen /\ slots[reaper.key].phase = "ready"
      BY <2>2 DEF StillExpired, IsCurrent
    <3>4. ~AllVacant /\ manager[reaper.gen] = "live"
      BY <3>2, <3>3 DEF AllVacant, SlotInv
    <3>. QED
      BY <3>1, <3>4 DEF Reaped
  <2>. QED
    BY <2>1, <2>2
<1>7. ASSUME NEW g \in Gen, ReaperJoins(g) PROVE ManagerEffect
  BY <1>7 DEF ReaperJoins, Reaped
<1>8. ASSUME ReaperStops PROVE ManagerEffect
  BY <1>8 DEF ReaperStops, Reaped
<1>9. ASSUME ReaperScan \/ ReaperNotified \/ ReaperExit PROVE ManagerEffect
  BY <1>9, <1>0 DEF ReaperScan, ReaperNotified, ReaperExit
<1>10. ASSUME DeadlinePasses PROVE ManagerEffect
  BY <1>10, <1>0 DEF DeadlinePasses
<1>. QED
  BY <1>1, <1>2, <1>3, <1>4, <1>5, <1>6, <1>7, <1>8, <1>9, <1>10
     DEF UseNext, FlightStep, ReaperStep

(* A lease is kept, cloned from one, or granted of a current generation.   *)
SameLease(c, d) == caller[d].pc = "holding" /\ caller'[c].gen = caller[d].gen
                                            /\ caller'[c].key = caller[d].key

LeaseEffect ==
    \A c \in Caller : caller'[c].pc = "holding" =>
        \/ \E d \in Caller : SameLease(c, d)
        \/ lifecycle = "Running" /\ IsCurrent(caller[c].key, caller[c].gen, "ready")'

LEMMA UseLeases == ASSUME RegistryInv, UseNext PROVE LeaseEffect
<1>. USE BoundAssumption DEF RegistryInv, TypeOK
<1>0. ASSUME \A c \in Caller : caller'[c].pc = "holding" => caller'[c] = caller[c] PROVE LeaseEffect
  <2>1. \A c \in Caller : caller'[c].pc = "holding" => SameLease(c, c)
    BY <1>0 DEF SameLease
  <2>. QED
    BY <2>1 DEF LeaseEffect
<1>1. ASSUME NEW c \in Caller, NEW k \in Key, AcquireReady(c, k) PROVE LeaseEffect
  <2>1. /\ lifecycle = "Running" /\ slots[k].phase = "ready"
        /\ caller' = [caller EXCEPT ![c] = Lease(k, slots[k].gen, TRUE)]
    BY <1>1 DEF AcquireReady, Admitted
  <2>2. slots'[k].phase = slots[k].phase /\ slots'[k].gen = slots[k].gen
    BY <1>1, LeaseOpEffect DEF SlotsKept
  <2>3. caller'[c].key = k /\ caller'[c].gen = slots[k].gen
    BY <2>1 DEF Lease
  <2>4. IsCurrent(caller[c].key, caller[c].gen, "ready")'
    BY <2>1, <2>2, <2>3 DEF IsCurrent
  <2>5. \A d \in Caller : d # c /\ caller'[d].pc = "holding" => SameLease(d, d)
    BY <2>1 DEF SameLease
  <2>. QED
    BY <2>1, <2>4, <2>5 DEF LeaseEffect
<1>2. ASSUME NEW c \in Caller, NEW k \in Key, AcquireWait(c, k) \/ AcquireStart(c, k) PROVE LeaseEffect
  BY <1>2, <1>0 DEF AcquireWait, AcquireStart, Waiting
<1>3. ASSUME NEW c \in Caller, AcquireError(c) \/ CancelAcquire(c) \/ ReleaseLease(c) PROVE LeaseEffect
  BY <1>3, <1>0 DEF AcquireError, CancelAcquire, ReleaseLease, IdleCaller
<1>4. ASSUME NEW c \in Caller, NEW d \in Caller, CloneLease(c, d) PROVE LeaseEffect
  <2>1. /\ caller[c].pc = "holding"
        /\ caller' = [caller EXCEPT ![d] = Lease(caller[c].key, caller[c].gen, CloneCharged(c))]
    BY <1>4 DEF CloneLease
  <2>2. SameLease(d, c)
    <3>1. caller'[d] = Lease(caller[c].key, caller[c].gen, CloneCharged(c))
      BY <2>1
    <3>. QED
      BY <2>1, <3>1 DEF SameLease, Lease
  <2>3. \A e \in Caller : e # d /\ caller'[e].pc = "holding" => SameLease(e, e)
    BY <2>1 DEF SameLease
  <2>. QED
    BY <2>2, <2>3 DEF LeaseEffect
<1>5. ASSUME NEW g \in Gen, FinishPublished(g) PROVE LeaseEffect
  BY <1>5, <1>0, NotifyKeepsLeases DEF FinishPublished, Outcome
<1>6. ASSUME NEW g \in Gen, FlightFailed(g) PROVE LeaseEffect
  BY <1>6, <1>0, NotifyKeepsLeases DEF FlightFailed, Outcome
<1>7. ASSUME NEW g \in Gen, FlightStale(g) \/ FlightExit(g) PROVE LeaseEffect
  BY <1>7, <1>0 DEF FlightStale, FlightExit
<1>8. ASSUME ReaperStep PROVE LeaseEffect
  <2>1. UNCHANGED caller
    BY <1>8 DEF ReaperStep, ReaperScan, ReaperNotified, ReaperElapsed, ReaperStops, ReaperJoins, ReaperExit
  <2>. QED
    BY <2>1, <1>0
<1>9. ASSUME DeadlinePasses PROVE LeaseEffect
  BY <1>9, <1>0 DEF DeadlinePasses
<1>. QED
  BY <1>1, <1>2, <1>3, <1>4, <1>5, <1>6, <1>7, <1>8, <1>9 DEF UseNext, FlightStep

-----------------------------------------------------------------------------
(* The registry's invariant is the service's, too.                         *)

(* The drain empties every slot, so whoever waited was found there and is  *)
(* answered, and no lease is of a current generation any more.             *)
LEMMA DrainKeeps ==
    ASSUME RegistryInv, NEW l \in Lifecycle, DrainSlots(l), gated' \in SUBSET Gen
    PROVE  /\ RegistryInv' /\ AllVacant'
           /\ \A c \in Caller : caller'[c].pc = "holding" => caller'[c] = caller[c]
           /\ \A c \in Caller : caller'[c].pc # "waiting"
<1>. USE BoundAssumption DEF RegistryInv, TypeOK, DrainSlots
<1>1. /\ UNCHANGED << nextGeneration, flight, manager, reaper, reaperPermit, idleSeq, now,
                      taskCount, taskPermit >>
      /\ lifecycle' = l /\ cancelled' = TRUE
  OBVIOUS
<1>2. slots' = [k \in Key |-> Vacant] /\ slots' \in [Key -> Slot]
  BY SlotValues
<1>3. \A k \in Key : slots'[k] = Vacant /\ slots'[k].phase = "vacant"
  BY <1>2 DEF Vacant
<1>4. \A c \in Caller : caller'[c] = IF caller[c].pc = "waiting"
                                      THEN Answered(caller[c].key, "Failed") ELSE caller[c]
  <2>1. \A c \in Caller : caller[c].pc = "waiting" =>
            \E k \in Key : IsCurrent(k, caller[c].gen, "creating") /\ c \in slots[k].waiters
    BY DEF NoStrandedWaiter, WaitsForKey
  <2>2. \A c \in Caller :
            caller'[c] = IF /\ caller[c].pc = "waiting"
                            /\ \E k \in Key : /\ IsCurrent(k, caller[c].gen, "creating")
                                              /\ c \in slots[k].waiters
                         THEN Answered(caller[c].key, "Failed") ELSE caller[c]
    OBVIOUS
  <2>. HIDE DEF DrainSlots, RegistryInv, TypeOK
  <2>3. ASSUME NEW c \in Caller, caller[c].pc = "waiting"
        PROVE  caller'[c] = Answered(caller[c].key, "Failed")
    <3>1. \E k \in Key : IsCurrent(k, caller[c].gen, "creating") /\ c \in slots[k].waiters
      BY <2>1, <2>3
    <3>. QED
      BY <2>2, <2>3, <3>1
  <2>4. ASSUME NEW c \in Caller, caller[c].pc # "waiting" PROVE caller'[c] = caller[c]
    BY <2>2, <2>4
  <2>. QED
    BY <2>3, <2>4
<1>5. caller' \in [Caller -> CallerState]
  <2>1. \A c \in Caller : Answered(caller[c].key, "Failed") \in CallerState
    BY CallerValues DEF CallerState, Outcome
  <2>. QED
    BY <2>1
<1>6. \A c \in Caller : caller'[c].pc # "waiting"
  <2>1. \A c \in Caller : Answered(caller[c].key, "Failed").pc = "answered"
    BY DEF Answered
  <2>. QED
    BY <1>4, <2>1
<1>7. \A c \in Caller : caller'[c].pc = "holding" => caller'[c] = caller[c]
  <2>1. \A c \in Caller : Answered(caller[c].key, "Failed").pc = "answered"
    BY DEF Answered
  <2>. QED
    BY <1>4, <2>1
<1>8. TypeOK'
  BY <1>1, <1>2, <1>5
<1>9. TaskCountExact' /\ GenerationInv'
  BY <1>1 DEF TaskCountExact, LiveFlights, ReaperLives, GenerationInv
<1>10. SlotInv' /\ CurrentIsNewest' /\ LeaseCountExact' /\ IdleIffUnused'
  BY <1>3 DEF SlotInv, CurrentIsNewest, LeaseCountExact, IdleIffUnused
<1>11. NoStrandedWaiter' /\ WaitsForKey'
  BY <1>6 DEF NoStrandedWaiter, WaitsForKey
<1>12. LeaseInv'
  <2>1. SUFFICES ASSUME NEW c \in Caller, caller'[c].pc = "holding"
        PROVE  /\ caller'[c].gen \in Gen
               /\ caller'[c].gen <= nextGeneration'
               /\ flight'[caller'[c].gen].key = caller'[c].key
               /\ flight'[caller'[c].gen].stage \in {"exiting", "done"}
               /\ slots'[caller'[c].key].phase # "ready"
    BY DEF LeaseInv, IsCurrent
  <2>2. caller'[c] = caller[c] /\ caller'[c].key \in Key
    BY <1>7, <2>1 DEF LeaseInv, GenerationInv
  <2>3. slots'[caller'[c].key].phase # "ready"
    BY <1>3, <2>2
  <2>. QED
    BY <1>1, <2>1, <2>2, <2>3 DEF LeaseInv
<1>13. NoLeaseOfReaped'
  BY <1>1, <1>7 DEF NoLeaseOfReaped
<1>14. RegistryInv'
  BY <1>8, <1>9, <1>10, <1>11, <1>12, <1>13
<1>. QED
  BY <1>3, <1>6, <1>7, <1>14 DEF AllVacant

(* Once no slot is ready, the managers of published flights may be         *)
(* stopped.                                                                *)
LEMMA StoppingKeeps ==
    ASSUME RegistryInv, AllVacant, ManagersUnchanged,
           NEW S \in SUBSET Gen, \A g \in S : flight[g].stage \in Published,
           NEW v \in {"stopping", "stopped", "abandoned"},
           manager' = [g \in Gen |-> IF g \in S THEN v ELSE manager[g]]
    PROVE  RegistryInv'
<1>. USE DEF RegistryInv, TypeOK, ManagersUnchanged
<1>1. UNCHANGED << lifecycle, slots, nextGeneration, caller, flight, gated, reaper,
                   reaperPermit, idleSeq, now, cancelled, taskCount, taskPermit >>
  OBVIOUS
<1>2. \A g \in Gen : manager'[g] = IF g \in S THEN v ELSE manager[g]
  OBVIOUS
<1>3. TypeOK'
  BY <1>1 DEF Manager
<1>4. TaskCountExact' /\ CurrentIsNewest' /\ LeaseCountExact' /\ IdleIffUnused'
  BY <1>1 DEF TaskCountExact, LiveFlights, ReaperLives, CurrentIsNewest, LeaseCountExact,
              Charged, IdleIffUnused
<1>5. NoStrandedWaiter' /\ WaitsForKey' /\ LeaseInv'
  BY <1>1 DEF NoStrandedWaiter, WaitsForKey, LeaseInv, IsCurrent
<1>6. GenerationInv'
  BY <1>1, <1>2 DEF GenerationInv, Published
<1>7. SlotInv'
  <2>1. \A k \in Key : slots'[k].phase = "vacant" /\ slots'[k] = slots[k]
    BY <1>1 DEF AllVacant
  <2>. QED
    BY <2>1 DEF SlotInv
<1>8. NoLeaseOfReaped'
  <2>1. \A g \in Gen : manager'[g] \in Reaped => manager[g] \in Reaped
    BY <1>2 DEF Reaped
  <2>2. \A c \in Caller : caller[c].pc = "holding" => caller[c].gen \in Gen
    BY DEF LeaseInv
  <2>. QED
    BY <1>1, <2>1, <2>2 DEF NoLeaseOfReaped
<1>. QED
  BY <1>3, <1>4, <1>5, <1>6, <1>7, <1>8

(* The lifecycle and the permit of the last task are nobody's business.    *)
LEMMA ElsewhereKeeps ==
    ASSUME RegistryInv, lifecycle' \in Lifecycle, taskPermit' \in BOOLEAN,
           UNCHANGED << slots, nextGeneration, caller, flight, manager, gated, reaper,
                        reaperPermit, idleSeq, now, cancelled, taskCount >>
    PROVE  RegistryInv'
<1>. USE DEF RegistryInv, TypeOK
<1>1. TypeOK'
  OBVIOUS
<1>2. TaskCountExact' /\ CurrentIsNewest' /\ LeaseCountExact' /\ IdleIffUnused'
  BY DEF TaskCountExact, LiveFlights, ReaperLives, CurrentIsNewest, LeaseCountExact,
              Charged, IdleIffUnused
<1>3. NoStrandedWaiter' /\ WaitsForKey' /\ LeaseInv'
  BY DEF NoStrandedWaiter, WaitsForKey, LeaseInv, IsCurrent
<1>4. GenerationInv' /\ SlotInv' /\ NoLeaseOfReaped'
  BY DEF GenerationInv, SlotInv, NoLeaseOfReaped
<1>. QED
  BY <1>1, <1>2, <1>3, <1>4

LEMMA UseKeeps == ASSUME RegistryInv, UseNext PROVE RegistryInv'
  BY RegistryStepInv DEF RegistryNext

-----------------------------------------------------------------------------
(* The steps of the service.                                               *)

(* A lease names a key and a generation.                                   *)
LEMMA LeaseNames ==
    ASSUME RegistryInv, NEW c \in Caller, caller[c].pc = "holding"
    PROVE  caller[c].gen \in Gen /\ caller[c].key \in Key
  BY DEF RegistryInv, LeaseInv, GenerationInv

(* While admission is open: leases stay current, as the reaper takes no    *)
(* generation in use.                                                      *)
LEMMA UseHeld == ASSUME ServiceInv, UseNext, RegistryInv', lifecycle = "Running" PROVE HeldInv'
<1>1. SUFFICES ASSUME NEW c \in Caller, caller'[c].pc = "holding"
      PROVE  /\ slots'[caller'[c].key].phase = "ready"
             /\ slots'[caller'[c].key].gen = caller'[c].gen
  BY DEF HeldInv, IsCurrent
<1>2. CASE lifecycle = "Running" /\ IsCurrent(caller[c].key, caller[c].gen, "ready")'
  BY <1>2 DEF IsCurrent
<1>3. ASSUME NEW d \in Caller, SameLease(c, d)
      PROVE  /\ slots'[caller'[c].key].phase = "ready"
             /\ slots'[caller'[c].key].gen = caller'[c].gen
  <2>1. caller[d].gen \in Gen /\ caller[d].key \in Key
    BY <1>3, LeaseNames DEF ServiceInv, SameLease
  <2>2. IsCurrent(caller[d].key, caller[d].gen, "ready")
    BY <1>3 DEF ServiceInv, HeldInv, SameLease
  <2>3. \A k \in Key, g \in Gen : IsCurrent(k, g, "ready") =>
            (slots'[k].phase = "ready" /\ slots'[k].gen = g) \/ manager'[g] \in Reaped
    BY UseSlots DEF ServiceInv, SlotEffect, StaysCurrent, IsCurrent
  <2>4. manager'[caller[d].gen] \notin Reaped
    BY <1>1, <1>3 DEF RegistryInv, NoLeaseOfReaped, SameLease
  <2>. QED
    BY <1>3, <2>1, <2>2, <2>3, <2>4 DEF SameLease
<1>4. (\E d \in Caller : SameLease(c, d))
        \/ (lifecycle = "Running" /\ IsCurrent(caller[c].key, caller[c].gen, "ready")')
  BY <1>1, UseLeases DEF ServiceInv, LeaseEffect
<1>. QED
  BY <1>2, <1>3, <1>4

LEMMA UseLive == ASSUME ServiceInv, UseNext, lifecycle = "Running" PROVE LiveInv'
<1>1. SUFFICES ASSUME NEW g \in Gen
      PROVE  manager'[g] = "live" => \E k \in Key : slots'[k].phase = "ready" /\ slots'[k].gen = g
  BY DEF LiveInv, IsCurrent
<1>2. manager[g] = "live" => \E k \in Key : IsCurrent(k, g, "ready")
  BY DEF ServiceInv, LiveInv
<1>3. \A k \in Key : IsCurrent(k, g, "ready") =>
            (slots'[k].phase = "ready" /\ slots'[k].gen = g) \/ manager'[g] \in Reaped
  BY UseSlots DEF ServiceInv, SlotEffect, StaysCurrent, IsCurrent
<1>4. \/ manager'[g] = manager[g]
      \/ manager'[g] \in Reaped
      \/ manager'[g] = "live" /\ \E k \in Key : slots'[k].phase = "ready" /\ slots'[k].gen = g
  BY UseManagers DEF ServiceInv, ManagerEffect, IsCurrent
<1>5. "live" \notin Reaped
  BY DEF Reaped
<1>. QED
  BY <1>2, <1>3, <1>4, <1>5 DEF Untouched

(* After admission closed: a lease is only copied, no manager the driver   *)
(* was given changes under it, and the tasks only become fewer.            *)
LEMMA UseStopped ==
    ASSUME ServiceInv, UseNext, lifecycle # "Running"
    PROVE  /\ RetainedLeasesGated'
           /\ \A g \in Gen : manager[g] \notin Reaped => manager'[g] = manager[g]
           /\ \A g \in Gen : manager[g] \in Untouched => manager'[g] \in Untouched
           /\ taskCount' <= taskCount
<1>1. AllVacant
  BY DEF ServiceInv, GateInv
<1>2. \A g \in Gen : manager'[g] = manager[g] \/ (manager[g] \in Reaped /\ manager'[g] \in Reaped)
  BY <1>1, UseManagers DEF ServiceInv, ManagerEffect
<1>3. gated' = gated /\ taskCount' <= taskCount
  BY <1>1, UseTasks DEF ServiceInv, TaskEffect
<1>4. \A c \in Caller : caller'[c].pc = "holding" => \E d \in Caller : SameLease(c, d)
  BY UseLeases DEF ServiceInv, LeaseEffect
<1>5. \A d \in Caller : caller[d].pc = "holding" => caller[d].gen \in gated
  BY DEF ServiceInv, RetainedLeasesGated
<1>6. RetainedLeasesGated'
  BY <1>3, <1>4, <1>5 DEF RetainedLeasesGated, SameLease
<1>. QED
  BY <1>2, <1>3, <1>6 DEF Untouched

LEMMA UseDriver ==
    ASSUME ServiceInv, UseNext, UNCHANGED serviceVars
    PROVE  DriverInv' /\ NoLostWakeup'
<1>1. driver' = driver /\ gated' = gated
  BY UseTasks DEF serviceVars, ServiceInv, TaskEffect
<1>2. taskCount \in Nat /\ taskCount' \in Nat
  BY UseKeeps DEF ServiceInv, RegistryInv, TypeOK
<1>3. NoLostWakeup'
  BY <1>1, UseTasks DEF ServiceInv, TaskEffect, NoLostWakeup
<1>4. CASE driver.pc = "off"
  <2>1. \A g \in Gen : manager[g] \in {"live"} \cup Untouched
    BY <1>4 DEF ServiceInv, DriverInv, OffInv
  <2>2. \A g \in Gen : manager'[g] \in {"live"} \cup Untouched
    BY <2>1, UseManagers DEF ServiceInv, ManagerEffect, Untouched
  <2>. QED
    BY <1>1, <1>3, <1>4, <2>2
       DEF ServiceInv, DriverInv, OffInv, OthersInv, SpawnedInv, JoiningInv, SettledInv, Joining, Settled
<1>5. CASE driver.pc # "off"
  <2>1. lifecycle # "Running"
    BY <1>5 DEF ServiceInv, StartInv
  <2>2. /\ \A g \in Gen : manager[g] \notin Reaped => manager'[g] = manager[g]
        /\ \A g \in Gen : manager[g] \in Untouched => manager'[g] \in Untouched
        /\ taskCount' <= taskCount
    BY <2>1, UseStopped
  <2>3. gated \subseteq Gen
    BY DEF ServiceInv, RegistryInv, TypeOK
  <2>4. \A g \in gated : manager[g] \in {"live", "stopping", "stopped", "abandoned"} => manager'[g] = manager[g]
    BY <2>2, <2>3 DEF Reaped
  <2>5. OffInv' /\ OthersInv'
    BY <1>1, <1>5, <2>2 DEF ServiceInv, DriverInv, OffInv, OthersInv
  <2>6. SpawnedInv'
    BY <1>1, <2>4 DEF ServiceInv, DriverInv, SpawnedInv
  <2>7. JoiningInv'
    <3>1. taskCount = 0 => taskCount' = 0
      BY <1>2, <2>2
    <3>. QED
      BY <1>1, <2>4, <3>1 DEF ServiceInv, DriverInv, JoiningInv
  <2>8. SettledInv'
    <3>1. taskCount = 0 => taskCount' = 0
      BY <1>2, <2>2
    <3>2. driver.report.tasks \in Nat
      BY DEF ServiceInv, DriverInv, Driver, Report
    <3>3. taskCount <= driver.report.tasks => taskCount' <= driver.report.tasks
      BY <1>2, <2>2, <3>2
    <3>. QED
      BY <1>1, <2>4, <3>1, <3>3 DEF ServiceInv, DriverInv, SettledInv
  <2>9. driver' \in Driver /\ (driver'.pc # "off" => driver'.report.requested = Cardinality(gated'))
    BY <1>1 DEF ServiceInv, DriverInv
  <2>. QED
    BY <1>3, <2>5, <2>6, <2>7, <2>8, <2>9 DEF DriverInv
<1>. QED
  BY <1>3, <1>4, <1>5

LEMMA UseStep == ASSUME ServiceInv, UseNext, UNCHANGED serviceVars PROVE ServiceInv'
<1>1. RegistryInv'
  BY UseKeeps DEF ServiceInv
<1>2. TaskEffect /\ SlotEffect
  BY UseTasks, UseSlots DEF ServiceInv
<1>3. GateInv'
  <2>1. gated \subseteq Gen
    BY DEF ServiceInv, RegistryInv, TypeOK
  <2>. QED
    BY <1>2, <2>1 DEF ServiceInv, GateInv, TaskEffect, SlotEffect
<1>4. HeldInv' /\ LiveInv' /\ RetainedLeasesGated'
  <2>1. lifecycle' = lifecycle
    BY <1>2 DEF TaskEffect
  <2>2. CASE lifecycle = "Running"
    BY <1>1, <2>1, <2>2, UseHeld, UseLive DEF RetainedLeasesGated
  <2>3. CASE lifecycle # "Running"
    BY <2>1, <2>3, UseStopped DEF HeldInv, LiveInv
  <2>. QED
    BY <2>2, <2>3
<1>5. StartInv'
  BY <1>2 DEF ServiceInv, StartInv, serviceVars, TaskEffect
<1>6. ReportInv' /\ closer' \in [Closer -> CloserState]
  BY DEF ServiceInv, ReportInv, serviceVars
<1>. QED
  BY <1>1, <1>3, <1>4, <1>5, <1>6, UseDriver DEF ServiceInv

(* The caller's side of shutdown().                                        *)
RegistryHalf ==
    RegistryInv /\ GateInv /\ HeldInv /\ LiveInv /\ RetainedLeasesGated

LEMMA RegistryHalfKept ==
    ASSUME ServiceInv, UNCHANGED registryVars
    PROVE  RegistryHalf'
<1>1. RegistryInv'
  BY RegistryStepInv DEF ServiceInv
<1>2. GateInv' /\ HeldInv' /\ LiveInv' /\ RetainedLeasesGated'
  BY DEF ServiceInv, registryVars, GateInv, AllVacant, HeldInv, LiveInv, IsCurrent, RetainedLeasesGated
<1>. QED
  BY <1>1, <1>2 DEF RegistryHalf

LEMMA DriverKept ==
    ASSUME ServiceInv, UNCHANGED << registryVars, driver >>
    PROVE  DriverInv' /\ NoLostWakeup'
<1>1. UNCHANGED << gated, manager, taskCount, taskPermit, driver >>
  BY DEF registryVars
<1>. QED
  BY <1>1 DEF ServiceInv, DriverInv, OffInv, OthersInv, SpawnedInv, JoiningInv, SettledInv, NoLostWakeup

LEMMA ReportValue == ASSUME ServiceInv, report # NoReport PROVE report \in Report
  BY DEF ServiceInv, ReportInv, DriverInv, Driver

LEMMA CloserStep ==
    ASSUME ServiceInv, NEW s \in Closer, ShutdownCall(s) \/ ShutdownReturn(s) \/ ShutdownAbandoned(s)
    PROVE  ServiceInv'
<1>1. UNCHANGED << registryVars, report, driver, dropped >>
  BY DEF ShutdownCall, ShutdownReturn, ShutdownAbandoned
<1>2. RegistryHalf' /\ DriverInv' /\ NoLostWakeup'
  BY <1>1, RegistryHalfKept, DriverKept
<1>3. lifecycle' = lifecycle
  BY <1>1 DEF registryVars
<1>4. closer \in [Closer -> CloserState]
  BY DEF ServiceInv
<1>5. PICK c \in CloserState : closer' = [closer EXCEPT ![s] = c]
        /\ (c.pc = "returned" => report # NoReport /\ c.result = report)
        /\ (c.pc = "starting" => ~shutdownStarted /\ closer[s].pc = "idle")
        /\ (closer[s].pc = "idle" => shutdownStarted' = TRUE /\ ~dropped)
        /\ (closer[s].pc # "idle" => shutdownStarted' = shutdownStarted)
  <2>1. CASE ShutdownCall(s)
    <3>1. CASE report # NoReport
      <4>1. CloserAt("returned", report) \in CloserState
        BY <3>1, ReportValue DEF CloserAt, CloserState
      <4>. QED
        BY <2>1, <3>1, <4>1 DEF ShutdownCall, CloserAt
    <3>2. CASE report = NoReport /\ shutdownStarted
      <4>1. CloserAt("waiting", NoReport) \in CloserState
        BY DEF CloserAt, CloserState
      <4>. QED
        BY <2>1, <3>2, <4>1 DEF ShutdownCall, CloserAt
    <3>3. CASE report = NoReport /\ ~shutdownStarted
      <4>1. CloserAt("starting", NoReport) \in CloserState
        BY DEF CloserAt, CloserState
      <4>. QED
        BY <2>1, <3>3, <4>1 DEF ShutdownCall, CloserAt
    <3>. QED
      BY <3>1, <3>2, <3>3
  <2>2. CASE ShutdownReturn(s)
    <3>1. CloserAt("returned", report) \in CloserState
      BY <2>2, ReportValue DEF ShutdownReturn, CloserAt, CloserState
    <3>2. shutdownStarted' = shutdownStarted
      BY <2>2 DEF ShutdownReturn
    <3>. QED
      BY <2>2, <3>1, <3>2 DEF ShutdownReturn, CloserAt
  <2>3. CASE ShutdownAbandoned(s)
    <3>1. CloserAt("idle", NoReport) \in CloserState
      BY DEF CloserAt, CloserState
    <3>. QED
      BY <2>3, <3>1 DEF ShutdownAbandoned, CloserAt
  <2>. QED
    BY <2>1, <2>2, <2>3
<1>6. closer' \in [Closer -> CloserState] /\ \A r \in Closer : closer'[r] = IF r = s THEN c ELSE closer[r]
  BY <1>4, <1>5
<1>7. ReportInv'
  BY <1>1, <1>5, <1>6 DEF ServiceInv, ReportInv
<1>8. StartInv'
  <2>1. ASSUME NEW r \in Closer, closer'[r].pc = "starting"
        PROVE  /\ shutdownStarted' /\ driver'.pc = "off"
               /\ \A q \in Closer : closer'[q].pc = "starting" => q = r
    <3>1. CASE ~shutdownStarted
      <4>1. \A q \in Closer : closer[q].pc # "starting"
        BY <3>1 DEF ServiceInv, StartInv
      <4>2. r = s /\ closer[s].pc = "idle"
        BY <1>5, <1>6, <2>1, <4>1
      <4>3. \A q \in Closer : closer'[q].pc = "starting" => q = s
        BY <1>6, <4>1
      <4>4. driver.pc = "off"
        BY <3>1 DEF ServiceInv, StartInv
      <4>. QED
        BY <1>1, <1>5, <4>2, <4>3, <4>4
    <3>2. CASE shutdownStarted
      <4>1. c.pc # "starting" /\ r # s
        BY <1>5, <1>6, <2>1, <3>2
      <4>. QED
        BY <1>1, <1>5, <1>6, <2>1, <3>2, <4>1 DEF ServiceInv, StartInv
    <3>. QED
      BY <3>1, <3>2
  <2>. QED
    BY <1>1, <1>3, <1>5, <2>1 DEF ServiceInv, StartInv
<1>. QED
  BY <1>2, <1>6, <1>7, <1>8 DEF ServiceInv, RegistryHalf

(* There are finitely many generations to gate.                            *)
LEMMA GenerationsCounted ==
    \A S \in SUBSET Gen : IsFiniteSet(S) /\ Cardinality(S) \in Nat
<1>1. IsFiniteSet(Gen)
  BY BoundAssumption, FS_Interval DEF Gen
<1>. QED
  BY <1>1, FS_Subset, FS_CardinalityType

(* The drain gates exactly the live managers, and with them every manager  *)
(* a consumer holds a lease of.                                            *)
LEMMA DrainStep ==
    ASSUME ServiceInv, lifecycle = "Running", NEW l \in {"ShuttingDown", "Stopped"},
           DrainSlots(l), gated' = gated \cup ReadyGenerations
    PROVE  /\ RegistryHalf'
           /\ gated' = ReadyGenerations /\ ReadyGenerations \in SUBSET Gen
           /\ \A g \in gated' : manager'[g] = "live"
           /\ \A g \in Gen \ gated' : manager'[g] \in Untouched
           /\ UNCHANGED << taskCount, taskPermit >> /\ lifecycle' # "Running"
<1>1. RegistryInv
  BY DEF ServiceInv
<1>2. /\ lifecycle' = l /\ l # "Running" /\ l \in Lifecycle
      /\ UNCHANGED << manager, flight, taskCount, taskPermit >>
  BY DEF DrainSlots, Lifecycle
<1>3. \A g \in ReadyGenerations : g \in Gen /\ manager[g] = "live" /\ flight[g].stage \in Published
  BY <1>1 DEF ReadyGenerations, RegistryInv, SlotInv, Published
<1>4. gated' = ReadyGenerations /\ ReadyGenerations \in SUBSET Gen
  BY <1>3 DEF ServiceInv, GateInv
<1>5. /\ RegistryInv' /\ AllVacant'
      /\ \A c \in Caller : caller'[c].pc = "holding" => caller'[c] = caller[c]
  BY <1>1, <1>2, <1>4, DrainKeeps
<1>6. \A g \in Gen \ ReadyGenerations : manager[g] \in Untouched
  <2>1. \A g \in Gen : manager[g] \in {"live"} \cup Untouched
    BY DEF ServiceInv, DriverInv, OffInv, StartInv
  <2>2. \A g \in Gen : manager[g] = "live" => g \in ReadyGenerations
    BY DEF ServiceInv, LiveInv, IsCurrent, ReadyGenerations
  <2>. QED
    BY <2>1, <2>2
<1>7. GateInv'
  BY <1>2, <1>3, <1>4, <1>5 DEF GateInv
<1>8. HeldInv' /\ LiveInv'
  BY <1>2 DEF HeldInv, LiveInv
<1>9. RetainedLeasesGated'
  <2>1. \A c \in Caller : caller[c].pc = "holding" => caller[c].gen \in ReadyGenerations
    BY <1>1, LeaseNames DEF ServiceInv, HeldInv, IsCurrent, ReadyGenerations
  <2>. QED
    BY <1>4, <1>5, <2>1 DEF RetainedLeasesGated
<1>. QED
  BY <1>2, <1>3, <1>4, <1>5, <1>6, <1>7, <1>8, <1>9 DEF RegistryHalf

LEMMA GatesStep == ASSUME ServiceInv, NEW s \in Closer, ShutdownGates(s) PROVE ServiceInv'
<1>1. /\ driver.pc = "off" /\ shutdownStarted /\ ~dropped
      /\ \A r \in Closer : closer[r].pc = "starting" => r = s
  BY DEF ServiceInv, StartInv, ShutdownGates
<1>2. lifecycle = "Running"
  BY <1>1 DEF ServiceInv, StartInv
<1>3. /\ driver' = DriverAt("spawned", ReadyGenerations,
                     [EmptyReport EXCEPT !.requested = Cardinality(ReadyGenerations)])
      /\ closer' = [closer EXCEPT ![s] = CloserAt("waiting", NoReport)]
      /\ UNCHANGED << shutdownStarted, report, dropped >>
      /\ gated' = gated \cup ReadyGenerations /\ DrainSlots("ShuttingDown")
  BY <1>2 DEF ShutdownGates, BeginShutdown
<1>4. /\ RegistryHalf'
      /\ gated' = ReadyGenerations /\ ReadyGenerations \in SUBSET Gen
      /\ \A g \in gated' : manager'[g] = "live"
      /\ \A g \in Gen \ gated' : manager'[g] \in Untouched
      /\ lifecycle' # "Running"
  BY <1>2, <1>3, DrainStep
<1>5. closer' \in [Closer -> CloserState] /\ \A r \in Closer : r # s => closer'[r] = closer[r]
  <2>1. CloserAt("waiting", NoReport) \in CloserState
    BY DEF CloserAt, CloserState
  <2>. QED
    BY <1>3, <2>1 DEF ServiceInv
<1>6. closer'[s].pc = "waiting"
  BY <1>3 DEF ServiceInv, CloserAt
<1>7. /\ driver'.pc = "spawned" /\ driver'.pending = ReadyGenerations
      /\ driver'.report = [EmptyReport EXCEPT !.requested = Cardinality(ReadyGenerations)]
  BY <1>3 DEF DriverAt
<1>8. /\ driver'.report \in Report /\ driver'.report.completed = 0
      /\ driver'.report.requested = Cardinality(ReadyGenerations)
  <2>1. Cardinality(ReadyGenerations) \in Nat
    BY <1>4, GenerationsCounted
  <2>2. ASSUME NEW n \in Nat, NEW rep, rep = [EmptyReport EXCEPT !.requested = n]
        PROVE  rep \in Report /\ rep.completed = 0 /\ rep.requested = n
    <3>1. rep = [timedOut |-> FALSE, requested |-> n, completed |-> 0, remaining |-> 0, tasks |-> 0]
      BY <2>2 DEF EmptyReport
    <3>. QED
      BY <3>1 DEF Report
  <2>. QED
    BY <1>7, <2>1, <2>2
<1>9. driver' \in Driver
  <2>1. PICK rep \in Report : driver' = DriverAt("spawned", ReadyGenerations, rep)
    BY <1>3, <1>7, <1>8
  <2>. QED
    BY <1>4, <2>1 DEF DriverAt, Driver
<1>10. DriverInv' /\ NoLostWakeup'
  BY <1>4, <1>7, <1>8, <1>9
     DEF DriverInv, OffInv, OthersInv, SpawnedInv, JoiningInv, SettledInv, Joining, Settled, NoLostWakeup
<1>11. StartInv'
  BY <1>1, <1>3, <1>4, <1>5, <1>6, <1>7 DEF StartInv
<1>12. ReportInv'
  BY <1>1, <1>3, <1>5, <1>6 DEF ServiceInv, ReportInv
<1>. QED
  BY <1>4, <1>5, <1>10, <1>11, <1>12 DEF ServiceInv, RegistryHalf

LEMMA DropStep == ASSUME ServiceInv, DropService PROVE ServiceInv'
<1>1. ~shutdownStarted /\ ~dropped /\ dropped' = TRUE
  BY DEF DropService
<1>2. UNCHANGED << shutdownStarted, report, closer, driver >>
  BY DEF DropService
<1>3. driver.pc = "off" /\ lifecycle = "Running" /\ \A s \in Closer : closer[s].pc # "starting"
  BY <1>1 DEF ServiceInv, StartInv
<1>4. /\ RegistryHalf' /\ gated' \in SUBSET Gen
      /\ \A g \in gated' : manager'[g] = "live"
      /\ \A g \in Gen \ gated' : manager'[g] \in Untouched
  BY <1>3, DrainStep DEF DropService
<1>5. DriverInv' /\ NoLostWakeup'
  BY <1>2, <1>3, <1>4
     DEF ServiceInv, DriverInv, OffInv, OthersInv, SpawnedInv, JoiningInv, SettledInv, Joining, Settled, NoLostWakeup
<1>6. StartInv' /\ ReportInv' /\ closer' \in [Closer -> CloserState]
  BY <1>1, <1>2, <1>3 DEF ServiceInv, StartInv, ReportInv
<1>. QED
  BY <1>4, <1>5, <1>6 DEF ServiceInv, RegistryHalf

(* The driver.  A step of it that is not its last leaves the callers and   *)
(* the report alone.                                                       *)
LEMMA DriverFrame ==
    ASSUME ServiceInv, driver.pc \notin {"off", "done"}, driver'.pc # "off",
           UNCHANGED << shutdownStarted, report, closer, dropped >>,
           lifecycle' # "Running"
    PROVE  StartInv' /\ ReportInv' /\ closer' \in [Closer -> CloserState]
<1>1. report = NoReport
  BY DEF ServiceInv, ReportInv
<1>2. \A s \in Closer : closer[s].pc # "returned" /\ closer[s].pc # "starting"
  BY <1>1 DEF ServiceInv, ReportInv, StartInv
<1>. QED
  BY <1>1, <1>2 DEF ServiceInv, StartInv, ReportInv

LEMMA StoppedHalf ==
    ASSUME ServiceInv, driver.pc # "off", RegistryInv', lifecycle' # "Running",
           UNCHANGED << slots, caller, flight, gated >>
    PROVE  RegistryHalf'
<1>1. lifecycle # "Running"
  BY DEF ServiceInv, StartInv
<1>. QED
  BY <1>1 DEF ServiceInv, RegistryHalf, GateInv, AllVacant, HeldInv, LiveInv, RetainedLeasesGated

(* What is known once the driver runs.                                     *)
LEMMA DriverRuns ==
    ASSUME ServiceInv, driver.pc # "off"
    PROVE  /\ lifecycle # "Running" /\ AllVacant /\ RegistryInv
           /\ gated \in SUBSET Gen /\ taskCount \in Nat
           /\ driver \in Driver
           /\ driver.pending \in SUBSET Gen /\ driver.report \in Report
           /\ driver.report.requested = Cardinality(gated)
           /\ \A g \in gated : flight[g].stage \in Published
           /\ \A g \in Gen \ gated : manager[g] \in Untouched
  BY DEF ServiceInv, StartInv, GateInv, DriverInv, OthersInv, RegistryInv, TypeOK, Driver

LEMMA SpawnStep == ASSUME ServiceInv, DriverSpawns PROVE ServiceInv'
<1>1. driver.pc = "spawned" /\ driver.pc # "off"
  BY DEF DriverSpawns
<1>2. /\ driver.pending = gated /\ driver.report.completed = 0
      /\ \A g \in gated : manager[g] = "live"
  BY <1>1 DEF ServiceInv, DriverInv, SpawnedInv
<1>3. /\ ManagersUnchanged /\ UNCHANGED << shutdownStarted, report, closer, dropped >>
      /\ manager' = [g \in Gen |-> IF g \in gated THEN "stopping" ELSE manager[g]]
      /\ driver' = [driver EXCEPT !.pc = AfterJoining(gated)]
  BY <1>2 DEF DriverSpawns
<1>4. UNCHANGED << lifecycle, slots, caller, flight, gated, taskCount, taskPermit >>
  BY <1>3 DEF ManagersUnchanged
<1>5. /\ driver'.pc = (IF gated = {} THEN "counting" ELSE "joining")
      /\ driver'.pending = gated /\ driver'.report = driver.report /\ driver' \in Driver
  BY <1>1, <1>2, <1>3, DriverRuns DEF AfterJoining, Driver
<1>6. RegistryInv'
  BY <1>1, <1>3, DriverRuns, StoppingKeeps
<1>7. RegistryHalf' /\ StartInv' /\ ReportInv' /\ closer' \in [Closer -> CloserState]
  BY <1>1, <1>3, <1>4, <1>5, <1>6, DriverRuns, StoppedHalf, DriverFrame
<1>8. \A g \in Gen : manager'[g] = IF g \in gated THEN "stopping" ELSE manager[g]
  BY <1>3
<1>9. OffInv' /\ OthersInv' /\ SpawnedInv' /\ SettledInv'
  BY <1>1, <1>4, <1>5, <1>8, DriverRuns DEF OffInv, OthersInv, SpawnedInv, SettledInv, Settled
<1>10. JoiningInv'
  <2>1. driver.report.requested = driver.report.completed + Cardinality(gated)
    BY <1>1, <1>2, DriverRuns, GenerationsCounted
  <2>2. \A g \in gated : manager'[g] = "stopping"
    BY <1>1, <1>8, DriverRuns
  <2>. QED
    BY <1>4, <1>5, <2>1, <2>2 DEF JoiningInv, Joining
<1>11. driver'.report.requested = Cardinality(gated')
  BY <1>1, <1>4, <1>5, DriverRuns
<1>12. NoLostWakeup'
  BY <1>5 DEF NoLostWakeup
<1>. QED
  BY <1>5, <1>7, <1>9, <1>10, <1>11, <1>12 DEF ServiceInv, RegistryHalf, DriverInv

LEMMA StopStep == ASSUME ServiceInv, NEW g \in Gen, ManagerStops(g) PROVE ServiceInv'
<1>1. /\ manager[g] = "stopping" /\ ManagersUnchanged /\ UNCHANGED serviceVars
      /\ manager' = [h \in Gen |-> IF h \in {g} THEN "stopped" ELSE manager[h]]
  BY DEF ManagerStops, ServiceInv, RegistryInv, TypeOK
<1>2. "stopping" \notin Untouched /\ driver.pc # "off"
  BY <1>1 DEF Untouched, Reaped, ServiceInv, DriverInv, OffInv
<1>3. UNCHANGED << lifecycle, slots, caller, flight, gated, taskCount, taskPermit, driver >>
  BY <1>1 DEF ManagersUnchanged, serviceVars
<1>4. g \in gated
  BY <1>1, <1>2, DriverRuns
<1>5. driver.pc \in Joining
  BY <1>1, <1>2, <1>4, DriverRuns DEF ServiceInv, DriverInv, SpawnedInv, SettledInv, Joining, Settled, Driver
<1>6. RegistryInv'
  BY <1>1, <1>2, <1>4, DriverRuns, StoppingKeeps
<1>7. RegistryHalf'
  BY <1>2, <1>3, <1>6, DriverRuns, StoppedHalf
<1>8. StartInv' /\ ReportInv' /\ closer' \in [Closer -> CloserState]
  BY <1>1, <1>3 DEF ServiceInv, StartInv, ReportInv, serviceVars
<1>9. \A h \in Gen : manager'[h] = IF h = g THEN "stopped" ELSE manager[h]
  BY <1>1
<1>10. OffInv' /\ OthersInv' /\ SpawnedInv' /\ SettledInv'
  BY <1>2, <1>3, <1>4, <1>5, <1>9, DriverRuns
     DEF OffInv, OthersInv, SpawnedInv, SettledInv, Joining, Settled
<1>11. JoiningInv'
  <2>1. \A h \in gated : manager'[h] = "stopped" \/ (h \in driver.pending /\ manager'[h] = "stopping")
    BY <1>2, <1>5, <1>9, DriverRuns DEF ServiceInv, DriverInv, JoiningInv
  <2>. QED
    BY <1>3, <1>5, <2>1 DEF ServiceInv, DriverInv, JoiningInv
<1>12. driver' \in Driver /\ driver'.report.requested = Cardinality(gated')
  BY <1>2, <1>3, DriverRuns
<1>13. NoLostWakeup'
  BY <1>3 DEF ServiceInv, NoLostWakeup
<1>. QED
  BY <1>7, <1>8, <1>10, <1>11, <1>12, <1>13 DEF ServiceInv, RegistryHalf, DriverInv

(* The updates of a report.                                                *)
LEMMA OneMoreCompleted ==
    ASSUME NEW rep \in Report
    PROVE  LET new == [rep EXCEPT !.completed = @ + 1]
           IN  /\ new \in Report
               /\ new.completed = rep.completed + 1 /\ new.requested = rep.requested
<1>1. rep.completed + 1 \in Nat
  BY DEF Report
<1>2. ASSUME NEW n \in Nat, NEW new, new = [rep EXCEPT !.completed = n]
      PROVE  new \in Report /\ new.completed = n /\ new.requested = rep.requested
  BY <1>2 DEF Report
<1>. QED
  BY <1>1, <1>2

LEMMA OutOfTime ==
    ASSUME NEW rep \in Report
    PROVE  LET new == [rep EXCEPT !.timedOut = TRUE]
           IN  /\ new \in Report /\ new.timedOut = TRUE
               /\ new.completed = rep.completed /\ new.requested = rep.requested
<1>1. ASSUME NEW new, new = [rep EXCEPT !.timedOut = TRUE]
      PROVE  /\ new \in Report /\ new.timedOut = TRUE
             /\ new.completed = rep.completed /\ new.requested = rep.requested
  BY <1>1 DEF Report
<1>. QED
  BY <1>1

(* Steps that leave the registry as it is.                                 *)
LEMMA JoinStep == ASSUME ServiceInv, NEW g \in Gen, DriverJoins(g) PROVE ServiceInv'
<1>1. /\ driver.pc = "joining" /\ g \in driver.pending /\ manager[g] = "stopped"
      /\ driver' = [driver EXCEPT !.pc = AfterJoining(driver.pending \ {g}),
                                  !.pending = driver.pending \ {g},
                                  !.report = [driver.report EXCEPT !.completed = @ + 1]]
      /\ UNCHANGED << registryVars, shutdownStarted, report, closer, dropped >>
  BY DEF DriverJoins
<1>2. UNCHANGED << lifecycle, manager, gated, taskCount, taskPermit >>
  BY <1>1 DEF registryVars
<1>3. /\ driver'.pending = driver.pending \ {g}
      /\ driver'.pc = (IF driver.pending \ {g} = {} THEN "counting" ELSE "joining")
      /\ driver'.report.completed = driver.report.completed + 1
      /\ driver'.report.requested = driver.report.requested
      /\ driver' \in Driver
  <2>1. driver \in Driver
    BY DEF ServiceInv, DriverInv
  <2>2. PICK rep \in Report : /\ rep = [driver.report EXCEPT !.completed = @ + 1]
                              /\ rep.completed = driver.report.completed + 1
                              /\ rep.requested = driver.report.requested
    BY <2>1, OneMoreCompleted DEF Driver
  <2>. QED
    BY <1>1, <2>1, <2>2 DEF AfterJoining, Driver
<1>4. RegistryHalf'
  BY <1>1, RegistryHalfKept
<1>5. StartInv' /\ ReportInv' /\ closer' \in [Closer -> CloserState]
  BY <1>1, <1>2, <1>3, DriverRuns, DriverFrame
<1>6. OffInv' /\ OthersInv' /\ SpawnedInv' /\ SettledInv'
  BY <1>1, <1>2, <1>3, DriverRuns DEF OffInv, OthersInv, SpawnedInv, SettledInv, Settled
<1>7. JoiningInv'
  <2>1. /\ driver.pending \subseteq gated
        /\ \A h \in gated : manager[h] = "stopped" \/ (h \in driver.pending /\ manager[h] = "stopping")
        /\ driver.report.requested = driver.report.completed + Cardinality(driver.pending)
    BY <1>1 DEF ServiceInv, DriverInv, JoiningInv, Joining
  <2>2. Cardinality(driver.pending \ {g}) = Cardinality(driver.pending) - 1
    BY <1>1, DriverRuns, GenerationsCounted, FS_RemoveElement
  <2>3. driver.report.completed \in Nat /\ Cardinality(driver.pending) \in Nat
    BY <1>1, DriverRuns, GenerationsCounted DEF Report
  <2>4. driver.report.requested = (driver.report.completed + 1) + Cardinality(driver.pending \ {g})
    BY <2>1, <2>2, <2>3
  <2>. QED
    BY <1>1, <1>2, <1>3, <2>1, <2>4 DEF JoiningInv
<1>8. driver'.report.requested = Cardinality(gated')
  BY <1>1, <1>2, <1>3, DriverRuns
<1>9. NoLostWakeup'
  BY <1>3 DEF NoLostWakeup
<1>. QED
  BY <1>3, <1>4, <1>5, <1>6, <1>7, <1>8, <1>9 DEF ServiceInv, RegistryHalf, DriverInv

(* The driver parks only after it saw a task, and gives up only with what  *)
(* its report then says.                                                   *)
LEMMA CountStep == ASSUME ServiceInv, DriverCounts PROVE ServiceInv'
<1>1. /\ driver.pc = "counting"
      /\ driver' = [driver EXCEPT !.pc = IF taskCount = 0 THEN "aborting" ELSE "parked"]
      /\ UNCHANGED << registryVars, shutdownStarted, report, closer, dropped >>
  BY DEF DriverCounts
<1>2. UNCHANGED << lifecycle, manager, gated, taskCount, taskPermit >>
  BY <1>1 DEF registryVars
<1>3. /\ driver'.pc = (IF taskCount = 0 THEN "aborting" ELSE "parked")
      /\ driver'.pending = driver.pending /\ driver'.report = driver.report /\ driver' \in Driver
  BY <1>1, DriverRuns DEF Driver
<1>4. RegistryHalf' /\ StartInv' /\ ReportInv' /\ closer' \in [Closer -> CloserState]
  BY <1>1, <1>2, <1>3, RegistryHalfKept, DriverRuns, DriverFrame
<1>5. OffInv' /\ OthersInv' /\ SpawnedInv' /\ SettledInv'
  BY <1>1, <1>2, <1>3, DriverRuns DEF OffInv, OthersInv, SpawnedInv, SettledInv, Settled
<1>6. JoiningInv'
  BY <1>1, <1>2, <1>3 DEF ServiceInv, DriverInv, JoiningInv, Joining
<1>7. driver'.report.requested = Cardinality(gated')
  BY <1>1, <1>2, <1>3, DriverRuns
<1>8. NoLostWakeup'
  BY <1>2, <1>3 DEF NoLostWakeup
<1>. QED
  BY <1>3, <1>4, <1>5, <1>6, <1>7, <1>8 DEF ServiceInv, RegistryHalf, DriverInv

LEMMA NotifiedStep == ASSUME ServiceInv, DriverNotified PROVE ServiceInv'
<1>1. /\ driver.pc = "parked" /\ driver' = [driver EXCEPT !.pc = "counting"] /\ taskPermit' = FALSE
      /\ UNCHANGED << lifecycle, slots, nextGeneration, caller, flight, manager, gated, reaper,
                      reaperPermit, idleSeq, now, cancelled, taskCount >>
      /\ UNCHANGED << shutdownStarted, report, closer, dropped >>
  BY DEF DriverNotified
<1>2. /\ driver'.pc = "counting"
      /\ driver'.pending = driver.pending /\ driver'.report = driver.report /\ driver' \in Driver
  BY <1>1, DriverRuns DEF Driver
<1>3. RegistryInv'
  BY <1>1, DriverRuns, ElsewhereKeeps DEF RegistryInv, TypeOK
<1>4. RegistryHalf' /\ StartInv' /\ ReportInv' /\ closer' \in [Closer -> CloserState]
  BY <1>1, <1>2, <1>3, DriverRuns, StoppedHalf, DriverFrame
<1>5. OffInv' /\ OthersInv' /\ SpawnedInv' /\ SettledInv'
  BY <1>1, <1>2, DriverRuns DEF OffInv, OthersInv, SpawnedInv, SettledInv, Settled
<1>6. JoiningInv'
  BY <1>1, <1>2 DEF ServiceInv, DriverInv, JoiningInv, Joining
<1>7. driver'.report.requested = Cardinality(gated') /\ NoLostWakeup'
  BY <1>1, <1>2, DriverRuns DEF NoLostWakeup
<1>. QED
  BY <1>2, <1>4, <1>5, <1>6, <1>7 DEF ServiceInv, RegistryHalf, DriverInv

LEMMA TimeoutStep == ASSUME ServiceInv, DriverTimesOut PROVE ServiceInv'
<1>1. /\ driver.pc \in {"joining", "parked"}
      /\ driver' = [driver EXCEPT !.pc = "aborting",
                                  !.report = [driver.report EXCEPT !.timedOut = TRUE]]
      /\ UNCHANGED << registryVars, shutdownStarted, report, closer, dropped >>
  BY DEF DriverTimesOut
<1>2. UNCHANGED << lifecycle, manager, gated, taskCount, taskPermit >>
  BY <1>1 DEF registryVars
<1>3. /\ driver'.pc = "aborting" /\ driver'.pending = driver.pending
      /\ driver'.report.timedOut = TRUE
      /\ driver'.report.completed = driver.report.completed
      /\ driver'.report.requested = driver.report.requested
      /\ driver' \in Driver
  <2>1. driver \in Driver
    BY DEF ServiceInv, DriverInv
  <2>2. PICK rep \in Report : /\ rep = [driver.report EXCEPT !.timedOut = TRUE]
                              /\ rep.timedOut = TRUE
                              /\ rep.completed = driver.report.completed
                              /\ rep.requested = driver.report.requested
    BY <2>1, OutOfTime DEF Driver
  <2>. QED
    BY <1>1, <2>1, <2>2 DEF Driver
<1>4. RegistryHalf' /\ StartInv' /\ ReportInv' /\ closer' \in [Closer -> CloserState]
  BY <1>1, <1>2, <1>3, RegistryHalfKept, DriverRuns, DriverFrame
<1>5. OffInv' /\ OthersInv' /\ SpawnedInv' /\ SettledInv'
  BY <1>1, <1>2, <1>3, DriverRuns DEF OffInv, OthersInv, SpawnedInv, SettledInv, Settled
<1>6. JoiningInv'
  BY <1>1, <1>2, <1>3 DEF ServiceInv, DriverInv, JoiningInv, Joining
<1>7. driver'.report.requested = Cardinality(gated') /\ NoLostWakeup'
  BY <1>1, <1>2, <1>3, DriverRuns DEF NoLostWakeup
<1>. QED
  BY <1>3, <1>4, <1>5, <1>6, <1>7 DEF ServiceInv, RegistryHalf, DriverInv

(* The report once the deadline passed: n managers and m tasks are left.   *)
LeftReport(rep, n, m) == [rep EXCEPT !.remaining = n, !.tasks = m]

LEMMA LeftCounted ==
    ASSUME NEW rep \in Report, NEW n \in Nat, NEW m \in Nat
    PROVE  /\ LeftReport(rep, n, m) \in Report
           /\ LeftReport(rep, n, m).remaining = n
           /\ LeftReport(rep, n, m).tasks = m
           /\ LeftReport(rep, n, m).completed = rep.completed
           /\ LeftReport(rep, n, m).requested = rep.requested
           /\ LeftReport(rep, n, m).timedOut = rep.timedOut
<1>1. ASSUME NEW new, new = [rep EXCEPT !.remaining = n, !.tasks = m]
      PROVE  /\ new \in Report /\ new.remaining = n /\ new.tasks = m
             /\ new.completed = rep.completed /\ new.requested = rep.requested
             /\ new.timedOut = rep.timedOut
  BY <1>1 DEF Report
<1>. QED
  BY <1>1 DEF LeftReport

(* What is left of the join set is what was not completed.                 *)
LEMMA AbortStep == ASSUME ServiceInv, DriverAborts PROVE ServiceInv'
<1> DEFINE left == {g \in driver.pending : manager[g] = "stopping"}
<1>1. /\ driver.pc = "aborting"
      /\ manager' = [g \in Gen |-> IF g \in driver.pending /\ manager[g] = "stopping"
                                   THEN "abandoned" ELSE manager[g]]
      /\ driver' = [driver EXCEPT !.pc = "stopping", !.pending = {},
                                  !.report = [driver.report EXCEPT
                                      !.remaining = Cardinality(driver.pending),
                                      !.tasks = taskCount]]
      /\ ManagersUnchanged /\ UNCHANGED << shutdownStarted, report, closer, dropped >>
  BY DEF DriverAborts
<1>2. UNCHANGED << lifecycle, slots, caller, flight, gated, taskCount, taskPermit >>
  BY <1>1 DEF ManagersUnchanged
<1>3. /\ driver'.pc = "stopping" /\ driver'.pending = {}
      /\ driver'.report.remaining = Cardinality(driver.pending)
      /\ driver'.report.tasks = taskCount
      /\ driver'.report.completed = driver.report.completed
      /\ driver'.report.requested = driver.report.requested
      /\ driver'.report.timedOut = driver.report.timedOut
      /\ driver' \in Driver
  <2>1. driver \in Driver /\ driver.report \in Report
    BY <1>1, DriverRuns
  <2>2. Cardinality(driver.pending) \in Nat /\ taskCount \in Nat
    BY <1>1, DriverRuns, GenerationsCounted
  <2>3. \A n \in Nat, m \in Nat :
            /\ LeftReport(driver.report, n, m) \in Report
            /\ LeftReport(driver.report, n, m).remaining = n
            /\ LeftReport(driver.report, n, m).tasks = m
            /\ LeftReport(driver.report, n, m).completed = driver.report.completed
            /\ LeftReport(driver.report, n, m).requested = driver.report.requested
            /\ LeftReport(driver.report, n, m).timedOut = driver.report.timedOut
    BY <2>1, LeftCounted
  <2> DEFINE rep == LeftReport(driver.report, Cardinality(driver.pending), taskCount)
  <2>4. /\ rep \in Report /\ rep.remaining = Cardinality(driver.pending)
        /\ rep.tasks = taskCount /\ rep.completed = driver.report.completed
        /\ rep.requested = driver.report.requested
        /\ rep.timedOut = driver.report.timedOut
    BY <2>2, <2>3
  <2>5. driver' = [driver EXCEPT !.pc = "stopping", !.pending = {}, !.report = rep]
    BY <1>1 DEF LeftReport
  <2>. HIDE DEF rep
  <2>. QED
    BY <2>1, <2>4, <2>5 DEF Driver
<1>4. /\ driver.pending \subseteq gated
      /\ \A g \in gated : manager[g] = "stopped" \/ (g \in driver.pending /\ manager[g] = "stopping")
      /\ driver.report.requested = driver.report.completed + Cardinality(driver.pending)
      /\ ~driver.report.timedOut => driver.pending = {} /\ taskCount = 0
  BY <1>1 DEF ServiceInv, DriverInv, JoiningInv, Joining
<1>5. gated \in SUBSET Gen /\ taskCount \in Nat
  BY <1>1, DriverRuns
<1>6. RegistryInv'
  <2>1. left \in SUBSET Gen /\ \A g \in left : flight[g].stage \in Published
    BY <1>1, <1>4, DriverRuns
  <2>2. manager' = [g \in Gen |-> IF g \in left THEN "abandoned" ELSE manager[g]]
    BY <1>1
  <2>. HIDE DEF left
  <2>. QED
    BY <1>1, <2>1, <2>2, DriverRuns, StoppingKeeps
<1>7. RegistryHalf' /\ StartInv' /\ ReportInv' /\ closer' \in [Closer -> CloserState]
  BY <1>1, <1>2, <1>3, <1>6, DriverRuns, StoppedHalf, DriverFrame
<1>8. \A g \in Gen : manager'[g] = IF g \in driver.pending /\ manager[g] = "stopping"
                                   THEN "abandoned" ELSE manager[g]
  BY <1>1
<1>9. OffInv' /\ OthersInv' /\ SpawnedInv' /\ JoiningInv'
  BY <1>1, <1>2, <1>3, <1>4, <1>8, DriverRuns DEF OffInv, OthersInv, SpawnedInv, JoiningInv, Joining
<1>10. SettledInv'
  <2>1. driver'.report.requested = driver'.report.completed + driver'.report.remaining
    BY <1>3, <1>4
  <2>2. taskCount' <= driver'.report.tasks
    BY <1>2, <1>3, <1>5
  <2>3. \A g \in gated : /\ manager'[g] \in {"stopped", "abandoned"}
                         /\ driver.pending = {} => manager'[g] = "stopped"
    BY <1>4, <1>5, <1>8
  <2>. QED
    BY <1>2, <1>3, <1>4, <2>1, <2>2, <2>3 DEF SettledInv
<1>11. driver'.report.requested = Cardinality(gated') /\ NoLostWakeup'
  BY <1>1, <1>2, <1>3, DriverRuns DEF NoLostWakeup
<1>. QED
  BY <1>3, <1>7, <1>9, <1>10, <1>11 DEF ServiceInv, RegistryHalf, DriverInv

LEMMA FinishStep == ASSUME ServiceInv, DriverStops PROVE ServiceInv'
<1>1. /\ driver.pc = "stopping" /\ driver' = [driver EXCEPT !.pc = "reporting"]
      /\ lifecycle' = "Stopped"
      /\ UNCHANGED << slots, nextGeneration, caller, flight, manager, gated, reaper,
                      reaperPermit, idleSeq, now, cancelled, taskCount, taskPermit >>
      /\ UNCHANGED << shutdownStarted, report, closer, dropped >>
  BY DEF DriverStops, FinishShutdown
<1>2. /\ driver'.pc = "reporting"
      /\ driver'.pending = driver.pending /\ driver'.report = driver.report /\ driver' \in Driver
  BY <1>1, DriverRuns DEF Driver
<1>3. RegistryInv'
  <2>1. taskPermit' \in BOOLEAN
    BY <1>1, DriverRuns DEF RegistryInv, TypeOK
  <2>. QED
    BY <1>1, <2>1, DriverRuns, ElsewhereKeeps DEF Lifecycle
<1>4. RegistryHalf' /\ StartInv' /\ ReportInv' /\ closer' \in [Closer -> CloserState]
  BY <1>1, <1>2, <1>3, DriverRuns, StoppedHalf, DriverFrame
<1>5. OffInv' /\ OthersInv' /\ SpawnedInv' /\ JoiningInv'
  BY <1>1, <1>2, DriverRuns DEF OffInv, OthersInv, SpawnedInv, JoiningInv, Joining
<1>6. SettledInv'
  BY <1>1, <1>2 DEF ServiceInv, DriverInv, SettledInv, Settled
<1>7. driver'.report.requested = Cardinality(gated') /\ NoLostWakeup'
  BY <1>1, <1>2, DriverRuns DEF NoLostWakeup
<1>. QED
  BY <1>2, <1>4, <1>5, <1>6, <1>7 DEF ServiceInv, RegistryHalf, DriverInv

LEMMA ReportStep == ASSUME ServiceInv, DriverReports PROVE ServiceInv'
<1>1. /\ driver.pc = "reporting" /\ driver' = [driver EXCEPT !.pc = "done"]
      /\ report' = driver.report
      /\ UNCHANGED << registryVars, shutdownStarted, closer, dropped >>
  BY DEF DriverReports
<1>2. UNCHANGED << lifecycle, manager, gated, taskCount, taskPermit >>
  BY <1>1 DEF registryVars
<1>3. /\ driver'.pc = "done"
      /\ driver'.pending = driver.pending /\ driver'.report = driver.report /\ driver' \in Driver
  BY <1>1, DriverRuns DEF Driver
<1>4. RegistryHalf'
  BY <1>1, RegistryHalfKept
<1>5. \A s \in Closer : closer[s].pc # "returned" /\ closer[s].pc # "starting"
  BY <1>1 DEF ServiceInv, ReportInv, StartInv
<1>6. ReportInv' /\ closer' \in [Closer -> CloserState]
  BY <1>1, <1>3, <1>5 DEF ServiceInv, ReportInv
<1>7. StartInv'
  BY <1>1, <1>2, <1>3, <1>5 DEF ServiceInv, StartInv
<1>8. OffInv' /\ OthersInv' /\ SpawnedInv' /\ JoiningInv'
  BY <1>1, <1>2, <1>3, DriverRuns DEF OffInv, OthersInv, SpawnedInv, JoiningInv, Joining
<1>9. SettledInv'
  BY <1>1, <1>2, <1>3 DEF ServiceInv, DriverInv, SettledInv, Settled
<1>10. driver'.report.requested = Cardinality(gated') /\ NoLostWakeup'
  BY <1>1, <1>2, <1>3, DriverRuns DEF NoLostWakeup
<1>. QED
  BY <1>3, <1>4, <1>6, <1>7, <1>8, <1>9, <1>10 DEF ServiceInv, RegistryHalf, DriverInv

-----------------------------------------------------------------------------
(* The invariant of the service.                                           *)
LEMMA ServiceStarts == ServiceInit => ServiceInv
<1>. SUFFICES ASSUME ServiceInit PROVE ServiceInv
  OBVIOUS
<1>1. RegistryInv
  BY RegistryStarts DEF ServiceInit
<1>2. /\ lifecycle = "Running" /\ gated = {} /\ taskCount = 0
      /\ \A c \in Caller : caller[c].pc = "idle"
      /\ \A g \in Gen : manager[g] = "none"
  BY DEF ServiceInit, RegistryInit, IdleCaller
<1>3. /\ driver.pc = "off" /\ driver.pending = {} /\ driver.report = EmptyReport
      /\ ~shutdownStarted /\ report = NoReport /\ ~dropped
      /\ \A s \in Closer : closer[s].pc = "idle"
  BY DEF ServiceInit, DriverAt, CloserAt
<1>4. closer \in [Closer -> CloserState]
  BY DEF ServiceInit, CloserAt, CloserState
<1>5. driver \in Driver
  <2>1. EmptyReport \in Report
    BY DEF EmptyReport, Report
  <2>. QED
    BY <2>1 DEF ServiceInit, DriverAt, Driver
<1>6. GateInv /\ HeldInv /\ LiveInv /\ RetainedLeasesGated
  BY <1>2 DEF GateInv, HeldInv, LiveInv, RetainedLeasesGated
<1>7. StartInv /\ ReportInv /\ NoLostWakeup
  BY <1>2, <1>3 DEF StartInv, ReportInv, NoLostWakeup
<1>8. DriverInv
  BY <1>2, <1>3, <1>5
     DEF DriverInv, OffInv, OthersInv, SpawnedInv, JoiningInv, SettledInv, Joining, Settled, Untouched
<1>. QED
  BY <1>1, <1>4, <1>6, <1>7, <1>8 DEF ServiceInv

LEMMA ServiceStep == ServiceInv /\ [ServiceNext]_vars => ServiceInv'
<1>. SUFFICES ASSUME ServiceInv, [ServiceNext]_vars PROVE ServiceInv'
  OBVIOUS
<1>1. CASE UseNext /\ UNCHANGED serviceVars
  BY <1>1, UseStep
<1>2. ASSUME NEW s \in Closer,
             \/ ShutdownCall(s) \/ ShutdownGates(s) \/ ShutdownReturn(s) \/ ShutdownAbandoned(s)
      PROVE  ServiceInv'
  BY <1>2, CloserStep, GatesStep
<1>3. CASE DriverStep
  BY <1>3, SpawnStep, CountStep, NotifiedStep, TimeoutStep, AbortStep, FinishStep, ReportStep, JoinStep
     DEF DriverStep
<1>4. ASSUME NEW g \in Gen, ManagerStops(g) PROVE ServiceInv'
  BY <1>4, StopStep
<1>5. CASE DropService
  BY <1>5, DropStep
<1>6. CASE UNCHANGED vars
  <2>1. UNCHANGED registryVars /\ UNCHANGED << shutdownStarted, report, closer, driver, dropped >>
    BY <1>6 DEF vars, serviceVars
  <2>2. RegistryHalf' /\ DriverInv' /\ NoLostWakeup'
    BY <2>1, RegistryHalfKept, DriverKept
  <2>3. StartInv' /\ ReportInv' /\ closer' \in [Closer -> CloserState]
    BY <2>1 DEF ServiceInv, StartInv, ReportInv, registryVars
  <2>. QED
    BY <2>2, <2>3 DEF ServiceInv, RegistryHalf
<1>. QED
  BY <1>1, <1>2, <1>3, <1>4, <1>5, <1>6 DEF ServiceNext

(* The registry's guarantees survive its composition with shutdown, and    *)
(* each stage of the driver finds what it relies on.                       *)
THEOREM ServiceInvariant == ServiceSpec => []ServiceInv
  BY ServiceStarts, ServiceStep, PTL DEF ServiceSpec

(* Once admission is closed, whoever still holds a lease, gets a clone or  *)
(* raced the shutdown holds it of a manager whose gate is closed           *)
(* (begin_shutdown, session_registry.rs).                                  *)
THEOREM LeasesGated == ServiceSpec => []RetainedLeasesGated
<1>1. ServiceInv => RetainedLeasesGated
  BY DEF ServiceInv
<1>. QED
  BY <1>1, ServiceInvariant, PTL

(* wait_for_tasks never sleeps through the end of the last task.           *)
THEOREM WakeupKept == ServiceSpec => []NoLostWakeup
<1>1. ServiceInv => NoLostWakeup
  BY DEF ServiceInv
<1>. QED
  BY <1>1, ServiceInvariant, PTL

(* The report accounts for every gated manager, and one that is not late   *)
(* means that all of them stopped and no task of the registry is left.     *)
THEOREM ReportIsTrue == ServiceSpec => []ReportTruthful
<1>1. ServiceInv => ReportTruthful
  <2>. SUFFICES ASSUME ServiceInv PROVE ReportTruthful
    OBVIOUS
  <2>1. \A s \in Closer : closer[s].pc = "returned" => report # NoReport /\ closer[s].result = report
    BY DEF ServiceInv, ReportInv
  <2>2. ASSUME report # NoReport
        PROVE  /\ report.requested = Cardinality(gated)
               /\ report.requested = report.completed + report.remaining
               /\ taskCount <= report.tasks
               /\ \A g \in Gen : manager[g] \notin {"live", "stopping"}
               /\ ~report.timedOut =>
                     /\ \A g \in gated : manager[g] = "stopped"
                     /\ LiveFlights = {} /\ ~ReaperLives
    <3>1. driver.pc = "done" /\ report = driver.report
      BY <2>2 DEF ServiceInv, ReportInv
    <3>2. /\ report.requested = report.completed + report.remaining
          /\ taskCount <= report.tasks
          /\ \A g \in gated : manager[g] \in {"stopped", "abandoned"}
          /\ ~report.timedOut => taskCount = 0 /\ \A g \in gated : manager[g] = "stopped"
      BY <3>1 DEF ServiceInv, DriverInv, SettledInv, Settled
    <3>3. report.requested = Cardinality(gated) /\ \A g \in Gen \ gated : manager[g] \in Untouched
      BY <3>1, DriverRuns
    <3>4. taskCount = 0 => LiveFlights = {} /\ ~ReaperLives
      <4>1. taskCount = Cardinality(LiveFlights) + (IF ReaperLives THEN 1 ELSE 0)
        BY DEF ServiceInv, RegistryInv, TaskCountExact
      <4>2. ASSUME taskCount = 0 PROVE Cardinality(LiveFlights) = 0 /\ ~ReaperLives
        BY <4>1, <4>2, LiveFlightsCounted
      <4>. QED
        BY <4>2, LiveFlightsCounted, FS_EmptySet
    <3>. QED
      BY <3>2, <3>3, <3>4 DEF Untouched, Reaped
  <2>. QED
    BY <2>1, <2>2 DEF ReportTruthful
<1>. QED
  BY <1>1, ServiceInvariant, PTL
=============================================================================
