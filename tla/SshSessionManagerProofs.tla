------------------------ MODULE SshSessionManagerProofs ------------------------
(***************************************************************************)
(* Theorems about one shared SSH connection, for every set of consumers    *)
(* and every bound on flights and configs.                                 *)
(*                                                                         *)
(* The inductive invariant comes in layers: FlightInv ties the owner of a  *)
(* flight, state.connecting and the cache together; ConfigInv and StopInv, *)
(* proved on top of it, follow replace_config and shutdown() through the   *)
(* suspended futures.                                                      *)
(***************************************************************************)
EXTENDS SshSessionManager, TLAPS

FreshInv == \A f \in FlightId : flight[f].status = "none" <=> f > lastFlight

(* A future that owns a flight owns the running one state.connecting       *)
(* names; there is no other owner, and nothing is cached meanwhile.        *)
OwnerInv ==
    \A t \in Owners : /\ task[t].flight \in FlightId
                      /\ connecting = task[t].flight
                      /\ flight[task[t].flight].status = "running"
                      /\ client = None
                      /\ \A u \in Owners : u = t

(* Every future past the top of client()'s loop refers to a flight that    *)
(* exists; a waiter about to clear its flight saw it abandoned.            *)
TaskInv ==
    \A t \in Task :
        /\ task[t].pc \in {"inspecting", "checkout", "evicting", "waiting", "clearing",
                           "closing", "holding"} =>
               /\ task[t].flight \in FlightId
               /\ flight[task[t].flight].status # "none"
        /\ task[t].pc = "clearing" => flight[task[t].flight].status = "abandoned"

CacheInv ==
    /\ client # None => flight[client].status = "completed"
    /\ connecting # None => flight[connecting].status # "none"
    /\ ShellOfCached

FlightInv == FreshInv /\ OwnerInv /\ TaskInv /\ CacheInv

(* From the moment a consumer has replaced the config and disconnected,    *)
(* whatever is cached was dialled with that config or a newer one.         *)
ConfigInv ==
    \A t \in Task :
        /\ task[t].config <= configGen
        /\ task[t].pc \notin {"replaced"} /\ client # None =>
               flight[client].config >= task[t].config
        /\ task[t].pc = "holding" => flight[task[t].flight].config >= task[t].config

(* What each stage of shutdown() may rely on: the gate is closed, only the *)
(* flight it found may still be under way, and a transport it has dealt    *)
(* with is not open.                                                       *)
StopInv ==
    /\ stopper.pc # "idle" => gate
    /\ connecting # None => /\ flight[connecting].status \in {"running", "abandoned"}
                            /\ flight[connecting].status = "abandoned" =>
                                   transport[connecting] # "open"
    /\ \A t \in Owners : task[t].pc \in {"connecting", "refused"} =>
                             transport[task[t].flight] = "none"
    /\ \A f \in FlightId : f > lastFlight => transport[f] = "none"
    /\ stopper.pc \in {"closing", "awaiting", "done"} =>
           /\ client = None
           /\ connecting \in {None, stopper.flight}
           /\ stopper.flight # None /\ flight[stopper.flight].status # "running" =>
                  transport[stopper.flight] # "open"
           /\ stopper.flight # None => flight[stopper.flight].status # "none"
           /\ stopper.client # None => flight[stopper.client].status = "completed"
    /\ stopper.pc \in {"awaiting", "done"} /\ stopper.client # None =>
           transport[stopper.client] # "open"
    /\ stopper.pc = "closing" => stopper.client # None
    /\ stopper.pc = "awaiting" => stopper.flight # None
    /\ stopper.pc = "done" =>
           /\ stopper.flight # None => flight[stopper.flight].status # "running"
           /\ connecting = None

-----------------------------------------------------------------------------
(* What the updates several actions share do to the state.                 *)

LEMMA MovesEffect ==
    ASSUME NEW t \in Task, NEW pc \in TaskPc, NEW f \in MaybeFlight,
           task \in [Task -> TaskState], Moves(t, pc, f)
    PROVE  /\ task' \in [Task -> TaskState]
           /\ task'[t].pc = pc /\ task'[t].flight = f /\ task'[t].config = task[t].config
           /\ \A u \in Task \ {t} : task'[u] = task[u]
  BY DEF Moves, TaskState

LEMMA ReturnsEffect ==
    ASSUME NEW t \in Task, task \in [Task -> TaskState], Returns(t)
    PROVE  /\ task' \in [Task -> TaskState]
           /\ task'[t] = Idle
           /\ \A u \in Task \ {t} : task'[u] = task[u]
<1>1. Idle \in TaskState
  BY FlightAssumption DEF Idle, TaskState, TaskPc, MaybeFlight, None
<1>2. QED BY <1>1 DEF Returns

LEMMA StatusEffect ==
    ASSUME NEW f \in FlightId, NEW st \in {"none", "running", "completed", "abandoned"},
           flight \in [FlightId -> FlightState],
           flight' = [flight EXCEPT ![f].status = st]
    PROVE  /\ flight' \in [FlightId -> FlightState]
           /\ flight'[f].status = st /\ flight'[f].config = flight[f].config
           /\ \A g \in FlightId \ {f} : flight'[g] = flight[g]
  BY DEF FlightState

LEMMA DisconnectedEffect ==
    ASSUME NEW f \in FlightId, Disconnected(f),
           transport \in [FlightId -> {"none", "open", "closed", "lost"}]
    PROVE  /\ \A g \in FlightId \ {f} : transport'[g] = transport[g]
           /\ transport[f] = "open" => transport'[f] = "closed"
           /\ transport[f] # "open" => transport'[f] = transport[f]
  BY DEF Disconnected

LEMMA LostEffect ==
    ASSUME NEW f \in FlightId, Lost(f),
           transport \in [FlightId -> {"none", "open", "closed", "lost"}]
    PROVE  /\ \A g \in FlightId \ {f} : transport'[g] = transport[g]
           /\ transport[f] = "open" => transport'[f] = "lost"
           /\ transport[f] # "open" => transport'[f] = transport[f]
  BY DEF Lost

LEMMA LostType ==
    ASSUME NEW f, Lost(f),
           transport \in [FlightId -> {"none", "open", "closed", "lost"}]
    PROVE  transport' \in [FlightId -> {"none", "open", "closed", "lost"}]
  BY DEF Lost

LEMMA InitTypeOK == Init => ManagerTypeOK
<1>. SUFFICES ASSUME Init PROVE ManagerTypeOK  OBVIOUS
<1>. USE FlightAssumption DEF MaybeFlight, None
<1>1. Idle \in TaskState BY DEF Idle, TaskState, TaskPc
<1>2. task \in [Task -> TaskState] BY <1>1 DEF Init
<1>3. [status |-> "none", config |-> 0] \in FlightState BY DEF FlightState
<1>4. flight \in [FlightId -> FlightState] BY <1>3 DEF Init
<1>5. stopper \in StopperState BY DEF Init, StopperState
<1>6. transport \in [FlightId -> {"none", "open", "closed", "lost"}]  BY DEF Init
<1>7. /\ configGen \in 0 .. MaxConfig /\ lastFlight \in 0 .. MaxFlight
      /\ client = 0 /\ shell = 0 /\ connecting = 0 /\ gate = FALSE
  BY DEF Init
<1>8. QED BY <1>2, <1>4, <1>5, <1>6, <1>7 DEF ManagerTypeOK

LEMMA CompletesType ==
    ASSUME NEW f, flight \in [FlightId -> FlightState], Completes(f)
    PROVE  flight' \in [FlightId -> FlightState]
  BY DEF Completes, FlightState

LEMMA NextTypeOK == ManagerTypeOK /\ [Next]_vars => ManagerTypeOK'
<1>. SUFFICES ASSUME ManagerTypeOK, [Next]_vars PROVE ManagerTypeOK'  OBVIOUS
<1>. USE FlightAssumption DEF MaybeFlight, None, FlightId
<1>1. ASSUME NEW t \in Task, EnterRefused(t) PROVE ManagerTypeOK'
  BY <1>1 DEF EnterRefused, Enters, Returns, Idle, ManagerTypeOK,
     FlightState, TaskState, TaskPc, StopperState
<1>2. ASSUME NEW t \in Task, EnterInspect(t) PROVE ManagerTypeOK'
  BY <1>2 DEF EnterInspect, Enters, Moves, ManagerTypeOK,
     FlightState, TaskState, TaskPc, StopperState
<1>3. ASSUME NEW t \in Task, EnterWait(t) PROVE ManagerTypeOK'
  BY <1>3 DEF EnterWait, Enters, Moves, ManagerTypeOK,
     FlightState, TaskState, TaskPc, StopperState
<1>4. ASSUME NEW t \in Task, EnterConnect(t) PROVE ManagerTypeOK'
  BY <1>4 DEF EnterConnect, NumbersFlight, Enters, Moves, ManagerTypeOK,
     FlightState, TaskState, TaskPc, StopperState
<1>5. ASSUME NEW t \in Task, Probe(t) PROVE ManagerTypeOK'
  BY <1>5 DEF Probe, Moves, ManagerTypeOK,
     FlightState, TaskState, TaskPc, StopperState
<1>6. ASSUME NEW t \in Task, Checkout(t) PROVE ManagerTypeOK'
  BY <1>6 DEF Checkout, CanCheckout, Moves, ManagerTypeOK,
     FlightState, TaskState, TaskPc, StopperState
<1>7. ASSUME NEW t \in Task, EvictProbed(t) PROVE ManagerTypeOK'
  BY <1>7 DEF EvictProbed, Moves, Evict, CacheEmptied, ManagerTypeOK,
     FlightState, TaskState, TaskPc, StopperState
<1>8. ASSUME NEW t \in Task, Waited(t) PROVE ManagerTypeOK'
  <2>1. task' \in [Task -> TaskState]
    BY <1>8, MovesEffect, ReturnsEffect DEF Waited, ManagerTypeOK, TaskState, TaskPc
  <2>2. QED BY <1>8, <2>1 DEF Waited, ManagerTypeOK
<1>9. ASSUME NEW t \in Task, ClearAbandoned(t) PROVE ManagerTypeOK'
  BY <1>9 DEF ClearAbandoned, Moves, ClearConnectionFlight, ManagerTypeOK,
     FlightState, TaskState, TaskPc, StopperState
<1>10. ASSUME NEW t \in Task, ConnectorReturns(t) PROVE ManagerTypeOK'
  <2>1. task' \in [Task -> TaskState]
    BY <1>10, MovesEffect DEF ConnectorReturns, ManagerTypeOK, TaskState, TaskPc
  <2>2. transport' \in [FlightId -> {"none", "open", "closed", "lost"}]
    BY <1>10 DEF ConnectorReturns, ManagerTypeOK
  <2>3. QED BY <1>10, <2>1, <2>2 DEF ConnectorReturns, ManagerTypeOK
<1>11. ASSUME NEW t \in Task, ConnectCancelled(t) PROVE ManagerTypeOK'
  <2>1. task' \in [Task -> TaskState]
    BY <1>11, ReturnsEffect DEF ConnectCancelled, ManagerTypeOK
  <2>2. flight' \in [FlightId -> FlightState]
    BY <1>11, CompletesType DEF ConnectCancelled, ManagerTypeOK
  <2>3. QED BY <1>11, <2>1, <2>2 DEF ConnectCancelled, ClearConnectionFlight, ManagerTypeOK
<1>12. ASSUME NEW t \in Task, SettleGated(t) PROVE ManagerTypeOK'
  BY <1>12 DEF SettleGated, Settles, CacheEmptied, Moves, ManagerTypeOK,
     FlightState, TaskState, TaskPc, StopperState
<1>13. ASSUME NEW t \in Task, SettleStale(t) PROVE ManagerTypeOK'
  BY <1>13 DEF SettleStale, Settles, IsCurrentConfig, Moves, ManagerTypeOK,
     FlightState, TaskState, TaskPc, StopperState
<1>14. ASSUME NEW t \in Task, Publish(t) PROVE ManagerTypeOK'
  <2>1. task[t].flight \in MaybeFlight
    BY DEF ManagerTypeOK, TaskState
  <2>2. task' \in [Task -> TaskState]
    BY <1>14, <2>1, MovesEffect DEF Publish, ManagerTypeOK, TaskPc
  <2>3. flight' \in [FlightId -> FlightState]
    BY <1>14, CompletesType DEF Publish, ManagerTypeOK
  <2>4. QED BY <1>14, <2>1, <2>2, <2>3 DEF Publish, ManagerTypeOK
<1>15. ASSUME NEW t \in Task, ReportRefusal(t) PROVE ManagerTypeOK'
  <2>1. task' \in [Task -> TaskState]
    BY <1>15, ReturnsEffect DEF ReportRefusal, ManagerTypeOK
  <2>2. flight' \in [FlightId -> FlightState]
    BY <1>15, CompletesType DEF ReportRefusal, ManagerTypeOK
  <2>3. QED BY <1>15, <2>1, <2>2 DEF ReportRefusal, ManagerTypeOK
<1>16. ASSUME NEW t \in Task, DiscardDisconnects(t) PROVE ManagerTypeOK'
  BY <1>16 DEF DiscardDisconnects, Disconnected, ManagerTypeOK,
     FlightState, TaskState, TaskPc, StopperState
<1>17. ASSUME NEW t \in Task, DiscardEnds(t) PROVE ManagerTypeOK'
  <2>1. task' \in [Task -> TaskState]
    BY <1>17, MovesEffect, ReturnsEffect DEF DiscardEnds, ManagerTypeOK, TaskPc
  <2>2. flight' \in [FlightId -> FlightState]
    BY <1>17, CompletesType DEF DiscardEnds, ManagerTypeOK
  <2>3. QED BY <1>17, <2>1, <2>2 DEF DiscardEnds, ClearConnectionFlight, ManagerTypeOK
<1>18. ASSUME NEW t \in Task, ReplaceConfig(t) PROVE ManagerTypeOK'
  BY <1>18 DEF ReplaceConfig, ManagerTypeOK,
     FlightState, TaskState, TaskPc, StopperState
<1>19. ASSUME NEW t \in Task, Disconnect(t) PROVE ManagerTypeOK'
  <2>1. task' \in [Task -> TaskState]
    BY <1>19, MovesEffect DEF Disconnect, ManagerTypeOK, TaskPc
  <2>2. QED BY <1>19, <2>1 DEF Disconnect, CacheEmptied, ManagerTypeOK
<1>20. ASSUME NEW t \in Task, DisconnectEnds(t) PROVE ManagerTypeOK'
  <2>1. task' \in [Task -> TaskState]
    BY <1>20, MovesEffect, ReturnsEffect DEF DisconnectEnds, ManagerTypeOK, TaskPc
  <2>2. transport' \in [FlightId -> {"none", "open", "closed", "lost"}]
    BY <1>20 DEF DisconnectEnds, Disconnected, ManagerTypeOK
  <2>3. QED BY <1>20, <2>1, <2>2 DEF DisconnectEnds, ManagerTypeOK
<1>21. ASSUME NEW t \in Task, Invalidate(t) PROVE ManagerTypeOK'
  BY <1>21 DEF Invalidate, CacheEmptied, ManagerTypeOK,
     FlightState, TaskState, TaskPc, StopperState
<1>22. ASSUME NEW t \in Task, InvalidateClient(t) PROVE ManagerTypeOK'
  BY <1>22 DEF InvalidateClient, Evict, CacheEmptied, Returns, Idle, ManagerTypeOK,
     FlightState, TaskState, TaskPc, StopperState
<1>23. ASSUME NEW t \in Task, SetShellIntegration(t) PROVE ManagerTypeOK'
  BY <1>23 DEF SetShellIntegration, ManagerTypeOK,
     FlightState, TaskState, TaskPc, StopperState
<1>24. ASSUME NEW t \in Task, TaskDropped(t) PROVE ManagerTypeOK'
  <2>1. task' \in [Task -> TaskState]
    BY <1>24, ReturnsEffect DEF TaskDropped, ManagerTypeOK
  <2>2. flight' \in [FlightId -> FlightState]
    <3>1. DropsGuard(t)  BY <1>24 DEF TaskDropped
    <3>2. QED BY <3>1 DEF DropsGuard, ManagerTypeOK, FlightState
  <2>3. transport' \in [FlightId -> {"none", "open", "closed", "lost"}]
    <3>1. CASE Lost(task[t].flight)  BY <3>1, LostType DEF ManagerTypeOK
    <3>2. CASE UNCHANGED transport  BY <3>2 DEF ManagerTypeOK
    <3>3. QED BY <1>24, <3>1, <3>2 DEF TaskDropped
  <2>4. QED BY <1>24, <2>1, <2>2, <2>3 DEF TaskDropped, ManagerTypeOK
<1>25. ASSUME RequestShutdown PROVE ManagerTypeOK'
  BY <1>25 DEF RequestShutdown, ManagerTypeOK,
     FlightState, TaskState, TaskPc, StopperState
<1>26. ASSUME ShutdownTakes PROVE ManagerTypeOK'
  BY <1>26 DEF ShutdownTakes, CacheEmptied, AfterClosing, ManagerTypeOK,
     FlightState, TaskState, TaskPc, StopperState
<1>27. ASSUME ShutdownDisconnects PROVE ManagerTypeOK'
  BY <1>27 DEF ShutdownDisconnects, Disconnected, AfterClosing, ManagerTypeOK,
     FlightState, TaskState, TaskPc, StopperState
<1>28. ASSUME ShutdownAwaits PROVE ManagerTypeOK'
  BY <1>28 DEF ShutdownAwaits, FlightOver, ClearConnectionFlight, ManagerTypeOK,
     FlightState, TaskState, TaskPc, StopperState
<1>29. ASSUME ShutdownAborted PROVE ManagerTypeOK'
  <2>1. stopper' \in StopperState
    BY <1>29 DEF ShutdownAborted, ManagerTypeOK, StopperState
  <2>2. transport' \in [FlightId -> {"none", "open", "closed", "lost"}]
    BY <1>29 DEF ShutdownAborted, Lost, ManagerTypeOK
  <2>3. QED
    BY <1>29, <2>1, <2>2 DEF ShutdownAborted, ManagerTypeOK, FlightState
<1>30. ASSUME UNCHANGED vars PROVE ManagerTypeOK'
  BY <1>30 DEF vars, ManagerTypeOK
<1>31. QED
  BY <1>1, <1>2, <1>3, <1>4, <1>5, <1>6, <1>7, <1>8, <1>9, <1>10, <1>11, <1>12, <1>13,
      <1>14,
     <1>15, <1>16, <1>17, <1>18, <1>19, <1>20, <1>21, <1>22, <1>23, <1>24, <1>25, <1>26,
         <1>27,
     <1>28, <1>29, <1>30
  DEF Next, TaskStep, ConsumerCall, ShutdownStep

-----------------------------------------------------------------------------
(* Each layer is preserved by every step.                                  *)

LEMMA NextFlightInv ==
    ManagerTypeOK /\ ManagerTypeOK' /\ FlightInv /\ [Next]_vars => FlightInv'
<1>. SUFFICES ASSUME ManagerTypeOK, ManagerTypeOK', FlightInv, [Next]_vars PROVE FlightInv'
  OBVIOUS
<1>. USE FlightAssumption DEF MaybeFlight, None, FlightId
<1>1. ASSUME NEW t \in Task, EnterRefused(t) PROVE FlightInv'
  BY <1>1 DEF EnterRefused, Enters, Returns, Idle, FlightInv,
     ManagerTypeOK, FlightState, TaskState, TaskPc, OwnerInv, FreshInv,
        TaskInv, CacheInv, ShellOfCached, Owners, OwnerPc
<1>2. ASSUME NEW t \in Task, EnterInspect(t) PROVE FlightInv'
  BY <1>2 DEF EnterInspect, Enters, Moves, FlightInv,
     ManagerTypeOK, FlightState, TaskState, TaskPc, OwnerInv, FreshInv,
        TaskInv, CacheInv, ShellOfCached, Owners, OwnerPc
<1>3. ASSUME NEW t \in Task, EnterWait(t) PROVE FlightInv'
  BY <1>3 DEF EnterWait, Enters, Moves, FlightInv,
     ManagerTypeOK, FlightState, TaskState, TaskPc, OwnerInv, FreshInv,
        TaskInv, CacheInv, ShellOfCached, Owners, OwnerPc
<1>4. ASSUME NEW t \in Task, EnterConnect(t) PROVE FlightInv'
  BY <1>4 DEF EnterConnect, NumbersFlight, Enters, Moves, FlightInv,
     ManagerTypeOK, FlightState, TaskState, TaskPc, OwnerInv, FreshInv,
        TaskInv, CacheInv, ShellOfCached, Owners, OwnerPc
<1>5. ASSUME NEW t \in Task, Probe(t) PROVE FlightInv'
  BY <1>5 DEF Probe, Moves, FlightInv,
     ManagerTypeOK, FlightState, TaskState, TaskPc, OwnerInv, FreshInv,
        TaskInv, CacheInv, ShellOfCached, Owners, OwnerPc
<1>6. ASSUME NEW t \in Task, Checkout(t) PROVE FlightInv'
  BY <1>6 DEF Checkout, CanCheckout, Moves, FlightInv,
     ManagerTypeOK, FlightState, TaskState, TaskPc, OwnerInv, FreshInv,
        TaskInv, CacheInv, ShellOfCached, Owners, OwnerPc
<1>7. ASSUME NEW t \in Task, EvictProbed(t) PROVE FlightInv'
  BY <1>7 DEF EvictProbed, Moves, Evict, CacheEmptied, FlightInv,
     ManagerTypeOK, FlightState, TaskState, TaskPc, OwnerInv, FreshInv,
        TaskInv, CacheInv, ShellOfCached, Owners, OwnerPc
<1>8. ASSUME NEW t \in Task, Waited(t) PROVE FlightInv'
  <2>1. /\ UNCHANGED << client, shell, connecting, lastFlight, flight >>
        /\ task'[t].pc \in {"idle", "entering", "clearing"}
        /\ task'[t].pc = "clearing" => /\ task'[t].flight = task[t].flight
                                       /\ flight[task[t].flight].status = "abandoned"
        /\ \A u \in Task \ {t} : task'[u] = task[u]
    BY <1>8, MovesEffect, ReturnsEffect DEF Waited, ManagerTypeOK, TaskState, TaskPc, Idle
  <2>2. QED BY <1>8, <2>1 DEF Waited, FlightInv, OwnerInv, FreshInv, TaskInv, CacheInv,
      ShellOfCached, Owners, OwnerPc
<1>9. ASSUME NEW t \in Task, ClearAbandoned(t) PROVE FlightInv'
  BY <1>9 DEF ClearAbandoned, Moves, ClearConnectionFlight, FlightInv,
     ManagerTypeOK, FlightState, TaskState, TaskPc, OwnerInv, FreshInv,
        TaskInv, CacheInv, ShellOfCached, Owners, OwnerPc
<1>10. ASSUME NEW t \in Task, ConnectorReturns(t) PROVE FlightInv'
  <2>1. CASE Moves(t, "connected", task[t].flight)
    BY <1>10, <2>1 DEF ConnectorReturns, Moves,
        FlightInv, ManagerTypeOK, FlightState, TaskState, TaskPc, OwnerInv, FreshInv,
        TaskInv, CacheInv, ShellOfCached, Owners, OwnerPc
  <2>2. CASE Moves(t, "refused", task[t].flight)
    BY <1>10, <2>2 DEF ConnectorReturns, Moves,
        FlightInv, ManagerTypeOK, FlightState, TaskState, TaskPc, OwnerInv, FreshInv,
        TaskInv, CacheInv, ShellOfCached, Owners, OwnerPc
  <2>3. QED BY <1>10, <2>1, <2>2 DEF ConnectorReturns
<1>11. ASSUME NEW t \in Task, ConnectCancelled(t) PROVE FlightInv'
  BY <1>11 DEF ConnectCancelled, ClearConnectionFlight, Completes, Returns, Idle, FlightInv,
     ManagerTypeOK, FlightState, TaskState, TaskPc, OwnerInv, FreshInv,
        TaskInv, CacheInv, ShellOfCached, Owners, OwnerPc
<1>12. ASSUME NEW t \in Task, SettleGated(t) PROVE FlightInv'
  BY <1>12 DEF SettleGated, Settles, CacheEmptied, Moves, FlightInv,
     ManagerTypeOK, FlightState, TaskState, TaskPc, OwnerInv, FreshInv,
        TaskInv, CacheInv, ShellOfCached, Owners, OwnerPc
<1>13. ASSUME NEW t \in Task, SettleStale(t) PROVE FlightInv'
  BY <1>13 DEF SettleStale, Settles, IsCurrentConfig, Moves, FlightInv,
     ManagerTypeOK, FlightState, TaskState, TaskPc, OwnerInv, FreshInv,
        TaskInv, CacheInv, ShellOfCached, Owners, OwnerPc
<1>14. ASSUME NEW t \in Task, Publish(t) PROVE FlightInv'
  BY <1>14 DEF Publish, Completes, Moves, IsCurrentConfig, FlightInv,
     ManagerTypeOK, FlightState, TaskState, TaskPc, OwnerInv, FreshInv,
        TaskInv, CacheInv, ShellOfCached, Owners, OwnerPc
<1>15. ASSUME NEW t \in Task, ReportRefusal(t) PROVE FlightInv'
  BY <1>15 DEF ReportRefusal, Completes, Returns, Idle, IsCurrentConfig, FlightInv,
     ManagerTypeOK, FlightState, TaskState, TaskPc, OwnerInv, FreshInv,
        TaskInv, CacheInv, ShellOfCached, Owners, OwnerPc
<1>16. ASSUME NEW t \in Task, DiscardDisconnects(t) PROVE FlightInv'
  BY <1>16 DEF DiscardDisconnects, Disconnected, FlightInv,
     ManagerTypeOK, FlightState, TaskState, TaskPc, OwnerInv, FreshInv,
        TaskInv, CacheInv, ShellOfCached, Owners, OwnerPc
<1>17. ASSUME NEW t \in Task, DiscardEnds(t) PROVE FlightInv'
  <2>. DEFINE f == task[t].flight
  <2>1. /\ f \in FlightId /\ connecting = f /\ client = None /\ Owners = {t}
    BY <1>17 DEF DiscardEnds, FlightInv, OwnerInv, FreshInv, TaskInv, CacheInv,
        ShellOfCached, Owners, OwnerPc
  <2>2. /\ UNCHANGED << client, shell, lastFlight >>
        /\ connecting' = None
        /\ task'[t].pc \in {"idle", "entering"}
        /\ \A u \in Task \ {t} : task'[u] = task[u]
    BY <1>17, <2>1, MovesEffect, ReturnsEffect
    DEF DiscardEnds, ClearConnectionFlight, ManagerTypeOK, TaskPc, Idle
  <2>3. /\ flight'[f].status = "completed"
        /\ \A g \in FlightId \ {f} : flight'[g] = flight[g]
    BY <1>17, <2>1, StatusEffect DEF DiscardEnds, Completes, ManagerTypeOK
  <2>4. Owners' = {} BY <2>1, <2>2 DEF Owners, OwnerPc
  <2>5. flight[f].status = "running" BY <2>1 DEF FlightInv, OwnerInv
  <2>6. QED BY <2>1, <2>2, <2>3, <2>4, <2>5
      DEF FlightInv, OwnerInv, FreshInv, TaskInv, CacheInv, ShellOfCached
<1>18. ASSUME NEW t \in Task, ReplaceConfig(t) PROVE FlightInv'
  BY <1>18 DEF ReplaceConfig, FlightInv,
     ManagerTypeOK, FlightState, TaskState, TaskPc, OwnerInv, FreshInv,
        TaskInv, CacheInv, ShellOfCached, Owners, OwnerPc
<1>19. ASSUME NEW t \in Task, Disconnect(t) PROVE FlightInv'
  <2>1. /\ UNCHANGED << connecting, lastFlight, flight >>
        /\ client' = None /\ shell' = None
        /\ task'[t].pc \in {"idle", "entering", "closing"}
        /\ task'[t].pc = "closing" => /\ task'[t].flight = client
                                      /\ client \in FlightId /\ client # None
        /\ \A u \in Task \ {t} : task'[u] = task[u]
    BY <1>19, MovesEffect DEF Disconnect, CacheEmptied, ManagerTypeOK, TaskPc
  <2>2. OwnerInv' BY <2>1 DEF FlightInv, OwnerInv, Owners, OwnerPc
  <2>3. TaskInv' BY <2>1 DEF FlightInv, TaskInv, CacheInv
  <2>4. QED BY <2>1, <2>2, <2>3 DEF FlightInv, FreshInv, CacheInv, ShellOfCached
<1>20. ASSUME NEW t \in Task, DisconnectEnds(t) PROVE FlightInv'
  <2>1. /\ UNCHANGED << client, shell, connecting, lastFlight, flight >>
        /\ task'[t].pc \in {"idle", "entering"}
        /\ \A u \in Task \ {t} : task'[u] = task[u]
    BY <1>20, MovesEffect, ReturnsEffect DEF DisconnectEnds, ManagerTypeOK, TaskPc, Idle
  <2>2. QED BY <1>20, <2>1 DEF FlightInv, OwnerInv, FreshInv, TaskInv, CacheInv,
      ShellOfCached, Owners, OwnerPc
<1>21. ASSUME NEW t \in Task, Invalidate(t) PROVE FlightInv'
  BY <1>21 DEF Invalidate, CacheEmptied, FlightInv,
     ManagerTypeOK, FlightState, TaskState, TaskPc, OwnerInv, FreshInv,
        TaskInv, CacheInv, ShellOfCached, Owners, OwnerPc
<1>22. ASSUME NEW t \in Task, InvalidateClient(t) PROVE FlightInv'
  BY <1>22 DEF InvalidateClient, Evict, CacheEmptied, Returns, Idle, FlightInv,
     ManagerTypeOK, FlightState, TaskState, TaskPc, OwnerInv, FreshInv,
        TaskInv, CacheInv, ShellOfCached, Owners, OwnerPc
<1>23. ASSUME NEW t \in Task, SetShellIntegration(t) PROVE FlightInv'
  BY <1>23 DEF SetShellIntegration, FlightInv,
     ManagerTypeOK, FlightState, TaskState, TaskPc, OwnerInv, FreshInv,
        TaskInv, CacheInv, ShellOfCached, Owners, OwnerPc
<1>24. ASSUME NEW t \in Task, TaskDropped(t) PROVE FlightInv'
  BY SMTT(60), <1>24 DEF TaskDropped, DropsGuard, Lost, Returns, Idle, FlightInv,
     ManagerTypeOK, FlightState, TaskState, TaskPc, OwnerInv, FreshInv,
        TaskInv, CacheInv, ShellOfCached, Owners, OwnerPc
<1>25. ASSUME RequestShutdown PROVE FlightInv'
  BY <1>25 DEF RequestShutdown, FlightInv,
     ManagerTypeOK, FlightState, TaskState, TaskPc, OwnerInv, FreshInv,
        TaskInv, CacheInv, ShellOfCached, Owners, OwnerPc
<1>26. ASSUME ShutdownTakes PROVE FlightInv'
  BY <1>26 DEF ShutdownTakes, CacheEmptied, AfterClosing, FlightInv,
     ManagerTypeOK, FlightState, TaskState, TaskPc, OwnerInv, FreshInv,
        TaskInv, CacheInv, ShellOfCached, Owners, OwnerPc
<1>27. ASSUME ShutdownDisconnects PROVE FlightInv'
  BY <1>27 DEF ShutdownDisconnects, Disconnected, AfterClosing, FlightInv,
     ManagerTypeOK, FlightState, TaskState, TaskPc, OwnerInv, FreshInv,
        TaskInv, CacheInv, ShellOfCached, Owners, OwnerPc
<1>28. ASSUME ShutdownAwaits PROVE FlightInv'
  BY <1>28 DEF ShutdownAwaits, FlightOver, ClearConnectionFlight, FlightInv,
     ManagerTypeOK, FlightState, TaskState, TaskPc, OwnerInv, FreshInv,
        TaskInv, CacheInv, ShellOfCached, Owners, OwnerPc
<1>29. ASSUME ShutdownAborted PROVE FlightInv'
  BY <1>29 DEF ShutdownAborted, Lost, FlightInv,
     ManagerTypeOK, FlightState, TaskState, TaskPc, OwnerInv, FreshInv,
        TaskInv, CacheInv, ShellOfCached, Owners, OwnerPc
<1>30. ASSUME UNCHANGED vars PROVE FlightInv'
  BY <1>30 DEF vars, FlightInv, ManagerTypeOK, FlightState, TaskState, TaskPc, OwnerInv,
      FreshInv,
        TaskInv, CacheInv, ShellOfCached, Owners, OwnerPc
<1>31. QED
  BY <1>1, <1>2, <1>3, <1>4, <1>5, <1>6, <1>7, <1>8, <1>9, <1>10, <1>11, <1>12, <1>13,
      <1>14,
     <1>15, <1>16, <1>17, <1>18, <1>19, <1>20, <1>21, <1>22, <1>23, <1>24, <1>25, <1>26,
         <1>27,
     <1>28, <1>29, <1>30
  DEF Next, TaskStep, ConsumerCall, ShutdownStep

LEMMA ConfigTypes ==
    ManagerTypeOK => /\ configGen \in Nat
                     /\ \A t \in Task : task[t].config \in Nat
                     /\ \A f \in FlightId : flight[f].config \in Nat
                     /\ client # None => client \in FlightId
  BY FlightAssumption DEF ManagerTypeOK, TaskState, FlightState, MaybeFlight


LEMMA NextConfigInv ==
    ManagerTypeOK /\ ManagerTypeOK' /\ FlightInv /\ ConfigInv /\ [Next]_vars => ConfigInv'
<1>. SUFFICES ASSUME ManagerTypeOK, ManagerTypeOK', FlightInv, ConfigInv, [Next]_vars
    PROVE ConfigInv'
  OBVIOUS
<1>. USE FlightAssumption DEF MaybeFlight, None, FlightId
<1>1. ASSUME NEW t \in Task, EnterRefused(t) PROVE ConfigInv'
  BY <1>1 DEF EnterRefused, Enters, Returns, Idle,
     ManagerTypeOK, FlightState, TaskState, TaskPc, FlightInv,
     FreshInv, OwnerInv, CacheInv, ShellOfCached, Owners, OwnerPc, ConfigInv
<1>2. ASSUME NEW t \in Task, EnterInspect(t) PROVE ConfigInv'
  BY <1>2 DEF EnterInspect, Enters, Moves,
     ManagerTypeOK, FlightState, TaskState, TaskPc, FlightInv,
     FreshInv, OwnerInv, CacheInv, ShellOfCached, Owners, OwnerPc, ConfigInv
<1>3. ASSUME NEW t \in Task, EnterWait(t) PROVE ConfigInv'
  BY <1>3 DEF EnterWait, Enters, Moves,
     ManagerTypeOK, FlightState, TaskState, TaskPc, FlightInv,
     FreshInv, OwnerInv, CacheInv, ShellOfCached, Owners, OwnerPc, ConfigInv
<1>4. ASSUME NEW t \in Task, EnterConnect(t) PROVE ConfigInv'
  BY <1>4 DEF EnterConnect, NumbersFlight, Enters, Moves,
     ManagerTypeOK, FlightState, TaskState, TaskPc, FlightInv,
     FreshInv, OwnerInv, CacheInv, ShellOfCached, Owners, OwnerPc, ConfigInv
<1>5. ASSUME NEW t \in Task, Probe(t) PROVE ConfigInv'
  BY <1>5 DEF Probe, Moves,
     ManagerTypeOK, FlightState, TaskState, TaskPc, FlightInv,
     FreshInv, OwnerInv, CacheInv, ShellOfCached, Owners, OwnerPc, ConfigInv
<1>6. ASSUME NEW t \in Task, Checkout(t) PROVE ConfigInv'
  <2>1. /\ UNCHANGED << configGen, client, flight >>
        /\ task'[t].pc \in {"holding", "entering"}
        /\ task'[t].pc = "holding" => /\ task'[t].flight = client
                                      /\ client # None
        /\ task'[t].config \in {0, task[t].config}
        /\ \A u \in Task \ {t} : task'[u] = task[u]
    BY <1>6, MovesEffect DEF Checkout, CanCheckout, ManagerTypeOK, TaskState, TaskPc, FlightInv, TaskInv
  <2>2. task[t].pc = "checkout" BY <1>6 DEF Checkout, CanCheckout
  <2>3. QED BY ConfigTypes, <1>6, <2>1, <2>2 DEF ConfigInv
<1>7. ASSUME NEW t \in Task, EvictProbed(t) PROVE ConfigInv'
  BY <1>7 DEF EvictProbed, Moves, Evict, CacheEmptied,
     ManagerTypeOK, FlightState, TaskState, TaskPc, FlightInv,
     FreshInv, OwnerInv, CacheInv, ShellOfCached, Owners, OwnerPc, ConfigInv
<1>8. ASSUME NEW t \in Task, Waited(t) PROVE ConfigInv'
  <2>1. /\ UNCHANGED << configGen, client, flight >>
        /\ task'[t].pc \notin {"holding", "replaced"}
        /\ task'[t].config \in {0, task[t].config}
        /\ \A u \in Task \ {t} : task'[u] = task[u]
    BY <1>8, MovesEffect, ReturnsEffect DEF Waited, ManagerTypeOK, TaskState, TaskPc, Idle
  <2>2. task[t].pc = "waiting" BY <1>8 DEF Waited
  <2>3. QED BY ConfigTypes, <2>1, <2>2 DEF ConfigInv
<1>9. ASSUME NEW t \in Task, ClearAbandoned(t) PROVE ConfigInv'
  BY <1>9 DEF ClearAbandoned, Moves, ClearConnectionFlight,
     ManagerTypeOK, FlightState, TaskState, TaskPc, FlightInv,
     FreshInv, OwnerInv, CacheInv, ShellOfCached, Owners, OwnerPc, ConfigInv
<1>10. ASSUME NEW t \in Task, ConnectorReturns(t) PROVE ConfigInv'
  BY SMTT(30), <1>10 DEF ConnectorReturns, Moves,
     ManagerTypeOK, FlightState, TaskState, TaskPc, FlightInv,
     FreshInv, OwnerInv, CacheInv, ShellOfCached, Owners, OwnerPc, ConfigInv
<1>11. ASSUME NEW t \in Task, ConnectCancelled(t) PROVE ConfigInv'
  BY <1>11 DEF ConnectCancelled, ClearConnectionFlight, Completes, Returns, Idle,
     ManagerTypeOK, FlightState, TaskState, TaskPc, FlightInv,
     FreshInv, OwnerInv, CacheInv, ShellOfCached, Owners, OwnerPc, ConfigInv
<1>12. ASSUME NEW t \in Task, SettleGated(t) PROVE ConfigInv'
  BY <1>12 DEF SettleGated, Settles, CacheEmptied, Moves,
     ManagerTypeOK, FlightState, TaskState, TaskPc, FlightInv,
     FreshInv, OwnerInv, CacheInv, ShellOfCached, Owners, OwnerPc, ConfigInv
<1>13. ASSUME NEW t \in Task, SettleStale(t) PROVE ConfigInv'
  BY <1>13 DEF SettleStale, Settles, IsCurrentConfig, Moves,
     ManagerTypeOK, FlightState, TaskState, TaskPc, FlightInv,
     FreshInv, OwnerInv, CacheInv, ShellOfCached, Owners, OwnerPc, ConfigInv
<1>14. ASSUME NEW t \in Task, Publish(t) PROVE ConfigInv'
  BY <1>14 DEF Publish, Completes, Moves, IsCurrentConfig,
     ManagerTypeOK, FlightState, TaskState, TaskPc, FlightInv,
     FreshInv, OwnerInv, CacheInv, ShellOfCached, Owners, OwnerPc, ConfigInv
<1>15. ASSUME NEW t \in Task, ReportRefusal(t) PROVE ConfigInv'
  BY <1>15 DEF ReportRefusal, Completes, Returns, Idle, IsCurrentConfig,
     ManagerTypeOK, FlightState, TaskState, TaskPc, FlightInv,
     FreshInv, OwnerInv, CacheInv, ShellOfCached, Owners, OwnerPc, ConfigInv
<1>16. ASSUME NEW t \in Task, DiscardDisconnects(t) PROVE ConfigInv'
  BY <1>16 DEF DiscardDisconnects, Disconnected,
     ManagerTypeOK, FlightState, TaskState, TaskPc, FlightInv,
     FreshInv, OwnerInv, CacheInv, ShellOfCached, Owners, OwnerPc, ConfigInv
<1>17. ASSUME NEW t \in Task, DiscardEnds(t) PROVE ConfigInv'
  <2>1. /\ UNCHANGED << configGen, client >>
        /\ task'[t].pc \notin {"holding", "replaced"}
        /\ task'[t].config \in {0, task[t].config}
        /\ \A u \in Task \ {t} : task'[u] = task[u]
    BY <1>17, MovesEffect, ReturnsEffect
        DEF DiscardEnds, ManagerTypeOK, TaskState, TaskPc, Idle
  <2>2. \A g \in FlightId : flight'[g].config = flight[g].config
    BY <1>17 DEF DiscardEnds, Completes, ManagerTypeOK, FlightState
  <2>3. task[t].pc # "replaced" BY <1>17 DEF DiscardEnds
  <2>4. \A u \in Task : task[u].pc = "holding" => task[u].flight \in FlightId
    BY DEF FlightInv, TaskInv
  <2>5. QED BY ConfigTypes, <2>1, <2>2, <2>3, <2>4 DEF ConfigInv
<1>18. ASSUME NEW t \in Task, ReplaceConfig(t) PROVE ConfigInv'
  BY <1>18 DEF ReplaceConfig,
     ManagerTypeOK, FlightState, TaskState, TaskPc, FlightInv,
     FreshInv, OwnerInv, CacheInv, ShellOfCached, Owners, OwnerPc, ConfigInv
<1>19. ASSUME NEW t \in Task, Disconnect(t) PROVE ConfigInv'
  <2>1. /\ UNCHANGED << configGen, flight >>
        /\ client' = None
        /\ task'[t].pc # "holding"
        /\ task'[t].config \in {0, task[t].config}
        /\ \A u \in Task \ {t} : task'[u] = task[u]
    BY <1>19, MovesEffect DEF Disconnect, CacheEmptied, ManagerTypeOK, TaskState, TaskPc
  <2>2. QED BY ConfigTypes, <2>1 DEF ConfigInv
<1>20. ASSUME NEW t \in Task, DisconnectEnds(t) PROVE ConfigInv'
  <2>1. /\ UNCHANGED << configGen, client, flight >>
        /\ task'[t].pc \notin {"holding", "replaced"}
        /\ task'[t].config \in {0, task[t].config}
        /\ \A u \in Task \ {t} : task'[u] = task[u]
    BY <1>20, MovesEffect, ReturnsEffect
    DEF DisconnectEnds, ManagerTypeOK, TaskState, TaskPc, Idle
  <2>2. task[t].pc # "replaced" BY <1>20 DEF DisconnectEnds
  <2>3. QED BY ConfigTypes, <2>1, <2>2 DEF ConfigInv
<1>21. ASSUME NEW t \in Task, Invalidate(t) PROVE ConfigInv'
  BY <1>21 DEF Invalidate, CacheEmptied,
     ManagerTypeOK, FlightState, TaskState, TaskPc, FlightInv,
     FreshInv, OwnerInv, CacheInv, ShellOfCached, Owners, OwnerPc, ConfigInv
<1>22. ASSUME NEW t \in Task, InvalidateClient(t) PROVE ConfigInv'
  BY <1>22 DEF InvalidateClient, Evict, CacheEmptied, Returns, Idle,
     ManagerTypeOK, FlightState, TaskState, TaskPc, FlightInv,
     FreshInv, OwnerInv, CacheInv, ShellOfCached, Owners, OwnerPc, ConfigInv
<1>23. ASSUME NEW t \in Task, SetShellIntegration(t) PROVE ConfigInv'
  BY <1>23 DEF SetShellIntegration,
     ManagerTypeOK, FlightState, TaskState, TaskPc, FlightInv,
     FreshInv, OwnerInv, CacheInv, ShellOfCached, Owners, OwnerPc, ConfigInv
<1>24. ASSUME NEW t \in Task, TaskDropped(t) PROVE ConfigInv'
  BY SMTT(30), <1>24 DEF TaskDropped, DropsGuard, Lost, Returns, Idle,
     ManagerTypeOK, FlightState, TaskState, TaskPc, FlightInv,
     FreshInv, OwnerInv, CacheInv, ShellOfCached, Owners, OwnerPc, ConfigInv
<1>25. ASSUME RequestShutdown PROVE ConfigInv'
  BY <1>25 DEF RequestShutdown,
     ManagerTypeOK, FlightState, TaskState, TaskPc, FlightInv,
     FreshInv, OwnerInv, CacheInv, ShellOfCached, Owners, OwnerPc, ConfigInv
<1>26. ASSUME ShutdownTakes PROVE ConfigInv'
  BY <1>26 DEF ShutdownTakes, CacheEmptied, AfterClosing,
     ManagerTypeOK, FlightState, TaskState, TaskPc, FlightInv,
     FreshInv, OwnerInv, CacheInv, ShellOfCached, Owners, OwnerPc, ConfigInv
<1>27. ASSUME ShutdownDisconnects PROVE ConfigInv'
  BY <1>27 DEF ShutdownDisconnects, Disconnected, AfterClosing,
     ManagerTypeOK, FlightState, TaskState, TaskPc, FlightInv,
     FreshInv, OwnerInv, CacheInv, ShellOfCached, Owners, OwnerPc, ConfigInv
<1>28. ASSUME ShutdownAwaits PROVE ConfigInv'
  BY <1>28 DEF ShutdownAwaits, FlightOver, ClearConnectionFlight,
     ManagerTypeOK, FlightState, TaskState, TaskPc, FlightInv,
     FreshInv, OwnerInv, CacheInv, ShellOfCached, Owners, OwnerPc, ConfigInv
<1>29. ASSUME ShutdownAborted PROVE ConfigInv'
  BY <1>29 DEF ShutdownAborted, Lost,
     ManagerTypeOK, FlightState, TaskState, TaskPc, FlightInv,
     FreshInv, OwnerInv, CacheInv, ShellOfCached, Owners, OwnerPc, ConfigInv
<1>30. ASSUME UNCHANGED vars PROVE ConfigInv'
  BY <1>30 DEF vars, ManagerTypeOK, FlightState, TaskState, TaskPc, FlightInv,
     FreshInv, OwnerInv, CacheInv, ShellOfCached, Owners, OwnerPc, ConfigInv
<1>31. QED
  BY <1>1, <1>2, <1>3, <1>4, <1>5, <1>6, <1>7, <1>8, <1>9, <1>10, <1>11, <1>12, <1>13,
      <1>14,
     <1>15, <1>16, <1>17, <1>18, <1>19, <1>20, <1>21, <1>22, <1>23, <1>24, <1>25, <1>26,
         <1>27,
     <1>28, <1>29, <1>30
  DEF Next, TaskStep, ConsumerCall, ShutdownStep

LEMMA NextStopInv ==
    ManagerTypeOK /\ ManagerTypeOK' /\ FlightInv /\ FlightInv' /\ StopInv /\ [Next]_vars =>
        StopInv'
<1>. SUFFICES ASSUME ManagerTypeOK, ManagerTypeOK', FlightInv, FlightInv', StopInv,
    [Next]_vars PROVE StopInv'
  OBVIOUS
<1>. USE FlightAssumption DEF MaybeFlight, None, FlightId
<1>1. ASSUME NEW t \in Task, EnterRefused(t) PROVE StopInv'
  BY <1>1 DEF EnterRefused, Enters, Returns, Idle,
     ManagerTypeOK, FlightState, TaskState, TaskPc, StopperState, FlightInv,
     FreshInv, OwnerInv, CacheInv, ShellOfCached, Owners, OwnerPc, StopInv
<1>2. ASSUME NEW t \in Task, EnterInspect(t) PROVE StopInv'
  BY <1>2 DEF EnterInspect, Enters, Moves,
     ManagerTypeOK, FlightState, TaskState, TaskPc, StopperState, FlightInv,
     FreshInv, OwnerInv, CacheInv, ShellOfCached, Owners, OwnerPc, StopInv
<1>3. ASSUME NEW t \in Task, EnterWait(t) PROVE StopInv'
  BY <1>3 DEF EnterWait, Enters, Moves,
     ManagerTypeOK, FlightState, TaskState, TaskPc, StopperState, FlightInv,
     FreshInv, OwnerInv, CacheInv, ShellOfCached, Owners, OwnerPc, StopInv
<1>4. ASSUME NEW t \in Task, EnterConnect(t) PROVE StopInv'
  BY <1>4 DEF EnterConnect, NumbersFlight, Enters, Moves,
     ManagerTypeOK, FlightState, TaskState, TaskPc, StopperState, FlightInv,
     FreshInv, OwnerInv, CacheInv, ShellOfCached, Owners, OwnerPc, StopInv
<1>5. ASSUME NEW t \in Task, Probe(t) PROVE StopInv'
  BY <1>5 DEF Probe, Moves,
     ManagerTypeOK, FlightState, TaskState, TaskPc, StopperState, FlightInv,
     FreshInv, OwnerInv, CacheInv, ShellOfCached, Owners, OwnerPc, StopInv
<1>6. ASSUME NEW t \in Task, Checkout(t) PROVE StopInv'
  BY <1>6 DEF Checkout, CanCheckout, Moves,
     ManagerTypeOK, FlightState, TaskState, TaskPc, StopperState, FlightInv,
     FreshInv, OwnerInv, CacheInv, ShellOfCached, Owners, OwnerPc, StopInv
<1>7. ASSUME NEW t \in Task, EvictProbed(t) PROVE StopInv'
  BY <1>7 DEF EvictProbed, Moves, Evict, CacheEmptied,
     ManagerTypeOK, FlightState, TaskState, TaskPc, StopperState, FlightInv,
     FreshInv, OwnerInv, CacheInv, ShellOfCached, Owners, OwnerPc, StopInv
<1>8. ASSUME NEW t \in Task, Waited(t) PROVE StopInv'
  <2>1. /\ UNCHANGED << client, connecting, lastFlight, flight, transport, gate, stopper >>
        /\ task'[t].pc \in {"idle", "entering", "clearing"}
        /\ \A u \in Task \ {t} : task'[u] = task[u]
    BY <1>8, MovesEffect, ReturnsEffect DEF Waited, ManagerTypeOK, TaskState, TaskPc, Idle
  <2>2. QED BY <2>1 DEF StopInv, Owners, OwnerPc
<1>9. ASSUME NEW t \in Task, ClearAbandoned(t) PROVE StopInv'
  BY <1>9 DEF ClearAbandoned, Moves, ClearConnectionFlight,
     ManagerTypeOK, FlightState, TaskState, TaskPc, StopperState, FlightInv,
     FreshInv, OwnerInv, CacheInv, ShellOfCached, Owners, OwnerPc, StopInv
<1>10. ASSUME NEW t \in Task, ConnectorReturns(t) PROVE StopInv'
  BY <1>10 DEF ConnectorReturns, Moves,
     ManagerTypeOK, FlightState, TaskState, TaskPc, StopperState, FlightInv,
     FreshInv, OwnerInv, CacheInv, ShellOfCached, Owners, OwnerPc, StopInv
<1>11. ASSUME NEW t \in Task, ConnectCancelled(t) PROVE StopInv'
  BY <1>11 DEF ConnectCancelled, ClearConnectionFlight, Completes, Returns, Idle,
     ManagerTypeOK, FlightState, TaskState, TaskPc, StopperState, FlightInv,
     FreshInv, OwnerInv, CacheInv, ShellOfCached, Owners, OwnerPc, StopInv
<1>12. ASSUME NEW t \in Task, SettleGated(t) PROVE StopInv'
  BY <1>12 DEF SettleGated, Settles, CacheEmptied, Moves,
     ManagerTypeOK, FlightState, TaskState, TaskPc, StopperState, FlightInv,
     FreshInv, OwnerInv, CacheInv, ShellOfCached, Owners, OwnerPc, StopInv
<1>13. ASSUME NEW t \in Task, SettleStale(t) PROVE StopInv'
  BY <1>13 DEF SettleStale, Settles, IsCurrentConfig, Moves,
     ManagerTypeOK, FlightState, TaskState, TaskPc, StopperState, FlightInv,
     FreshInv, OwnerInv, CacheInv, ShellOfCached, Owners, OwnerPc, StopInv
<1>14. ASSUME NEW t \in Task, Publish(t) PROVE StopInv'
  BY <1>14 DEF Publish, Completes, Moves, IsCurrentConfig,
     ManagerTypeOK, FlightState, TaskState, TaskPc, StopperState, FlightInv,
     FreshInv, OwnerInv, CacheInv, ShellOfCached, Owners, OwnerPc, StopInv
<1>15. ASSUME NEW t \in Task, ReportRefusal(t) PROVE StopInv'
  BY <1>15 DEF ReportRefusal, Completes, Returns, Idle, IsCurrentConfig,
     ManagerTypeOK, FlightState, TaskState, TaskPc, StopperState, FlightInv,
     FreshInv, OwnerInv, CacheInv, ShellOfCached, Owners, OwnerPc, StopInv
<1>16. ASSUME NEW t \in Task, DiscardDisconnects(t) PROVE StopInv'
  BY <1>16 DEF DiscardDisconnects, Disconnected,
     ManagerTypeOK, FlightState, TaskState, TaskPc, StopperState, FlightInv,
     FreshInv, OwnerInv, CacheInv, ShellOfCached, Owners, OwnerPc, StopInv
<1>17. ASSUME NEW t \in Task, DiscardEnds(t) PROVE StopInv'
  <2>. DEFINE f == task[t].flight
  <2>1. /\ f \in FlightId /\ connecting = f /\ client = None /\ Owners = {t}
        /\ transport[f] # "open" /\ flight[f].status = "running"
    BY <1>17 DEF DiscardEnds, FlightInv, OwnerInv, Owners, OwnerPc
  <2>2. /\ UNCHANGED << client, lastFlight, transport, gate, stopper >>
        /\ connecting' = None
        /\ task'[t].pc \in {"idle", "entering"}
        /\ \A u \in Task \ {t} : task'[u] = task[u]
    BY <1>17, <2>1, MovesEffect, ReturnsEffect
    DEF DiscardEnds, ClearConnectionFlight, ManagerTypeOK, TaskPc, Idle
  <2>3. /\ flight'[f].status = "completed"
        /\ \A g \in FlightId \ {f} : flight'[g] = flight[g]
    BY <1>17, <2>1, StatusEffect DEF DiscardEnds, Completes, ManagerTypeOK
  <2>4. Owners' = {} BY <2>1, <2>2 DEF Owners, OwnerPc
  <2>5. stopper.client \in MaybeFlight /\ stopper.flight \in MaybeFlight
    BY DEF ManagerTypeOK, StopperState
  <2>6. QED BY <2>1, <2>2, <2>3, <2>4, <2>5 DEF StopInv
<1>18. ASSUME NEW t \in Task, ReplaceConfig(t) PROVE StopInv'
  BY <1>18 DEF ReplaceConfig,
     ManagerTypeOK, FlightState, TaskState, TaskPc, StopperState, FlightInv,
     FreshInv, OwnerInv, CacheInv, ShellOfCached, Owners, OwnerPc, StopInv
<1>19. ASSUME NEW t \in Task, Disconnect(t) PROVE StopInv'
  <2>1. /\ UNCHANGED << connecting, lastFlight, flight, transport, gate, stopper >>
        /\ client' = None
        /\ task'[t].pc \in {"idle", "entering", "closing"}
        /\ \A u \in Task \ {t} : task'[u] = task[u]
    BY <1>19, MovesEffect DEF Disconnect, CacheEmptied, ManagerTypeOK, TaskPc
  <2>2. QED BY <2>1 DEF StopInv, Owners, OwnerPc
<1>20. ASSUME NEW t \in Task, DisconnectEnds(t) PROVE StopInv'
  <2>1. /\ UNCHANGED << client, connecting, lastFlight, flight, gate, stopper >>
        /\ task'[t].pc \in {"idle", "entering"}
        /\ \A u \in Task \ {t} : task'[u] = task[u]
    BY <1>20, MovesEffect, ReturnsEffect DEF DisconnectEnds, ManagerTypeOK, TaskPc, Idle
  <2>2. \A f \in FlightId : transport'[f] = transport[f]
                             \/ (transport[f] = "open" /\ transport'[f] = "closed")
    <3>1. /\ task[t].flight \in FlightId
          /\ Disconnected(task[t].flight)
          /\ transport \in [FlightId -> {"none", "open", "closed", "lost"}]
      BY <1>20 DEF DisconnectEnds, FlightInv, TaskInv, ManagerTypeOK
    <3>2. QED BY <3>1, DisconnectedEffect
  <2>3. /\ stopper.client \in MaybeFlight /\ stopper.flight \in MaybeFlight
        /\ connecting \in MaybeFlight
        /\ \A u \in Owners : task[u].flight \in FlightId
    BY DEF ManagerTypeOK, StopperState, FlightInv, OwnerInv
  <2>4. Owners' = Owners \ {t} /\ \A u \in Owners' : task'[u] = task[u]
    BY <1>20, <2>1 DEF Owners, OwnerPc
  <2>5. QED BY <2>1, <2>2, <2>3, <2>4 DEF StopInv
<1>21. ASSUME NEW t \in Task, Invalidate(t) PROVE StopInv'
  BY <1>21 DEF Invalidate, CacheEmptied,
     ManagerTypeOK, FlightState, TaskState, TaskPc, StopperState, FlightInv,
     FreshInv, OwnerInv, CacheInv, ShellOfCached, Owners, OwnerPc, StopInv
<1>22. ASSUME NEW t \in Task, InvalidateClient(t) PROVE StopInv'
  BY <1>22 DEF InvalidateClient, Evict, CacheEmptied, Returns, Idle,
     ManagerTypeOK, FlightState, TaskState, TaskPc, StopperState, FlightInv,
     FreshInv, OwnerInv, CacheInv, ShellOfCached, Owners, OwnerPc, StopInv
<1>23. ASSUME NEW t \in Task, SetShellIntegration(t) PROVE StopInv'
  BY <1>23 DEF SetShellIntegration,
     ManagerTypeOK, FlightState, TaskState, TaskPc, StopperState, FlightInv,
     FreshInv, OwnerInv, CacheInv, ShellOfCached, Owners, OwnerPc, StopInv
<1>24. ASSUME NEW t \in Task, TaskDropped(t) PROVE StopInv'
  <2>. DEFINE f == task[t].flight
  <2>1. /\ UNCHANGED << client, connecting, lastFlight, gate, stopper >>
        /\ task'[t].pc = "idle"
        /\ \A u \in Task \ {t} : task'[u] = task[u]
    BY <1>24, ReturnsEffect DEF TaskDropped, DropsGuard, Lost, ManagerTypeOK, Idle
  <2>2. /\ stopper.client \in MaybeFlight /\ stopper.flight \in MaybeFlight
        /\ connecting \in MaybeFlight
        /\ \A u \in Owners : task[u].flight \in FlightId
    BY DEF ManagerTypeOK, StopperState, FlightInv, OwnerInv
  <2>3. Owners' = Owners \ {t} /\ \A u \in Owners' : task'[u] = task[u]
    BY <1>24, <2>1 DEF Owners, OwnerPc
  <2>4. \A g \in FlightId : transport'[g] = transport[g]
                             \/ (transport[g] = "open" /\ transport'[g] = "lost")
    <3>1. transport \in [FlightId -> {"none", "open", "closed", "lost"}]  BY
        DEF ManagerTypeOK
    <3>2. CASE task[t].pc \in OwnerPc \cup {"closing"} /\ Lost(f)
      <4>1. f \in FlightId
        BY <3>2 DEF FlightInv, OwnerInv, TaskInv, Owners
      <4>2. QED BY <3>1, <3>2, <4>1, LostEffect
    <3>3. CASE UNCHANGED transport
      BY <3>3
    <3>4. QED BY <1>24, <3>2, <3>3 DEF TaskDropped
  <2>5. CASE task[t].pc \in OwnerPc
    <3>1. f \in FlightId /\ connecting = f /\ Owners = {t} /\ flight[f].status = "running"
      BY <2>5 DEF FlightInv, OwnerInv, Owners
    <3>2. /\ flight'[f].status = "abandoned"
          /\ \A g \in FlightId \ {f} : flight'[g] = flight[g]
      BY <1>24, <2>5, <3>1, StatusEffect DEF TaskDropped, DropsGuard, Lost, ManagerTypeOK
    <3>3. transport'[f] # "open"
      BY <1>24, <2>5, <3>1 DEF TaskDropped, DropsGuard, Lost, ManagerTypeOK
    <3>4. Owners' = {} BY <3>1, <2>3
    <3>5. QED BY <2>1, <2>2, <2>4, <3>1, <3>2, <3>3, <3>4 DEF StopInv
  <2>6. CASE task[t].pc \notin OwnerPc
    <3>1. flight' = flight BY <1>24, <2>6 DEF TaskDropped, DropsGuard, Lost
    <3>2. QED BY <2>1, <2>2, <2>3, <2>4, <3>1 DEF StopInv
  <2>7. QED BY <2>5, <2>6
<1>25. ASSUME RequestShutdown PROVE StopInv'
  BY <1>25 DEF RequestShutdown,
     ManagerTypeOK, FlightState, TaskState, TaskPc, StopperState, FlightInv,
     FreshInv, OwnerInv, CacheInv, ShellOfCached, Owners, OwnerPc, StopInv
<1>26. ASSUME ShutdownTakes PROVE StopInv'
  BY <1>26 DEF ShutdownTakes, CacheEmptied, AfterClosing,
     ManagerTypeOK, FlightState, TaskState, TaskPc, StopperState, FlightInv,
     FreshInv, OwnerInv, CacheInv, ShellOfCached, Owners, OwnerPc, StopInv
<1>27. ASSUME ShutdownDisconnects PROVE StopInv'
  BY <1>27 DEF ShutdownDisconnects, Disconnected, AfterClosing,
     ManagerTypeOK, FlightState, TaskState, TaskPc, StopperState, FlightInv,
     FreshInv, OwnerInv, CacheInv, ShellOfCached, Owners, OwnerPc, StopInv
<1>28. ASSUME ShutdownAwaits PROVE StopInv'
  BY <1>28 DEF ShutdownAwaits, FlightOver, ClearConnectionFlight,
     ManagerTypeOK, FlightState, TaskState, TaskPc, StopperState, FlightInv,
     FreshInv, OwnerInv, CacheInv, ShellOfCached, Owners, OwnerPc, StopInv
<1>29. ASSUME ShutdownAborted PROVE StopInv'
  <2>1. CASE UNCHANGED transport
    BY <1>29, <2>1 DEF ShutdownAborted,
       ManagerTypeOK, FlightState, TaskState, TaskPc, StopperState, FlightInv,
       FreshInv, OwnerInv, CacheInv, ShellOfCached, Owners, OwnerPc, StopInv
  <2>2. CASE stopper.pc = "closing" /\ Lost(stopper.client)
    <3>1. stopper.client \in FlightId
      BY <2>2 DEF StopInv, ManagerTypeOK, StopperState
    <3>2. \A f \in FlightId : transport'[f] = transport[f]
                               \/ (transport[f] = "open" /\ transport'[f] = "lost")
      BY <2>2, <3>1, LostEffect DEF ManagerTypeOK
    <3>3. /\ UNCHANGED << client, connecting, lastFlight, flight, gate, task >>
          /\ stopper'.pc = "cancelled"
      BY <1>29 DEF ShutdownAborted, ManagerTypeOK, StopperState
    <3>4. Owners' = Owners /\ \A t \in Owners : task[t].flight \in FlightId
      BY <3>3 DEF Owners, FlightInv, OwnerInv
    <3>5. connecting \in MaybeFlight  BY DEF ManagerTypeOK
    <3>6. QED BY <3>2, <3>3, <3>4, <3>5, <2>2 DEF StopInv
  <2>3. QED BY <1>29, <2>1, <2>2 DEF ShutdownAborted
<1>30. ASSUME UNCHANGED vars PROVE StopInv'
  BY <1>30 DEF vars, ManagerTypeOK, FlightState, TaskState, TaskPc, StopperState, FlightInv,
     FreshInv, OwnerInv, CacheInv, ShellOfCached, Owners, OwnerPc, StopInv
<1>31. QED
  BY <1>1, <1>2, <1>3, <1>4, <1>5, <1>6, <1>7, <1>8, <1>9, <1>10, <1>11, <1>12, <1>13,
      <1>14,
     <1>15, <1>16, <1>17, <1>18, <1>19, <1>20, <1>21, <1>22, <1>23, <1>24, <1>25, <1>26,
         <1>27,
     <1>28, <1>29, <1>30
  DEF Next, TaskStep, ConsumerCall, ShutdownStep

-----------------------------------------------------------------------------
(* What one step may do, for the two action properties.                    *)

LEMMA GatedStep ==
    ASSUME ManagerTypeOK, gate, Next
    PROVE  /\ client' \in {client, None}
           /\ connecting' \in {connecting, None}
           /\ \A t \in Task : task'[t].pc = "holding" => task[t].pc = "holding"
<1>. DEFINE Good == /\ client' \in {client, None}
                 /\ connecting' \in {connecting, None}
                 /\ \A t \in Task : task'[t].pc = "holding" => task[t].pc = "holding"
<1>. SUFFICES Good  OBVIOUS
<1>. USE FlightAssumption DEF MaybeFlight, None, FlightId
<1>1. ASSUME NEW u \in Task, EnterRefused(u) PROVE Good
  BY <1>1 DEF EnterRefused, Enters, Returns, Idle,
     ManagerTypeOK, TaskState, TaskPc
<1>2. ASSUME NEW u \in Task, EnterInspect(u) PROVE Good
  BY <1>2 DEF EnterInspect, Enters, Moves,
     ManagerTypeOK, TaskState, TaskPc
<1>3. ASSUME NEW u \in Task, EnterWait(u) PROVE Good
  BY <1>3 DEF EnterWait, Enters, Moves,
     ManagerTypeOK, TaskState, TaskPc
<1>4. ASSUME NEW u \in Task, EnterConnect(u) PROVE Good
  BY <1>4 DEF EnterConnect, NumbersFlight, Enters, Moves,
     ManagerTypeOK, TaskState, TaskPc
<1>5. ASSUME NEW u \in Task, Probe(u) PROVE Good
  BY <1>5 DEF Probe, Moves,
     ManagerTypeOK, TaskState, TaskPc
<1>6. ASSUME NEW u \in Task, Checkout(u) PROVE Good
  BY <1>6 DEF Checkout, CanCheckout, Moves,
     ManagerTypeOK, TaskState, TaskPc
<1>7. ASSUME NEW u \in Task, EvictProbed(u) PROVE Good
  BY <1>7 DEF EvictProbed, Moves, Evict, CacheEmptied,
     ManagerTypeOK, TaskState, TaskPc
<1>8. ASSUME NEW u \in Task, Waited(u) PROVE Good
  BY <1>8 DEF Waited, Moves, Returns, Idle,
     ManagerTypeOK, TaskState, TaskPc
<1>9. ASSUME NEW u \in Task, ClearAbandoned(u) PROVE Good
  BY <1>9 DEF ClearAbandoned, Moves, ClearConnectionFlight,
     ManagerTypeOK, TaskState, TaskPc
<1>10. ASSUME NEW u \in Task, ConnectorReturns(u) PROVE Good
  <2>1. /\ UNCHANGED << client, connecting >>
        /\ task'[u].pc \in {"connected", "refused"}
        /\ \A t \in Task \ {u} : task'[t] = task[t]
    BY <1>10, MovesEffect DEF ConnectorReturns, ManagerTypeOK, TaskState, TaskPc
  <2>2. QED BY <2>1
<1>11. ASSUME NEW u \in Task, ConnectCancelled(u) PROVE Good
  BY <1>11 DEF ConnectCancelled, ClearConnectionFlight, Completes, Returns, Idle,
     ManagerTypeOK, TaskState, TaskPc
<1>12. ASSUME NEW u \in Task, SettleGated(u) PROVE Good
  BY <1>12 DEF SettleGated, Settles, CacheEmptied, Moves,
     ManagerTypeOK, TaskState, TaskPc
<1>13. ASSUME NEW u \in Task, SettleStale(u) PROVE Good
  BY <1>13 DEF SettleStale, Settles, IsCurrentConfig, Moves,
     ManagerTypeOK, TaskState, TaskPc
<1>14. ASSUME NEW u \in Task, Publish(u) PROVE Good
  BY <1>14 DEF Publish, Completes, Moves, IsCurrentConfig,
     ManagerTypeOK, TaskState, TaskPc
<1>15. ASSUME NEW u \in Task, ReportRefusal(u) PROVE Good
  BY <1>15 DEF ReportRefusal, Completes, Returns, Idle, IsCurrentConfig,
     ManagerTypeOK, TaskState, TaskPc
<1>16. ASSUME NEW u \in Task, DiscardDisconnects(u) PROVE Good
  BY <1>16 DEF DiscardDisconnects, Disconnected,
     ManagerTypeOK, TaskState, TaskPc
<1>17. ASSUME NEW u \in Task, DiscardEnds(u) PROVE Good
  <2>1. /\ client' = client /\ connecting' \in {connecting, None}
        /\ task'[u].pc \in {"idle", "entering"}
        /\ \A t \in Task \ {u} : task'[t] = task[t]
    BY <1>17, MovesEffect, ReturnsEffect
    DEF DiscardEnds, ClearConnectionFlight, ManagerTypeOK, TaskPc, Idle
  <2>2. QED BY <2>1
<1>18. ASSUME NEW u \in Task, ReplaceConfig(u) PROVE Good
  BY <1>18 DEF ReplaceConfig,
     ManagerTypeOK, TaskState, TaskPc
<1>19. ASSUME NEW u \in Task, Disconnect(u) PROVE Good
  <2>1. /\ client' = None /\ connecting' = connecting
        /\ task'[u].pc \in {"idle", "entering", "closing"}
        /\ \A t \in Task \ {u} : task'[t] = task[t]
    BY <1>19, MovesEffect DEF Disconnect, CacheEmptied, ManagerTypeOK, TaskPc
  <2>2. QED BY <2>1
<1>20. ASSUME NEW u \in Task, DisconnectEnds(u) PROVE Good
  BY SMTT(30), <1>20 DEF DisconnectEnds, Disconnected, Moves, Returns, Idle,
     ManagerTypeOK, TaskState, TaskPc
<1>21. ASSUME NEW u \in Task, Invalidate(u) PROVE Good
  BY <1>21 DEF Invalidate, CacheEmptied,
     ManagerTypeOK, TaskState, TaskPc
<1>22. ASSUME NEW u \in Task, InvalidateClient(u) PROVE Good
  BY <1>22 DEF InvalidateClient, Evict, CacheEmptied, Returns, Idle,
     ManagerTypeOK, TaskState, TaskPc
<1>23. ASSUME NEW u \in Task, SetShellIntegration(u) PROVE Good
  BY <1>23 DEF SetShellIntegration,
     ManagerTypeOK, TaskState, TaskPc
<1>24. ASSUME NEW u \in Task, TaskDropped(u) PROVE Good
  BY <1>24 DEF TaskDropped, DropsGuard, Lost, Returns, Idle,
     ManagerTypeOK, TaskState, TaskPc
<1>25. ASSUME RequestShutdown PROVE Good
  BY <1>25 DEF RequestShutdown,
     ManagerTypeOK, TaskState, TaskPc
<1>26. ASSUME ShutdownTakes PROVE Good
  BY <1>26 DEF ShutdownTakes, CacheEmptied, AfterClosing,
     ManagerTypeOK, TaskState, TaskPc
<1>27. ASSUME ShutdownDisconnects PROVE Good
  BY <1>27 DEF ShutdownDisconnects, Disconnected, AfterClosing,
     ManagerTypeOK, TaskState, TaskPc
<1>28. ASSUME ShutdownAwaits PROVE Good
  BY <1>28 DEF ShutdownAwaits, FlightOver, ClearConnectionFlight,
     ManagerTypeOK, TaskState, TaskPc
<1>29. ASSUME ShutdownAborted PROVE Good
  BY <1>29 DEF ShutdownAborted, Lost,
     ManagerTypeOK, TaskState, TaskPc
<1>30. QED
  BY <1>1, <1>2, <1>3, <1>4, <1>5, <1>6, <1>7, <1>8, <1>9, <1>10, <1>11, <1>12, <1>13,
     <1>14, <1>15, <1>16, <1>17, <1>18, <1>19, <1>20, <1>21, <1>22, <1>23, <1>24, <1>25,
     <1>26, <1>27, <1>28, <1>29
  DEF Next, TaskStep, ConsumerCall, ShutdownStep

LEMMA ReportStep ==
    ASSUME ManagerTypeOK, Next
    PROVE  \A t \in Task :
              (task[t].pc \in {"evicting", "holding"} /\ task'[t] # task[t]) =>
                  client' = client \/ client = task[t].flight
<1>. DEFINE Good == \A t \in Task :
                    (task[t].pc \in {"evicting", "holding"} /\ task'[t] # task[t]) =>
                        client' = client \/ client = task[t].flight
<1>. SUFFICES Good  OBVIOUS
<1>. USE FlightAssumption DEF MaybeFlight, None, FlightId
<1>1. ASSUME NEW u \in Task, EnterRefused(u) PROVE Good
  BY <1>1 DEF EnterRefused, Enters, Returns, Idle,
     ManagerTypeOK, TaskState, TaskPc
<1>2. ASSUME NEW u \in Task, EnterInspect(u) PROVE Good
  BY <1>2 DEF EnterInspect, Enters, Moves,
     ManagerTypeOK, TaskState, TaskPc
<1>3. ASSUME NEW u \in Task, EnterWait(u) PROVE Good
  BY <1>3 DEF EnterWait, Enters, Moves,
     ManagerTypeOK, TaskState, TaskPc
<1>4. ASSUME NEW u \in Task, EnterConnect(u) PROVE Good
  BY <1>4 DEF EnterConnect, NumbersFlight, Enters, Moves,
     ManagerTypeOK, TaskState, TaskPc
<1>5. ASSUME NEW u \in Task, Probe(u) PROVE Good
  BY <1>5 DEF Probe, Moves,
     ManagerTypeOK, TaskState, TaskPc
<1>6. ASSUME NEW u \in Task, Checkout(u) PROVE Good
  BY <1>6 DEF Checkout, CanCheckout, Moves,
     ManagerTypeOK, TaskState, TaskPc
<1>7. ASSUME NEW u \in Task, EvictProbed(u) PROVE Good
  BY <1>7 DEF EvictProbed, Moves, Evict, CacheEmptied,
     ManagerTypeOK, TaskState, TaskPc
<1>8. ASSUME NEW u \in Task, Waited(u) PROVE Good
  BY <1>8 DEF Waited, Moves, Returns, Idle,
     ManagerTypeOK, TaskState, TaskPc
<1>9. ASSUME NEW u \in Task, ClearAbandoned(u) PROVE Good
  BY <1>9 DEF ClearAbandoned, Moves, ClearConnectionFlight,
     ManagerTypeOK, TaskState, TaskPc
<1>10. ASSUME NEW u \in Task, ConnectorReturns(u) PROVE Good
  BY <1>10 DEF ConnectorReturns, Moves,
     ManagerTypeOK, TaskState, TaskPc
<1>11. ASSUME NEW u \in Task, ConnectCancelled(u) PROVE Good
  BY <1>11 DEF ConnectCancelled, ClearConnectionFlight, Completes, Returns, Idle,
     ManagerTypeOK, TaskState, TaskPc
<1>12. ASSUME NEW u \in Task, SettleGated(u) PROVE Good
  BY <1>12 DEF SettleGated, Settles, CacheEmptied, Moves,
     ManagerTypeOK, TaskState, TaskPc
<1>13. ASSUME NEW u \in Task, SettleStale(u) PROVE Good
  BY <1>13 DEF SettleStale, Settles, IsCurrentConfig, Moves,
     ManagerTypeOK, TaskState, TaskPc
<1>14. ASSUME NEW u \in Task, Publish(u) PROVE Good
  BY <1>14 DEF Publish, Completes, Moves, IsCurrentConfig,
     ManagerTypeOK, TaskState, TaskPc
<1>15. ASSUME NEW u \in Task, ReportRefusal(u) PROVE Good
  BY <1>15 DEF ReportRefusal, Completes, Returns, Idle, IsCurrentConfig,
     ManagerTypeOK, TaskState, TaskPc
<1>16. ASSUME NEW u \in Task, DiscardDisconnects(u) PROVE Good
  BY <1>16 DEF DiscardDisconnects, Disconnected,
     ManagerTypeOK, TaskState, TaskPc
<1>17. ASSUME NEW u \in Task, DiscardEnds(u) PROVE Good
  BY <1>17 DEF DiscardEnds, ClearConnectionFlight, Completes, Returns, Moves, Idle,
     ManagerTypeOK, TaskState, TaskPc
<1>18. ASSUME NEW u \in Task, ReplaceConfig(u) PROVE Good
  BY <1>18 DEF ReplaceConfig,
     ManagerTypeOK, TaskState, TaskPc
<1>19. ASSUME NEW u \in Task, Disconnect(u) PROVE Good
  BY <1>19 DEF Disconnect, CacheEmptied, Moves,
     ManagerTypeOK, TaskState, TaskPc
<1>20. ASSUME NEW u \in Task, DisconnectEnds(u) PROVE Good
  BY <1>20 DEF DisconnectEnds, Disconnected, Moves, Returns, Idle,
     ManagerTypeOK, TaskState, TaskPc
<1>21. ASSUME NEW u \in Task, Invalidate(u) PROVE Good
  BY <1>21 DEF Invalidate, CacheEmptied,
     ManagerTypeOK, TaskState, TaskPc
<1>22. ASSUME NEW u \in Task, InvalidateClient(u) PROVE Good
  BY <1>22 DEF InvalidateClient, Evict, CacheEmptied, Returns, Idle,
     ManagerTypeOK, TaskState, TaskPc
<1>23. ASSUME NEW u \in Task, SetShellIntegration(u) PROVE Good
  BY <1>23 DEF SetShellIntegration,
     ManagerTypeOK, TaskState, TaskPc
<1>24. ASSUME NEW u \in Task, TaskDropped(u) PROVE Good
  BY <1>24 DEF TaskDropped, DropsGuard, Lost, Returns, Idle,
     ManagerTypeOK, TaskState, TaskPc
<1>25. ASSUME RequestShutdown PROVE Good
  BY <1>25 DEF RequestShutdown,
     ManagerTypeOK, TaskState, TaskPc
<1>26. ASSUME ShutdownTakes PROVE Good
  BY <1>26 DEF ShutdownTakes, CacheEmptied, AfterClosing,
     ManagerTypeOK, TaskState, TaskPc
<1>27. ASSUME ShutdownDisconnects PROVE Good
  BY <1>27 DEF ShutdownDisconnects, Disconnected, AfterClosing,
     ManagerTypeOK, TaskState, TaskPc
<1>28. ASSUME ShutdownAwaits PROVE Good
  BY <1>28 DEF ShutdownAwaits, FlightOver, ClearConnectionFlight,
     ManagerTypeOK, TaskState, TaskPc
<1>29. ASSUME ShutdownAborted PROVE Good
  BY <1>29 DEF ShutdownAborted, Lost,
     ManagerTypeOK, TaskState, TaskPc
<1>30. QED
  BY <1>1, <1>2, <1>3, <1>4, <1>5, <1>6, <1>7, <1>8, <1>9, <1>10, <1>11, <1>12, <1>13,
     <1>14, <1>15, <1>16, <1>17, <1>18, <1>19, <1>20, <1>21, <1>22, <1>23, <1>24, <1>25,
     <1>26, <1>27, <1>28, <1>29
  DEF Next, TaskStep, ConsumerCall, ShutdownStep

-----------------------------------------------------------------------------
(* The theorems.                                                           *)

ManagerInv == ManagerTypeOK /\ FlightInv /\ ConfigInv /\ StopInv

LEMMA InitManagerInv == Init => ManagerInv
<1>. SUFFICES ASSUME Init PROVE ManagerInv  OBVIOUS
<1>1. ManagerTypeOK BY InitTypeOK
<1>2. \A t \in Task : task[t] = Idle BY DEF Init
<1>3. Owners = {} BY <1>2 DEF Owners, OwnerPc, Idle
<1>4. FreshInv BY FlightAssumption DEF Init, FreshInv, FlightId
<1>5. FlightInv
  BY <1>2, <1>3, <1>4 DEF Init, FlightInv, OwnerInv, TaskInv, CacheInv, ShellOfCached, Idle,
      None
<1>6. ConfigInv BY <1>2 DEF Init, ConfigInv, Idle, None
<1>7. StopInv BY <1>3 DEF Init, StopInv, None
<1>8. QED BY <1>1, <1>5, <1>6, <1>7 DEF ManagerInv

LEMMA NextManagerInv == ManagerInv /\ [Next]_vars => ManagerInv'
<1>. SUFFICES ASSUME ManagerInv, [Next]_vars PROVE ManagerInv'  OBVIOUS
<1>1. ManagerTypeOK' BY NextTypeOK DEF ManagerInv
<1>2. FlightInv' BY <1>1, NextFlightInv DEF ManagerInv
<1>3. ConfigInv' BY <1>1, NextConfigInv DEF ManagerInv
<1>4. StopInv' BY <1>1, <1>2, NextStopInv DEF ManagerInv
<1>5. QED BY <1>1, <1>2, <1>3, <1>4 DEF ManagerInv

LEMMA ManagerInvariant == Spec => []ManagerInv
<1>1. QED BY InitManagerInv, NextManagerInv, PTL DEF Spec

(* Every variable stays in its type, so no call leaves the manager in a    *)
(* state the others do not expect.                                         *)
THEOREM ManagerTypeCorrect == Spec => []ManagerTypeOK
<1>1. ManagerInv => ManagerTypeOK BY DEF ManagerInv
<1>2. QED BY <1>1, ManagerInvariant, PTL

(* client() dials once for everybody: an owner of a flight is alone, it is *)
(* the flight that waiters see, and no client is cached beside it.         *)
THEOREM DialsOnce == Spec => []SingleFlight
<1>1. ManagerInv => SingleFlight
  BY DEF ManagerInv, FlightInv, OwnerInv, SingleFlight
<1>2. QED BY <1>1, ManagerInvariant, PTL

(* A shell integration is never remembered for another client than the     *)
(* cached one.                                                             *)
THEOREM ShellMatchesClient == Spec => []ShellOfCached
<1>1. ManagerInv => ShellOfCached
  BY DEF ManagerInv, FlightInv, CacheInv
<1>2. QED BY <1>1, ManagerInvariant, PTL

(* The reconnect sequence of the terminal (replace_config, disconnect,     *)
(* client) ends on a session of the new config.                            *)
THEOREM ReconnectUsesNewConfig == Spec => []NewConfigReached
<1>1. ManagerInv => NewConfigReached
  BY DEF ManagerInv, ConfigInv, NewConfigReached
<1>2. QED BY <1>1, ManagerInvariant, PTL

(* A shutdown() that returned has left nothing behind: no cached client,   *)
(* nobody connecting, no open transport of what it found.                  *)
THEOREM ShutdownLeavesNothing == Spec => []ShutdownComplete
<1>1. ManagerInv => ShutdownComplete
  <2>. SUFFICES ASSUME ManagerInv, stopper.pc = "done" PROVE ShutdownComplete
    BY DEF ShutdownComplete
  <2>1. client = None /\ connecting = None  BY DEF ManagerInv, StopInv
  <2>2. None \notin FlightId  BY FlightAssumption DEF None, FlightId
  <2>3. Owners = {}  BY <2>1, <2>2 DEF ManagerInv, FlightInv, OwnerInv
  <2>4. QED BY <2>1, <2>3 DEF ManagerInv, StopInv, ShutdownComplete
<1>2. QED BY <1>1, ManagerInvariant, PTL

(* Once the gate has closed nothing is handed out or published any more    *)
(* and no flight starts.                                                   *)
THEOREM GateIsFinal == Spec => NothingPastGate
<1>1. ManagerTypeOK /\ [Next]_vars =>
        [gate => /\ client' \in {client, None}
                 /\ connecting' \in {connecting, None}
                 /\ \A t \in Task : task'[t].pc = "holding" => task[t].pc = "holding"]_vars
  BY GatedStep
<1>2. QED BY <1>1, ManagerTypeCorrect, PTL DEF Spec, NothingPastGate

(* A consumer that reports a dead client never evicts its replacement.     *)
THEOREM ReportEvictsOwnClient == Spec => StaleReportHarmless
<1>1. ManagerTypeOK /\ [Next]_vars =>
        [\A t \in Task :
            (task[t].pc \in {"evicting", "holding"} /\ task'[t] # task[t]) =>
                client' = client \/ client = task[t].flight]_vars
  BY ReportStep
<1>2. QED BY <1>1, ManagerTypeCorrect, PTL DEF Spec, StaleReportHarmless

=============================================================================
