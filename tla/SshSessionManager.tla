---------------------------- MODULE SshSessionManager ----------------------------
(***************************************************************************)
(* One shared SSH connection (crates/ssh/src/session_manager.rs,           *)
(* SessionPool): client() hands out the cached transport after probing it  *)
(* or dials once for everybody; disconnect, invalidate, replace_config and *)
(* shutdown run against calls of client() that are suspended at any of     *)
(* their awaits, and any of those futures may be dropped there.            *)
(*                                                                         *)
(* Each block under the state mutex is one action.  request_shutdown does  *)
(* not take that mutex; the publication lock orders it before or after the *)
(* block of a checkout or publication, so it is an action of its own.      *)
(*                                                                         *)
(* Abstractions.  Flight f is the f-th ConnectionFlight, the config        *)
(* generation it captured and the client its connector may return.  The    *)
(* ping throttle only chooses whether a probe pings: a probe finds the     *)
(* client alive or dead by choice, as the network decides.  The mutex of a *)
(* client delays its holder and protects nothing modelled here.            *)
(***************************************************************************)
EXTENDS Naturals, FiniteSets

CONSTANTS
    Task,        \* consumers of the manager
    MaxFlight,   \* bound on connection flights
    MaxConfig    \* bound on replace_config calls

ASSUME TaskAssumption == IsFiniteSet(Task)
ASSUME FlightAssumption == MaxFlight \in Nat /\ MaxConfig \in Nat

FlightId == 1 .. MaxFlight
None == 0
MaybeFlight == FlightId \cup {None}

VARIABLES
    configGen,   \* SessionConfig.generation
    client,      \* SessionState.client: the cached client
    shell,       \* SessionState.shell_integration: the client it belongs to
    connecting,  \* SessionState.connecting
    gate,        \* shutdown: the reconnect gate is closed
    lastFlight,  \* flights created so far
    flight,      \* completion, abandonment and captured config of each flight
    transport,   \* the transport of each flight's client
    task,        \* the future each consumer runs, or the client it holds
    stopper      \* the shutdown() call

vars == << configGen, client, shell, connecting, gate, lastFlight, flight, transport,
           task, stopper >>

TaskPc == {"idle", "replaced", "entering", "inspecting", "checkout", "evicting", "waiting",
           "clearing", "connecting", "connected", "refused", "discarding", "retrying",
           "closing", "holding"}

TaskState == [pc : TaskPc, flight : MaybeFlight, config : 0 .. MaxConfig]

Idle == [pc |-> "idle", flight |-> None, config |-> 0]

StopperState == [pc : {"idle", "gated", "closing", "awaiting", "done", "cancelled"},
                 client : MaybeFlight, flight : MaybeFlight]

FlightState == [status : {"none", "running", "completed", "abandoned"},
                config : 0 .. MaxConfig]

(* The futures that own a flight, in the order client() passes them.       *)
OwnerPc == {"connecting", "connected", "refused", "discarding", "retrying"}

Moves(t, pc, f) ==
    task' = [task EXCEPT ![t] = [pc |-> pc, flight |-> f, config |-> task[t].config]]

Returns(t) == task' = [task EXCEPT ![t] = Idle]

CacheEmptied == client' = None /\ shell' = None

(* Mutant: whatever is connecting is cleared.                              *)
ClearAnyFlight(f) == connecting' = None

(* clear_connection_flight.                                                *)
ClearConnectionFlight(f) == connecting' = IF connecting = f THEN None ELSE connecting

(* SharedSessionClient::disconnect.                                        *)
Disconnected(f) == transport' = [transport EXCEPT ![f] = IF @ = "open" THEN "closed" ELSE @]

(* A client goes with the future that owned it.                            *)
Lost(f) == transport' = [transport EXCEPT ![f] = IF @ = "open" THEN "lost" ELSE @]

-----------------------------------------------------------------------------
(* client(): the locked block at the top of its loop.                      *)

Enters(t) == task[t].pc \in {"idle", "entering"}

EnterRefused(t) ==
    /\ Enters(t)
    /\ gate
    /\ Returns(t)
    /\ UNCHANGED << configGen, client, shell, connecting, gate, lastFlight, flight,
                    transport, stopper >>

EnterInspect(t) ==
    /\ Enters(t)
    /\ ~gate
    /\ client # None
    /\ Moves(t, "inspecting", client)
    /\ UNCHANGED << configGen, client, shell, connecting, gate, lastFlight, flight,
                    transport, stopper >>

EnterWait(t) ==
    /\ Enters(t)
    /\ ~gate
    /\ client = None
    /\ connecting # None
    /\ Moves(t, "waiting", connecting)
    /\ UNCHANGED << configGen, client, shell, connecting, gate, lastFlight, flight,
                    transport, stopper >>

NumbersFlight(f) == lastFlight' = f

EnterConnect(t) ==
    LET f == lastFlight + 1
    IN  /\ Enters(t)
        /\ ~gate
        /\ client = None
        /\ connecting = None
        /\ f \in FlightId
        /\ NumbersFlight(f)
        /\ connecting' = f
        /\ flight' = [flight EXCEPT ![f] = [status |-> "running", config |-> configGen]]
        /\ Moves(t, "connecting", f)
        /\ UNCHANGED << configGen, client, shell, gate, transport, stopper >>

-----------------------------------------------------------------------------
(* client(): a cached client is probed without the lock, then checked out  *)
(* (can_checkout, refresh_ping_and_checkout) or evicted.                   *)

Probe(t) ==
    /\ task[t].pc = "inspecting"
    /\ \E next \in {"checkout", "evicting"} : Moves(t, next, task[t].flight)
    /\ UNCHANGED << configGen, client, shell, connecting, gate, lastFlight, flight,
                    transport, stopper >>

(* Mutant: the gate is not looked at again after the probe.                *)
CanCheckoutCached(t) == client = task[t].flight

CanCheckout(t) == ~gate /\ client = task[t].flight

Checkout(t) ==
    /\ task[t].pc = "checkout"
    /\ Moves(t, IF CanCheckout(t) THEN "holding" ELSE "entering",
             task[t].flight)
    /\ UNCHANGED << configGen, client, shell, connecting, gate, lastFlight, flight,
                    transport, stopper >>

(* invalidate_client.                                                      *)
Evict(f) ==
    IF client = f THEN CacheEmptied ELSE UNCHANGED << client, shell >>

EvictProbed(t) ==
    /\ task[t].pc = "evicting"
    /\ Evict(task[t].flight)
    /\ Moves(t, "entering", None)
    /\ UNCHANGED << configGen, connecting, gate, lastFlight, flight, transport, stopper >>

-----------------------------------------------------------------------------
(* client(): waiting for another caller's flight.                          *)

Waited(t) ==
    LET f == task[t].flight
    IN  /\ task[t].pc = "waiting"
        /\ \/ gate /\ Returns(t)
           \/ flight[f].status = "completed" /\ Moves(t, "entering", None)
           \/ flight[f].status = "abandoned" /\ Moves(t, "clearing", f)
        /\ UNCHANGED << configGen, client, shell, connecting, gate, lastFlight, flight,
                        transport, stopper >>

ClearAbandoned(t) ==
    /\ task[t].pc = "clearing"
    /\ ClearConnectionFlight(task[t].flight)
    /\ Moves(t, "entering", None)
    /\ UNCHANGED << configGen, client, shell, gate, lastFlight, flight, transport, stopper >>

-----------------------------------------------------------------------------
(* client(): the owner of a flight.                                        *)

Completes(f) == flight' = [flight EXCEPT ![f].status = "completed"]

ConnectorReturns(t) ==
    LET f == task[t].flight
    IN  /\ task[t].pc = "connecting"
        /\ \/ /\ transport' = [transport EXCEPT ![f] = "open"]
              /\ Moves(t, "connected", f)
           \/ /\ transport' = transport
              /\ Moves(t, "refused", f)
        /\ UNCHANGED << configGen, client, shell, connecting, gate, lastFlight, flight,
                        stopper >>

(* The gate closes while the connector runs: its future is dropped.        *)
ConnectCancelled(t) ==
    LET f == task[t].flight
    IN  /\ task[t].pc = "connecting"
        /\ gate
        /\ ClearConnectionFlight(f)
        /\ Completes(f)
        /\ Returns(t)
        /\ UNCHANGED << configGen, client, shell, gate, lastFlight, transport, stopper >>

Settles(t) == task[t].pc \in {"connected", "refused"}

(* The connector's result arrives after the gate closed.                   *)
SettleGated(t) ==
    /\ Settles(t)
    /\ gate
    /\ CacheEmptied
    /\ Moves(t, "discarding", task[t].flight)
    /\ UNCHANGED << configGen, connecting, gate, lastFlight, flight, transport, stopper >>

(* Mutant: a connect result is never stale.                                *)
IsAnyConfig(f) == TRUE

IsCurrentConfig(f) == flight[f].config = configGen

SettleStale(t) ==
    /\ Settles(t)
    /\ ~gate
    /\ ~IsCurrentConfig(task[t].flight)
    /\ Moves(t, "retrying", task[t].flight)
    /\ UNCHANGED << configGen, client, shell, connecting, gate, lastFlight, flight,
                    transport, stopper >>

Publish(t) ==
    LET f == task[t].flight
    IN  /\ task[t].pc = "connected"
        /\ ~gate
        /\ IsCurrentConfig(f)
        /\ connecting' = None
        /\ client' = f
        /\ shell' = None
        /\ Completes(f)
        /\ Moves(t, "holding", f)
        /\ UNCHANGED << configGen, gate, lastFlight, transport, stopper >>

ReportRefusal(t) ==
    LET f == task[t].flight
    IN  /\ task[t].pc = "refused"
        /\ ~gate
        /\ IsCurrentConfig(f)
        /\ connecting' = None
        /\ Completes(f)
        /\ Returns(t)
        /\ UNCHANGED << configGen, client, shell, gate, lastFlight, transport, stopper >>

(* An unpublished client is disconnected outside the lock.                 *)
DiscardDisconnects(t) ==
    /\ task[t].pc \in {"discarding", "retrying"}
    /\ transport[task[t].flight] = "open"
    /\ Disconnected(task[t].flight)
    /\ UNCHANGED << configGen, client, shell, connecting, gate, lastFlight, flight, task,
                    stopper >>

(* Then the flight is cleared and completed, and client() fails or loops.  *)
DiscardEnds(t) ==
    LET f == task[t].flight
    IN  /\ task[t].pc \in {"discarding", "retrying"}
        /\ transport[f] # "open"
        /\ ClearConnectionFlight(f)
        /\ Completes(f)
        /\ IF task[t].pc = "discarding" THEN Returns(t) ELSE Moves(t, "entering", None)
        /\ UNCHANGED << configGen, client, shell, gate, lastFlight, transport, stopper >>

-----------------------------------------------------------------------------
(* The other calls.                                                        *)

(* replace_config; the consumer goes on to disconnect and reconnect.       *)
ReplaceConfig(t) ==
    /\ task[t].pc = "idle"
    /\ configGen < MaxConfig
    /\ configGen' = configGen + 1
    /\ task' = [task EXCEPT ![t] = [pc |-> "replaced", flight |-> None,
                                    config |-> configGen']]
    /\ UNCHANGED << client, shell, connecting, gate, lastFlight, flight, transport, stopper >>

(* disconnect: take the cached client under the lock, then disconnect it.  *)
Disconnect(t) ==
    /\ task[t].pc \in {"idle", "replaced"}
    /\ CacheEmptied
    /\ IF client # None THEN Moves(t, "closing", client)
       ELSE Moves(t, IF task[t].pc = "replaced" THEN "entering" ELSE "idle", None)
    /\ UNCHANGED << configGen, connecting, gate, lastFlight, flight, transport, stopper >>

(* A consumer that had replaced the config now calls client().             *)
DisconnectEnds(t) ==
    /\ task[t].pc = "closing"
    /\ Disconnected(task[t].flight)
    /\ IF task[t].config # 0 THEN Moves(t, "entering", None) ELSE Returns(t)
    /\ UNCHANGED << configGen, client, shell, connecting, gate, lastFlight, flight, stopper >>

Invalidate(t) ==
    /\ task[t].pc = "idle"
    /\ CacheEmptied
    /\ UNCHANGED << configGen, connecting, gate, lastFlight, flight, transport, task,
                    stopper >>

(* A consumer reports the failure of the client it holds.                  *)
InvalidateClient(t) ==
    /\ task[t].pc = "holding"
    /\ Evict(task[t].flight)
    /\ Returns(t)
    /\ UNCHANGED << configGen, connecting, gate, lastFlight, flight, transport, stopper >>

SetShellIntegration(t) ==
    /\ task[t].pc = "holding"
    /\ client = task[t].flight
    /\ shell' = client
    /\ UNCHANGED << configGen, client, connecting, gate, lastFlight, flight, transport, task,
                    stopper >>

(* Mutant: the flight's guard does not abandon it.                         *)
DropsQuietly(t) == flight' = flight

(* Drop of ConnectionFlightGuard.                                          *)
DropsGuard(t) ==
    flight' = IF task[t].pc \in OwnerPc
              THEN [flight EXCEPT ![task[t].flight].status = "abandoned"] ELSE flight

(* The future, or the client the consumer holds, is dropped.  A dropped    *)
(* owner abandons its flight and the unpublished client in its hands; an   *)
(* interrupted disconnect may or may not have closed its transport.        *)
TaskDropped(t) ==
    LET f == task[t].flight
    IN  /\ task[t].pc # "idle"
        /\ Returns(t)
        /\ DropsGuard(t)
        /\ \/ task[t].pc \in OwnerPc \cup {"closing"} /\ Lost(f)
           \/ task[t].pc \notin OwnerPc /\ UNCHANGED transport
        /\ UNCHANGED << configGen, client, shell, connecting, gate, lastFlight, stopper >>

-----------------------------------------------------------------------------
(* shutdown().                                                             *)

RequestShutdown ==
    /\ stopper.pc = "idle"
    /\ gate' = TRUE
    /\ stopper' = [stopper EXCEPT !.pc = "gated"]
    /\ UNCHANGED << configGen, client, shell, connecting, lastFlight, flight, transport, task >>

(* Mutants: the flight under way is not awaited; or only its completion    *)
(* ends the wait.                                                          *)
AfterClosingNothing(f) == "done"

FlightOver(f) == flight[f].status # "running"

AfterClosing(f) == IF f # None THEN "awaiting" ELSE "done"

ShutdownTakes ==
    /\ stopper.pc = "gated"
    /\ CacheEmptied
    /\ stopper' = [pc     |-> IF client # None THEN "closing" ELSE AfterClosing(connecting),
                   client |-> client,
                   flight |-> connecting]
    /\ UNCHANGED << configGen, connecting, gate, lastFlight, flight, transport, task >>

ShutdownDisconnects ==
    /\ stopper.pc = "closing"
    /\ Disconnected(stopper.client)
    /\ stopper' = [stopper EXCEPT !.pc = AfterClosing(stopper.flight)]
    /\ UNCHANGED << configGen, client, shell, connecting, gate, lastFlight, flight, task >>

ShutdownAwaits ==
    /\ stopper.pc = "awaiting"
    /\ FlightOver(stopper.flight)
    /\ ClearConnectionFlight(stopper.flight)
    /\ stopper' = [stopper EXCEPT !.pc = "done"]
    /\ UNCHANGED << configGen, client, shell, gate, lastFlight, flight, transport, task >>

(* The service's deadline aborts the call.                                 *)
ShutdownAborted ==
    /\ stopper.pc \in {"gated", "closing", "awaiting"}
    /\ stopper' = [stopper EXCEPT !.pc = "cancelled"]
    /\ \/ stopper.pc = "closing" /\ Lost(stopper.client)
       \/ UNCHANGED transport
    /\ UNCHANGED << configGen, client, shell, connecting, gate, lastFlight, flight, task >>

-----------------------------------------------------------------------------
(* Specification.                                                          *)

Init ==
    /\ configGen = 0
    /\ client = None
    /\ shell = None
    /\ connecting = None
    /\ gate = FALSE
    /\ lastFlight = 0
    /\ flight = [f \in FlightId |-> [status |-> "none", config |-> 0]]
    /\ transport = [f \in FlightId |-> "none"]
    /\ task = [t \in Task |-> Idle]
    /\ stopper = [pc |-> "idle", client |-> None, flight |-> None]

(* What a suspended future does when it is polled again.                   *)
TaskStep(t) ==
    \/ task[t].pc = "entering" /\ (EnterRefused(t) \/ EnterInspect(t) \/ EnterWait(t)
                                   \/ EnterConnect(t))
    \/ Probe(t) \/ Checkout(t) \/ EvictProbed(t) \/ Waited(t) \/ ClearAbandoned(t)
    \/ ConnectorReturns(t) \/ ConnectCancelled(t)
    \/ SettleGated(t) \/ SettleStale(t) \/ Publish(t) \/ ReportRefusal(t)
    \/ DiscardDisconnects(t) \/ DiscardEnds(t)
    \/ DisconnectEnds(t)

ConsumerCall(t) ==
    \/ EnterRefused(t) \/ EnterInspect(t) \/ EnterWait(t) \/ EnterConnect(t)
    \/ ReplaceConfig(t) \/ Disconnect(t) \/ Invalidate(t)
    \/ InvalidateClient(t) \/ SetShellIntegration(t) \/ TaskDropped(t)

ShutdownStep == ShutdownTakes \/ ShutdownDisconnects \/ ShutdownAwaits

Next ==
    \/ \E t \in Task : TaskStep(t) \/ ConsumerCall(t)
    \/ RequestShutdown \/ ShutdownStep \/ ShutdownAborted

Spec == Init /\ [][Next]_vars

(* The runtime polls a future that was not dropped, and a dial or a        *)
(* disconnect ends some day.  Nothing makes a consumer call or drop.       *)
Fairness == WF_vars(ShutdownStep) /\ \A t \in Task : WF_vars(TaskStep(t))

FairSpec == Spec /\ Fairness

-----------------------------------------------------------------------------
(* Properties.                                                             *)

ManagerTypeOK ==
    /\ configGen \in 0 .. MaxConfig
    /\ client \in MaybeFlight
    /\ shell \in MaybeFlight
    /\ connecting \in MaybeFlight
    /\ gate \in BOOLEAN
    /\ lastFlight \in 0 .. MaxFlight
    /\ flight \in [FlightId -> FlightState]
    /\ transport \in [FlightId -> {"none", "open", "closed", "lost"}]
    /\ task \in [Task -> TaskState]
    /\ stopper \in StopperState

Owners == {t \in Task : task[t].pc \in OwnerPc}

(* However many consumers call client() and whoever abandons it, at most   *)
(* one of them dials at a time, never while a usable client is cached, and *)
(* the flight the others wait for is that one.                             *)
SingleFlight ==
    \A t \in Owners : /\ connecting = task[t].flight
                      /\ client = None
                      /\ \A u \in Owners : u = t

(* The remembered shell integration belongs to the cached client, never to *)
(* one that was evicted or replaced while it was being installed.          *)
ShellOfCached == shell # None => shell = client

(* A consumer that replaced the config, disconnected and called client()   *)
(* never ends up on a session dialled with an older config, even if a      *)
(* flight with the old one was under way.                                  *)
NewConfigReached ==
    \A t \in Task : task[t].pc = "holding" =>
        flight[task[t].flight].config >= task[t].config

(* When shutdown() returns, the client it found cached was disconnected,   *)
(* the flight it found is over and left no open transport, and nobody is   *)
(* connecting any more.                                                    *)
ShutdownComplete ==
    stopper.pc = "done" =>
        /\ client = None
        /\ connecting = None
        /\ Owners = {}
        /\ stopper.client # None => transport[stopper.client] # "open"
        /\ stopper.flight # None => transport[stopper.flight] # "open"

(* Once the gate has closed no consumer obtains a client, nothing is       *)
(* published and no flight starts, whatever was suspended where.           *)
NothingPastGate ==
    [][gate => /\ client' \in {client, None}
               /\ connecting' \in {connecting, None}
               /\ \A t \in Task : task'[t].pc = "holding" => task[t].pc = "holding"]_vars

(* A late report of a dead client evicts that client or nothing.           *)
StaleReportHarmless ==
    [][\A t \in Task :
          (task[t].pc \in {"evicting", "holding"} /\ task'[t] # task[t]) =>
              client' = client \/ client = task[t].flight]_vars

(* A caller that waits for another's flight goes on, even if the owner was *)
(* dropped or the flight failed, and shutdown() ends, whatever was         *)
(* suspended when it was called.                                           *)
NobodyWaitsForEver ==
    /\ \A t \in Task : (task[t].pc = "waiting") ~> (task[t].pc # "waiting")
    /\ (stopper.pc = "gated") ~> (stopper.pc \in {"done", "cancelled"})

=============================================================================
