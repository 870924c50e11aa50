---------------------------- MODULE SshSessionService ----------------------------
(***************************************************************************)
(* The application-level owner of the shared SSH sessions                  *)
(* (crates/ssh/src/session_registry.rs, SessionServiceCore): the registry  *)
(* of SshSessionRegistry without retire, and one idempotent shutdown.      *)
(*                                                                         *)
(* The first shutdown() closes admission and every reconnect gate inside   *)
(* the caller, then a detached driver stops the managers, waits for the    *)
(* registry's tasks and publishes one report, all under one deadline.      *)
(* Every other caller waits for that report.                               *)
(***************************************************************************)
EXTENDS SshSessionRegistry

CONSTANTS
    Closer,    \* the callers of shutdown()
    NoReport   \* stands for Option::None

VARIABLES
    shutdownStarted,  \* ServiceShutdownState.started
    report,           \* ServiceShutdownState.report, and shutdown_complete
    closer,           \* the shutdown() future of each closer
    driver,           \* the detached run_shutdown task
    dropped           \* SessionServiceCore was dropped

serviceVars == << shutdownStarted, report, closer, driver, dropped >>
vars == << registryVars, serviceVars >>

Report == [timedOut : BOOLEAN, requested : Nat, completed : Nat, remaining : Nat,
           tasks : Nat]

Driver == [pc : {"off", "spawned", "joining", "counting", "parked", "aborting",
                 "stopping", "reporting", "done"},
           pending : SUBSET Gen, report : Report]

EmptyReport == [timedOut |-> FALSE, requested |-> 0, completed |-> 0, remaining |-> 0,
                tasks |-> 0]

DriverAt(at, gens, rep) == [pc |-> at, pending |-> gens, report |-> rep]

CloserState == [pc : {"idle", "starting", "waiting", "returned"},
                result : Report \cup {NoReport}]

CloserAt(at, result) == [pc |-> at, result |-> result]

-----------------------------------------------------------------------------
(* shutdown().                                                             *)

(* The first locked block: a stable report, a place in the queue, or the   *)
(* duty to start the shutdown.                                             *)
ShutdownCall(s) ==
    /\ ~dropped
    /\ closer[s].pc = "idle"
    /\ shutdownStarted' = TRUE
    /\ closer' = [closer EXCEPT ![s] =
                    IF report # NoReport THEN CloserAt("returned", report)
                    ELSE IF shutdownStarted THEN CloserAt("waiting", NoReport)
                    ELSE CloserAt("starting", NoReport)]
    /\ UNCHANGED << registryVars, report, driver, dropped >>

(* begin_shutdown, and the spawn of the driver with what it returned.      *)
ShutdownGates(s) ==
    LET managers == IF lifecycle = "Running" THEN ReadyGenerations ELSE {}
    IN  /\ closer[s].pc = "starting"
        /\ IF lifecycle = "Running" THEN BeginShutdown ELSE UNCHANGED registryVars
        /\ driver' = DriverAt("spawned", managers,
                        [EmptyReport EXCEPT !.requested = Cardinality(managers)])
        /\ closer' = [closer EXCEPT ![s] = CloserAt("waiting", NoReport)]
        /\ UNCHANGED << shutdownStarted, report, dropped >>

ShutdownReturn(s) ==
    /\ closer[s].pc = "waiting"
    /\ report # NoReport
    /\ closer' = [closer EXCEPT ![s] = CloserAt("returned", report)]
    /\ UNCHANGED << registryVars, shutdownStarted, report, driver, dropped >>

(* The future of a waiting caller is dropped; the driver does not notice.  *)
ShutdownAbandoned(s) ==
    /\ closer[s].pc = "waiting"
    /\ closer' = [closer EXCEPT ![s] = CloserAt("idle", NoReport)]
    /\ UNCHANGED << registryVars, shutdownStarted, report, driver, dropped >>

-----------------------------------------------------------------------------
(* run_shutdown.                                                           *)

ManagersUnchanged ==
    UNCHANGED << lifecycle, slots, nextGeneration, caller, flight, gated, reaper,
                 reaperPermit, idleSeq, now, cancelled, taskCount, taskPermit, snapshot >>

AfterJoining(gens) == IF gens = {} THEN "counting" ELSE "joining"

DriverSpawns ==
    /\ driver.pc = "spawned"
    /\ driver' = [driver EXCEPT !.pc = AfterJoining(driver.pending)]
    /\ manager' = [g \in Gen |-> IF g \in driver.pending THEN "stopping" ELSE manager[g]]
    /\ ManagersUnchanged
    /\ UNCHANGED << shutdownStarted, report, closer, dropped >>

(* shutdown_for_registry of one manager completes, well or not.            *)
ManagerStops(g) ==
    /\ manager[g] = "stopping"
    /\ manager' = [manager EXCEPT ![g] = "stopped"]
    /\ ManagersUnchanged
    /\ UNCHANGED serviceVars

DriverJoins(g) ==
    LET left == driver.pending \ {g}
    IN  /\ driver.pc = "joining"
        /\ g \in driver.pending
        /\ manager[g] = "stopped"
        /\ driver' = [driver EXCEPT !.pc = AfterJoining(left), !.pending = left,
                                    !.report = [driver.report EXCEPT !.completed = @ + 1]]
        /\ UNCHANGED << registryVars, shutdownStarted, report, closer, dropped >>

(* wait_for_tasks: check the count, else park until a permit arrives.      *)
DriverCounts ==
    /\ driver.pc = "counting"
    /\ driver' = [driver EXCEPT !.pc = IF taskCount = 0 THEN "aborting" ELSE "parked"]
    /\ UNCHANGED << registryVars, shutdownStarted, report, closer, dropped >>

DriverNotified ==
    /\ driver.pc = "parked"
    /\ taskPermit
    /\ taskPermit' = FALSE
    /\ driver' = [driver EXCEPT !.pc = "counting"]
    /\ UNCHANGED << lifecycle, slots, nextGeneration, caller, flight, manager, gated, reaper,
                    reaperPermit, idleSeq, now, cancelled, taskCount, snapshot >>
    /\ UNCHANGED << shutdownStarted, report, closer, dropped >>

(* Mutant: the deadline covers the tasks and not the managers.             *)
DriverTimesOutParked ==
    /\ driver.pc = "parked"
    /\ driver' = [driver EXCEPT !.pc = "aborting",
                                !.report = [driver.report EXCEPT !.timedOut = TRUE]]
    /\ UNCHANGED << registryVars, shutdownStarted, report, closer, dropped >>

(* timeout_at gives up: it polls its future first, so only one that was    *)
(* pending at its last poll can time out.                                  *)
DriverTimesOut ==
    /\ driver.pc \in {"joining", "parked"}
    /\ driver' = [driver EXCEPT !.pc = "aborting",
                                !.report = [driver.report EXCEPT !.timedOut = TRUE]]
    /\ UNCHANGED << registryVars, shutdownStarted, report, closer, dropped >>

(* Mutant: the JoinSet is counted after it was cleared.                    *)
DriverAbortsFirst ==
    /\ driver.pc = "aborting"
    /\ manager' = [g \in Gen |-> IF g \in driver.pending /\ manager[g] = "stopping"
                                 THEN "abandoned" ELSE manager[g]]
    /\ driver' = [driver EXCEPT !.pc = "stopping", !.pending = {},
                                !.report = [driver.report EXCEPT !.tasks = taskCount]]
    /\ ManagersUnchanged
    /\ UNCHANGED << shutdownStarted, report, closer, dropped >>

(* What is left of the JoinSet is counted and aborted, and the tasks that  *)
(* are left are counted.                                                   *)
DriverAborts ==
    /\ driver.pc = "aborting"
    /\ manager' = [g \in Gen |-> IF g \in driver.pending /\ manager[g] = "stopping"
                                 THEN "abandoned" ELSE manager[g]]
    /\ driver' = [driver EXCEPT !.pc = "stopping", !.pending = {},
                                !.report = [driver.report EXCEPT
                                    !.remaining = Cardinality(driver.pending),
                                    !.tasks = taskCount]]
    /\ ManagersUnchanged
    /\ UNCHANGED << shutdownStarted, report, closer, dropped >>

DriverStops ==
    /\ driver.pc = "stopping"
    /\ driver' = [driver EXCEPT !.pc = "reporting"]
    /\ FinishShutdown
    /\ UNCHANGED << shutdownStarted, report, closer, dropped >>

DriverReports ==
    /\ driver.pc = "reporting"
    /\ report' = driver.report
    /\ driver' = [driver EXCEPT !.pc = "done"]
    /\ UNCHANGED << registryVars, shutdownStarted, closer, dropped >>

(* Drop of SessionServiceCore before any shutdown(): nobody can be inside  *)
(* acquire or shutdown, each borrows the Arc.  The registry is dropped     *)
(* with it and finds everything drained.                                   *)
DropService ==
    /\ ~dropped
    /\ ~shutdownStarted
    /\ \A c \in Caller : caller[c].pc \in {"idle", "holding"}
    /\ dropped' = TRUE
    /\ gated' = gated \cup ReadyGenerations
    /\ DrainSlots("Stopped")
    /\ UNCHANGED << shutdownStarted, report, closer, driver >>

-----------------------------------------------------------------------------
(* Specification.                                                          *)

ServiceInit ==
    /\ RegistryInit
    /\ shutdownStarted = FALSE
    /\ report = NoReport
    /\ closer = [s \in Closer |-> CloserAt("idle", NoReport)]
    /\ driver = DriverAt("off", {}, EmptyReport)
    /\ dropped = FALSE

DriverStep ==
    \/ DriverSpawns \/ DriverCounts \/ DriverNotified \/ DriverTimesOut
    \/ DriverAborts \/ DriverStops \/ DriverReports
    \/ \E g \in Gen : DriverJoins(g)

ServiceNext ==
    \/ UseNext /\ UNCHANGED serviceVars
    \/ \E s \in Closer : \/ ShutdownCall(s) \/ ShutdownGates(s)
                         \/ ShutdownReturn(s) \/ ShutdownAbandoned(s)
    \/ DriverStep
    \/ \E g \in Gen : ManagerStops(g)
    \/ DropService

ServiceSpec == ServiceInit /\ [][ServiceNext]_vars

(* The runtime polls the driver and the registry's tasks; the caller that  *)
(* starts the shutdown does not stop half-way, as it does not await.       *)
ServiceFairness ==
    /\ \A g \in Gen : /\ WF_vars(FlightStep(g) /\ UNCHANGED serviceVars)
                      /\ WF_vars(FlightExit(g) /\ UNCHANGED serviceVars)
    /\ WF_vars(ReaperStep /\ UNCHANGED serviceVars)
    /\ WF_vars(DriverStep)
    /\ \A s \in Closer : WF_vars(ShutdownGates(s))

(* A manager's shutdown may hang: only the deadline bounds the driver.     *)
FairServiceSpec == ServiceSpec /\ ServiceFairness

-----------------------------------------------------------------------------
(* Properties.                                                             *)

(* From the moment admission closes, every lease a consumer still holds is *)
(* of a manager whose reconnect gate is closed: no retained lease, clone   *)
(* of a lease or acquire that raced the shutdown can dial again.           *)
RetainedLeasesGated ==
    lifecycle # "Running" =>
        \A c \in Caller : caller[c].pc = "holding" => caller[c].gen \in gated

(* A report accounts for every manager that was gated; and one that did    *)
(* not time out means that each of them finished its shutdown, that no     *)
(* manager was left live and that no task of the registry survives it.     *)
(* Concurrent, repeated and abandoned shutdown() calls are all told that.  *)
ReportTruthful ==
    report # NoReport =>
        /\ report.requested = Cardinality(gated)
        /\ report.requested = report.completed + report.remaining
        /\ taskCount <= report.tasks
        /\ \A g \in Gen : manager[g] \notin {"live", "stopping"}
        /\ ~report.timedOut =>
              /\ \A g \in gated : manager[g] = "stopped"
              /\ LiveFlights = {} /\ ~ReaperLives
    /\ \A s \in Closer : closer[s].pc = "returned" => closer[s].result = report

(* The driver reads the task count and then waits: the last task may end   *)
(* in between, and the permit it leaves must still be there.  Nothing but  *)
(* the deadline would wake the driver otherwise.                           *)
NoLostWakeup == driver.pc = "parked" /\ taskCount = 0 => taskPermit

(* A shutdown that was asked for produces its report, and the registry's   *)
(* own tasks end, whatever they were doing: flights in creation, a         *)
(* sleeping reaper, a hanging disconnect.  (Both premises, once true, stay *)
(* so: []<>(P => Q) says what P ~> Q would.)                               *)
ShutdownConverges ==
    []<>(/\ shutdownStarted => report # NoReport
         /\ lifecycle # "Running" => taskCount = 0)

=============================================================================
