---------------------------- MODULE TerminalIngress ----------------------------
(***************************************************************************)
(* One terminal connection's output path: the task or thread that reads    *)
(* the transport, the ingress queue, and the parser worker that consumes   *)
(* it, for the three transports (crates/terminal/src/ssh_ingress.rs,       *)
(* telnet_ingress.rs, serial_ingress.rs and the workers of the backends).  *)
(*                                                                         *)
(* The worker offers chunk after chunk and keeps at most one outside the   *)
(* queue.  SSH and Telnet keep it as a pending future that only progresses *)
(* while they poll it in their select; the serial thread blocks in it.     *)
(* A Telnet or serial worker ends by sending SourceClosed on the control   *)
(* lane, which overtakes the data: the parser then goes on until no byte   *)
(* is pending and reports that the output is drained.  An SSH worker ends  *)
(* by dropping its sender and waiting for the parser.                      *)
(***************************************************************************)
EXTENDS TerminalIngressQueue

CONSTANT Transports   \* the transports of an instance

VARIABLES
    transport,   \* which transport this connection uses
    worker,      \* control point of the task or thread that reads it
    read,        \* how many chunks it has offered
    pending,     \* the chunk outside the queue, 0 if none
    owner,       \* the backend: live, stopping in steps, or dropped
    parser,      \* control point of the parser worker
    guard,       \* the chunk whose reservation the parser holds, 0 if none
    closing,     \* the parser received SourceClosed
    leaving,     \* its loop ended: what remains is the drop of the receiver
    completion,  \* completion_state of the parser worker
    parsed       \* the chunks given to the terminal, in order

workerVars == << worker, read, pending >>
parserVars == << parser, guard, closing, leaving, parsed >>
vars == << queueVars, transport, workerVars, owner, parserVars, completion >>

Init ==
    /\ QueueInit
    /\ transport \in Transports
    /\ senders = IF transport = "ssh" THEN {"worker"} ELSE {"worker", "owner"}
    /\ worker = "select"
    /\ read = 0
    /\ pending = 0
    /\ owner = "live"
    /\ parser = "top"
    /\ guard = 0
    /\ closing = FALSE
    /\ leaving = FALSE
    /\ completion = "Running"
    /\ parsed = << >>

NoPending == pending = 0
OtherThanQueue == << transport, workerVars, owner, parserVars, completion >>

-----------------------------------------------------------------------------
(* The sends, as far as their callers poll them.                           *)

SendStep(c) ==
    \/ OfferWaiting(c) \/ PollBytes(c) \/ ReserveBytes(c) \/ ReserveSlot(c)
    \/ PollSlot(c) \/ RecheckAbort(c) \/ SendSlot(c) \/ TrySlot(c)

(* Mutant: the pending send is a task of its own.                          *)
PolledAlways(c) == c = pending \/ (c = read /\ worker = "message")

(* The chunk of a disconnect message is the last one offered; a pending    *)
(* chunk is not polled meanwhile, nor after the worker left its loop.      *)
Polled(c) == \/ c = pending /\ worker \in {"select", "trying", "blocked", "trailing"}
             \/ c = read /\ worker = "message"

WorkerSends ==
    /\ \E c \in Chunk : Polled(c) /\ SendStep(c)
    /\ UNCHANGED OtherThanQueue

ReservationDrops ==
    /\ \E c \in Chunk : DropReservation(c)
    /\ UNCHANGED OtherThanQueue

SemaphoreAssigns ==
    /\ \E c \in Chunk : AssignBytes(c) \/ AssignSlot(c)
    /\ UNCHANGED OtherThanQueue

(* A send returned: accepted, or refused and its reservation dropped.      *)
Accepted(c) == reply[c] = "Ok"
Refused(c) == at[c] = "gone" /\ reply[c] = "Closed"

(* The pending send is not in the middle of a poll.                        *)
Suspended == ~NoPending => at[pending] \in Awaiting

-----------------------------------------------------------------------------
(* The worker in its loop.                                                 *)

(* SSH and serial look for a shutdown before they read.                    *)
CanRead == /\ worker = "select" /\ NoPending
           /\ transport # "telnet" => owner = "live"

(* A chunk is read.  Telnet first tries without waiting.                   *)
Read ==
    /\ CanRead /\ read < MaxRead
    /\ read' = read + 1
    /\ pending' = read + 1
    /\ IF transport = "telnet" THEN OfferNow(read + 1) ELSE UNCHANGED queueVars
    /\ worker' = CASE transport = "ssh" -> "select" [] transport = "telnet" -> "trying"
                   [] OTHER -> "blocked"
    /\ UNCHANGED << transport, owner, parserVars, completion >>

(* Telnet keeps a chunk that found no capacity in a future of its own.     *)
KeepPending ==
    /\ worker = "trying"
    /\ at[pending] = "gone" /\ reply[pending] = "Full"
    /\ Move(pending, "idle") /\ Answer(pending, "none")
    /\ worker' = "select"
    /\ UNCHANGED << budgetVars, lane, abortVars, control, senders, transport, read, pending,
                    owner, parserVars, completion >>

SendReturns ==
    /\ worker \in {"select", "trying", "blocked"} /\ ~NoPending
    /\ \/ Accepted(pending) /\ worker' = "select"
       \/ Refused(pending) /\ worker' = IF transport = "ssh" THEN "abort" ELSE "close"
    /\ pending' = 0
    /\ UNCHANGED << queueVars, transport, read, owner, parserVars, completion >>

(* The transport ends, or the owner asked for it.                          *)
Ends ==
    /\ worker = "select" /\ NoPending
    /\ transport = "ssh" => owner = "live"
    /\ worker' = IF transport = "ssh" THEN "trail" ELSE "close"
    /\ UNCHANGED << queueVars, transport, read, pending, owner, parserVars, completion >>

ShutDown ==
    /\ worker = "select" /\ Suspended
    /\ owner # "live"
    /\ worker' = IF transport = "ssh" THEN "abort" ELSE "close"
    /\ UNCHANGED << queueVars, transport, read, pending, owner, parserVars, completion >>

(* A write to the transport fails, whatever is pending; Telnet queues a    *)
(* message for the user, if it finds capacity.                             *)
Fails ==
    /\ worker = "select" /\ Suspended /\ transport # "serial"
    /\ IF transport = "ssh"
       THEN worker' = "abort" /\ UNCHANGED << queueVars, read >>
       ELSE /\ read < MaxRead
            /\ read' = read + 1
            /\ OfferNow(read + 1)
            /\ worker' = "message"
    /\ UNCHANGED << transport, pending, owner, parserVars, completion >>

WorkerLoops == Read \/ KeepPending \/ SendReturns \/ Ends \/ ShutDown \/ Fails

-----------------------------------------------------------------------------
(* The worker after its loop.                                              *)

MessageSent ==
    /\ worker = "message"
    /\ Accepted(read) \/ at[read] = "gone"
    /\ worker' = "close"
    /\ UNCHANGED << queueVars, transport, read, pending, owner, parserVars, completion >>

(* SSH flushes what its decoder kept, if anything.                         *)
Trail ==
    /\ worker = "trail"
    /\ \/ /\ read < MaxRead
          /\ read' = read + 1 /\ pending' = read + 1 /\ worker' = "trailing"
       \/ worker' = "finish" /\ UNCHANGED << read, pending >>
    /\ UNCHANGED << queueVars, transport, owner, parserVars, completion >>

TrailSent ==
    /\ worker = "trailing"
    /\ \/ Accepted(pending) /\ worker' = "finish"
       \/ Refused(pending) /\ worker' = "abort"
    /\ pending' = 0
    /\ UNCHANGED << queueVars, transport, read, owner, parserVars, completion >>

(* SSH: parser_ingress.abort().                                            *)
WorkerAborts ==
    /\ \/ worker = "abort" /\ CloseBytes /\ worker' = "cancel"
       \/ worker = "cancel" /\ Cancel /\ worker' = "finish"
    /\ UNCHANGED << transport, read, pending, owner, parserVars, completion >>

(* close_source: Telnet spawns a task for the control, serial sends it.    *)
CloseSource ==
    /\ worker = "close"
    /\ OfferControl
    /\ IF transport = "telnet"
       THEN senders' = senders \cup {"closer"} /\ worker' = "finish"
       ELSE UNCHANGED senders /\ worker' = "control"
    /\ UNCHANGED << at, reply, budgetVars, lane, abortVars, transport, read, pending, owner,
                    parserVars, completion >>

ControlSends ==
    /\ SendControl
    /\ UNCHANGED << senders, OtherThanQueue >>

ControlSent ==
    /\ control \notin {"none", "offered", "sending"}
    /\ \/ "closer" \in senders /\ senders' = senders \ {"closer"} /\ UNCHANGED worker
       \/ worker = "control" /\ worker' = "finish" /\ UNCHANGED senders
    /\ UNCHANGED << at, reply, budgetVars, lane, abortVars, control, transport, read, pending,
                    owner, parserVars, completion >>

(* The pending future goes first, then the worker's own sender.            *)
DropPending ==
    /\ worker = "finish" /\ ~NoPending
    /\ DropSend(pending)
    /\ worker' = "dropping"
    /\ UNCHANGED << transport, read, pending, owner, parserVars, completion >>

(* Mutant: SSH waits for the parser with the sender still in its hands.    *)
KeepSender ==
    /\ \/ worker = "finish" /\ NoPending
       \/ worker = "dropping" /\ at[pending] = "gone"
    /\ pending' = 0
    /\ UNCHANGED senders
    /\ worker' = IF transport = "ssh" THEN "await" ELSE "done"
    /\ UNCHANGED << at, reply, budgetVars, lane, abortVars, control, transport, read, owner,
                    parserVars, completion >>

DropSender ==
    /\ \/ worker = "finish" /\ NoPending
       \/ worker = "dropping" /\ at[pending] = "gone"
    /\ pending' = 0
    /\ senders' = senders \ {"worker"}
    /\ worker' = IF transport = "ssh" THEN "await" ELSE "done"
    /\ UNCHANGED << at, reply, budgetVars, lane, abortVars, control, transport, read, owner,
                    parserVars, completion >>

Joined ==
    /\ worker = "await" /\ parser = "ended"
    /\ worker' = "done"
    /\ UNCHANGED << queueVars, transport, read, pending, owner, parserVars, completion >>

WorkerLeaves == MessageSent \/ Trail \/ TrailSent \/ WorkerAborts \/ CloseSource
                \/ ControlSends \/ ControlSent \/ DropPending \/ DropSender \/ Joined

-----------------------------------------------------------------------------
(* The backend that owns the connection.                                   *)

(* Shutdown or drop: a command for SSH, a token for the others.            *)
Stop ==
    /\ owner = "live"
    /\ owner' = "stopping"
    /\ UNCHANGED << queueVars, transport, workerVars, parserVars, completion >>

(* abort() of the parser ingress; its drop repeats it and drops a sender.  *)
OwnerAborts ==
    /\ transport # "ssh"
    /\ \/ /\ owner = "stopping" /\ owner' = "marked"
          /\ completion' = IF completion = "Running" THEN "Aborted" ELSE completion
          /\ UNCHANGED queueVars
       \/ owner = "marked" /\ owner' = "closed" /\ CloseBytes /\ UNCHANGED completion
       \/ owner = "closed" /\ owner' = "aborted" /\ Cancel /\ UNCHANGED completion
       \/ /\ owner = "aborted" /\ owner' = "dropped"
          /\ senders' = senders \ {"owner"}
          /\ UNCHANGED << at, reply, budgetVars, lane, abortVars, control, completion >>
    /\ UNCHANGED << transport, workerVars, parserVars >>

-----------------------------------------------------------------------------
(* The parser worker.                                                      *)

OtherThanParser == << transport, workerVars, owner >>

(* Mutant: SourceClosed ends the loop whatever is still in the lane.       *)
DrainedOnceClosing == closing

(* The loop's condition: the source closed and no byte is pending.         *)
Drained == closing /\ pendingBytes = 0

LoopTop ==
    /\ parser = "top"
    /\ parser' = IF Drained THEN "drained" ELSE "recv"
    /\ UNCHANGED << queueVars, guard, closing, leaving, completion, parsed, OtherThanParser >>

(* One look of recv_reserved at its three branches, in their order.        *)
RecvWakes ==
    /\ parser = "recv"
    /\ cancelled \/ control = "queued" \/ lane # << >> \/ NoSenderLeft
    /\ parser' = IF cancelled THEN "abort" ELSE "controls"
    /\ UNCHANGED << queueVars, guard, closing, leaving, completion, parsed, OtherThanParser >>

RecvControl ==
    /\ parser = "controls"
    /\ IF control = "queued"
       THEN control' = "taken" /\ closing' = TRUE /\ parser' = "top"
       ELSE parser' = "data" /\ UNCHANGED << control, closing >>
    /\ UNCHANGED << at, reply, budgetVars, lane, abortVars, senders, guard, leaving, completion,
                    parsed, OtherThanParser >>

RecvData ==
    /\ parser = "data"
    /\ IF lane # << >>
       THEN TakeData("taken") /\ guard' = Head(lane) /\ parser' = "parse" /\ UNCHANGED leaving
       ELSE /\ IF NoSenderLeft THEN parser' = "abort" /\ leaving' = TRUE
               ELSE parser' = "recv" /\ UNCHANGED leaving
            /\ UNCHANGED << queueVars, guard >>
    /\ UNCHANGED << closing, completion, parsed, OtherThanParser >>

(* The chunk goes through the parser, then its guard is dropped.           *)
Parse ==
    /\ parser = "parse"
    /\ parsed' = Append(parsed, guard)
    /\ Move(guard, "dropping")
    /\ parser' = "release"
    /\ UNCHANGED << reply, budgetVars, lane, abortVars, control, senders, guard, closing, leaving,
                    completion, OtherThanParser >>

GuardReleased ==
    /\ guard # 0 /\ at[guard] = "gone"
    /\ guard' = 0
    /\ parser' = IF parser = "release" THEN "top" ELSE parser
    /\ UNCHANGED << queueVars, closing, leaving, completion, parsed, OtherThanParser >>

(* The report that the output is drained, unless the owner aborted first.  *)
ReportDrained ==
    /\ parser = "drained"
    /\ completion' = IF completion = "Running" THEN "Drained" ELSE completion
    /\ parser' = "abort" /\ leaving' = TRUE
    /\ UNCHANGED << queueVars, guard, closing, parsed, OtherThanParser >>

(* finish_abort, in the loop and again when the receiver is dropped.       *)
FinishAbort ==
    /\ \/ parser = "abort" /\ CloseBytes /\ parser' = "cancel" /\ UNCHANGED << guard, leaving >>
       \/ parser = "cancel" /\ Cancel /\ parser' = "close" /\ UNCHANGED << guard, leaving >>
       \/ parser = "close" /\ CloseLanes /\ parser' = "drain" /\ UNCHANGED << guard, leaving >>
       \/ /\ parser = "drain" /\ guard = 0 /\ TakeData("dropping")
          /\ guard' = Head(lane) /\ UNCHANGED << parser, leaving >>
       \/ /\ parser = "drain" /\ guard = 0 /\ lane = << >>
          /\ control' = IF control = "queued" THEN "dropped" ELSE control
          /\ parser' = IF leaving THEN "ended" ELSE "abort"
          /\ leaving' = TRUE
          /\ UNCHANGED << at, reply, budgetVars, lane, abortVars, senders, guard >>
    /\ UNCHANGED << closing, completion, parsed, OtherThanParser >>

(* What was sent behind the receiver's back goes with the last sender.     *)
ChannelDropped ==
    /\ parser = "ended" /\ senders = {}
    /\ TakeData("dropping")
    /\ UNCHANGED OtherThanQueue

ParserStep == LoopTop \/ RecvWakes \/ RecvControl \/ RecvData \/ Parse \/ GuardReleased
              \/ ReportDrained \/ FinishAbort

-----------------------------------------------------------------------------
Next == WorkerSends \/ ReservationDrops \/ SemaphoreAssigns \/ WorkerLoops \/ WorkerLeaves
        \/ Stop \/ OwnerAborts \/ ParserStep \/ ChannelDropped

Spec == Init /\ [][Next]_vars

(* Every thread and task goes on, and so do the semaphores; nothing has to *)
(* be read and no transport has to end by itself.                          *)
Fairness ==
    /\ WF_vars(WorkerSends) /\ WF_vars(ReservationDrops) /\ WF_vars(SemaphoreAssigns)
    /\ WF_vars(KeepPending) /\ WF_vars(SendReturns) /\ WF_vars(ShutDown)
    /\ WF_vars(WorkerLeaves) /\ WF_vars(OwnerAborts)
    /\ WF_vars(ParserStep) /\ WF_vars(ChannelDropped)

FairSpec == Spec /\ Fairness

-----------------------------------------------------------------------------
(* Properties.                                                             *)

IngressTypeOK ==
    /\ at \in [Chunk -> Stage]
    /\ reply \in [Chunk -> {"none", "Ok", "Full", "Closed"}]
    /\ freeBytes \in 0 .. MaxBytes /\ pendingBytes \in Nat /\ freeSlots \in 0 .. MaxChunks
    /\ lane \in Seq(Chunk)
    /\ bytesClosed \in BOOLEAN /\ cancelled \in BOOLEAN /\ lanesClosed \in BOOLEAN
    /\ control \in {"none", "offered", "sending", "queued", "taken", "refused", "dropped"}
    /\ senders \subseteq {"worker", "owner", "closer"}
    /\ transport \in Transports
    /\ worker \in {"select", "trying", "blocked", "message", "trail", "trailing", "abort",
                   "cancel", "close", "control", "finish", "dropping", "await", "done"}
    /\ read \in 0 .. MaxRead /\ pending \in 0 .. MaxRead
    /\ owner \in {"live", "stopping", "marked", "closed", "aborted", "dropped"}
    /\ parser \in {"top", "recv", "controls", "data", "parse", "release", "drained", "abort",
                   "cancel", "close", "drain", "ended"}
    /\ guard \in 0 .. MaxRead
    /\ closing \in BOOLEAN /\ leaving \in BOOLEAN
    /\ completion \in {"Running", "Drained", "Aborted"}
    /\ parsed \in Seq(Chunk)

(* The counter that drives the parser's decision to end, and the metrics,  *)
(* never goes beyond the budget or below zero, although it is changed      *)
(* apart from the permits: bytes counted and bytes free never add up to    *)
(* more than there are.                                                    *)
WithinBudget == pendingBytes >= 0 /\ pendingBytes + freeBytes <= MaxBytes

(* The terminal is given the chunks in the order in which they were read,  *)
(* and none that a send accepted is skipped for a later one.               *)
ParsedInOrder ==
    \A i \in DOMAIN parsed :
        /\ \A j \in 1 .. i - 1 : parsed[j] < parsed[i]
        /\ \A c \in 1 .. parsed[i] : Accepted(c) => \E j \in 1 .. i : parsed[j] = c

(* The output is reported drained only after every chunk that a send       *)
(* accepted went through the parser, although SourceClosed overtakes them. *)
DrainedMeansParsed ==
    completion = "Drained" => \A c \in Chunk : Accepted(c) => \E i \in DOMAIN parsed : parsed[i] = c

(* A stopped connection ends: the worker leaves its select or its blocking *)
(* send, the parser leaves its recv, and every byte is given back, the     *)
(* ones sent after the receiver drained its lanes included.                *)
StopReleasesAll ==
    (owner # "live") ~> /\ worker = "done" /\ parser = "ended"
                        /\ pendingBytes = 0 /\ freeBytes = MaxBytes /\ lane = << >>

(* An SSH or serial source that ends by itself ends the parser too.        *)
SourceEndsParser ==
    (transport # "telnet" /\ worker \in {"await", "done"}) ~> (parser = "ended")

=============================================================================
