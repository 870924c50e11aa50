---------------------------- MODULE LocalTerminal ----------------------------
(***************************************************************************)
(* A local terminal whose commands are supervised                          *)
(* (crates/terminal/src/pty_backend.rs): one thread owns the supervisor    *)
(* and takes what the user types, what agents ask, the shell's markers and *)
(* the timers out of one queue.  Beside it the callers, whose calls may be *)
(* cancelled at any time, the entries in which their commands are tracked  *)
(* (crates/terminal_view/src/public_mcp.rs), and the shell.                *)
(*                                                                         *)
(* The shell is not code of the repository: it reads lines, runs one after *)
(* the other, and prints the markers that the integration script makes it  *)
(* print (shell_integration.sh; the Windows scripts print fewer).          *)
(***************************************************************************)
EXTENDS ExecSupervisor, Sequences

CONSTANTS
    Shells,       \* the kinds of shell: "posix", "windows"
    NoCommand,    \* the shell is at its prompt
    User,         \* a command the user runs
    MaxInputs,    \* bound, for each shell, on the inputs of the user and the
                  \* interrupts of agents
    MaxQueued     \* bound on the queue for the shell's markers

ASSUME LocalBoundAssumption ==
    /\ MaxInputs \in [Shells -> Nat] /\ MaxQueued \in Nat
    /\ User \notin Op /\ NoCommand \notin Op /\ User # NoCommand

VARIABLES
    sup,        \* the supervisor
    thread,     \* its thread: "running", "leaving" its loop, or "gone"
    queue,      \* the thread's commands, oldest first
    results,    \* the operations whose answer the thread still owes
    timers,     \* the timers that sleep
    reply,      \* what was sent to the callers that still listen
    call,       \* each call: "idle", "awaiting", "returned"
    answer,     \* what each call returned
    entry,      \* the entry a command is tracked in
    written,    \* the operations whose command was written
    tty,        \* what was written and the shell has not read
    loop,       \* the terminal's event loop: "open", "exited", "closed"
    shell,      \* the kind of shell
    running,    \* what the shell runs
    inputs      \* how much the user typed and agents interrupted

threadVars == << sup, thread, results, timers >>
callerVars == << call, answer >>
shellVars == << shell, running >>
vars == << threadVars, queue, reply, callerVars, entry, written, tty, loop, shellVars, inputs >>

Pending == "pending"

(* The first prompt is printed once the start-up files have run.           *)
Init ==
    /\ sup = NewSupervisor
    /\ thread = "running"
    /\ queue = << >>
    /\ results = {} /\ timers = {}
    /\ reply = [op \in Op |-> Pending]
    /\ call = [op \in Op |-> "idle"]
    /\ answer = [op \in Op |-> Pending]
    /\ entry = [op \in Op |-> "none"]
    /\ written = {}
    /\ tty = << >>
    /\ loop = "open"
    /\ shell \in Shells
    /\ running = User
    /\ inputs = 0

Message(kind, op, what) == [kind |-> kind, op |-> op, what |-> what]
Send(message) == queue' = IF thread = "gone" THEN queue ELSE Append(queue, message)

-----------------------------------------------------------------------------
(* The thread: run_local_exec_supervisor                                   *)

Opens == loop # "closed"
Writes(data) == SelectSeq(data, LAMBDA d : d # Nothing)

(* The observer of a command that is followed ends its entry.              *)
EntryEnds(op) ==
    entry' = IF op = NoOp THEN entry
             ELSE [entry EXCEPT ![op] = IF @ = "running" THEN "ended" ELSE @]

(* apply_local_exec_effects, then the user's own input.  Answers go to     *)
(* those that are owed one and still listen; a write that fails ends the   *)
(* loop, and with it the effects that come after it.                       *)
Apply(out, data, owed) ==
    LET applied == Opens \/ out.write = Nothing
        op      == out.answer.op
        put     == Writes(<< out.write, data >>)
    IN  /\ sup' = out.sup
        /\ EntryEnds(out.final)
        /\ tty' = IF Opens THEN tty \o put ELSE tty
        /\ written' = IF Opens /\ out.write.kind \in {"text", "line"}
                      THEN written \cup {out.write.op} ELSE written
        /\ timers' = IF applied /\ out.arm.op # NoOp THEN timers \cup {out.arm} ELSE timers
        /\ results' = IF applied THEN owed \ {op} ELSE owed
        /\ reply' = IF applied /\ op \in owed /\ call[op] = "awaiting"
                    THEN [reply EXCEPT ![op] = out.answer.what] ELSE reply
        /\ thread' = IF Opens \/ put = << >> THEN thread ELSE "leaving"

ThreadUnchanged == UNCHANGED << callerVars, loop, shellVars >>

(* Takes the oldest command of the queue.                                  *)
Takes(kind) ==
    /\ thread = "running"
    /\ queue # << >> /\ Head(queue).kind = kind
    /\ queue' = Tail(queue)
    /\ UNCHANGED inputs /\ ThreadUnchanged

HandleStart ==
    /\ Takes("StartExec")
    /\ Apply(Start(sup, Head(queue).op), Nothing, results \cup {Head(queue).op})

HandleCancel ==
    /\ Takes("CancelExec")
    /\ Apply(Cancel(sup, Head(queue).op), Nothing, results \ {Head(queue).op})

HandleTimeout ==
    /\ Takes("ExecTimeout")
    /\ Apply(Timeout(sup, Head(queue).op, Head(queue).what), Nothing, results)

HandleChunk ==
    /\ Takes("TerminalChunk")
    /\ Apply(Marked(sup, Head(queue).what), Nothing, results)

(* The user types and agents interrupt whenever they like, so their place  *)
(* in the queue is as free as their time: they are taken at once.          *)
TakesInput ==
    /\ thread = "running"
    /\ inputs < MaxInputs[shell] /\ inputs' = inputs + 1
    /\ UNCHANGED queue /\ ThreadUnchanged

HandleWrite ==
    /\ TakesInput
    /\ \E enter \in BOOLEAN :
            Apply(Input(sup, enter), IF enter THEN Line(User) ELSE Text(User), results)

HandleInterrupt ==
    /\ TakesInput
    /\ Apply(Outcome(sup), IF MayInterrupt(sup) THEN CtrlC(NoOp) ELSE Nothing, results)

Breaks ==
    /\ thread = "running" /\ thread' = "leaving"
    /\ UNCHANGED << sup, queue, results, timers, reply, entry, written, tty, inputs >>
    /\ ThreadUnchanged

(* The tab may be closed at any time.                                      *)
HandleShutdown == Breaks

(* The loop says that it exits behind the chunks it has sent.              *)
HandleDisconnect ==
    /\ loop # "open" /\ \A i \in DOMAIN queue : queue[i].kind # "TerminalChunk"
    /\ Breaks

(* After the loop: whoever is owed an answer, and whoever is still in the  *)
(* queue that is dropped, learns that the terminal is gone; timers that    *)
(* fire later reach nobody.                                                *)
Leave ==
    /\ thread = "leaving"
    /\ LET out == Disconnect(sup)
           queued == {queue[i].op : i \in {j \in DOMAIN queue : queue[j].kind = "StartExec"}}
       IN  /\ sup' = out.sup
           /\ EntryEnds(out.final)
           /\ reply' = [op \in Op |-> IF op \in results \cup queued /\ call[op] = "awaiting"
                                      THEN "Disconnected" ELSE reply[op]]
    /\ results' = {} /\ timers' = {} /\ queue' = << >> /\ thread' = "gone"
    /\ UNCHANGED << written, tty, inputs >> /\ ThreadUnchanged

(* The thread of a timer wakes up.                                         *)
TimerFires(t) ==
    /\ t \in timers
    /\ timers' = timers \ {t}
    /\ Send(Message("ExecTimeout", t.op, t.phase))
    /\ UNCHANGED << sup, thread, results, reply, callerVars, entry, written, tty, loop,
                    shellVars, inputs >>

-----------------------------------------------------------------------------
(* The callers.  One that is cancelled before it sends, or finds the       *)
(* thread gone, returns at once and leaves nothing behind.                 *)

CallUnchanged == UNCHANGED << threadVars, written, tty, loop, shellVars, inputs >>

Tracked(op) == Request[op].submit /\ Request[op].wait

(* exec: the entry is there before the request is sent.                    *)
CallExec(op) ==
    /\ call[op] = "idle" /\ thread # "gone"
    /\ call' = [call EXCEPT ![op] = "awaiting"]
    /\ entry' = [entry EXCEPT ![op] = IF Tracked(op) THEN "running" ELSE "none"]
    /\ Send(Message("StartExec", op, "none"))
    /\ UNCHANGED << answer, reply >> /\ CallUnchanged

(* The entry of a command that failed is removed, that of one whose output *)
(* takes too long is left to its observer.                                 *)
Returns(op, what) ==
    /\ call[op] = "awaiting"
    /\ call' = [call EXCEPT ![op] = "returned"]
    /\ answer' = [answer EXCEPT ![op] = what]
    /\ reply' = [reply EXCEPT ![op] = Pending]
    /\ entry' = [entry EXCEPT ![op] =
                    CASE ~Tracked(op) \/ what = "TimedOut" -> @
                      [] Tracked(op) /\ what \in Completion \ {"TimedOut"} -> "ended"
                      [] OTHER -> "removed"]
    /\ CallUnchanged

CallReturns(op) ==
    /\ reply[op] # Pending
    /\ Returns(op, reply[op])
    /\ UNCHANGED queue

(* Cancellation is looked at first, so it wins over an answer in hand.     *)
CallCancelled(op) ==
    /\ Returns(op, "Cancelled")
    /\ Send(Message("CancelExec", op, "none"))

-----------------------------------------------------------------------------
(* The event loop ends with the shell; what is sent to it before it is     *)
(* dropped is accepted and lost.                                           *)
LoopEnds ==
    /\ thread # "gone"
    /\ \/ loop = "open" /\ loop' = "exited"
       \/ loop = "exited" /\ loop' = "closed"
    /\ UNCHANGED << threadVars, queue, reply, callerVars, entry, written, tty, shellVars, inputs >>

-----------------------------------------------------------------------------
(* The shell, for as long as somebody listens to it                        *)

ShellActs ==
    /\ loop = "open" /\ thread # "gone"
    /\ UNCHANGED << threadVars, reply, callerVars, entry, written, loop, shell, inputs >>

(* The reader sends each chunk of output that holds markers.               *)
Prints(markers) ==
    /\ Len(queue) < MaxQueued
    /\ queue' = queue \o [i \in DOMAIN markers |-> Message("TerminalChunk", NoOp, markers[i])]

Prompt == IF shell = "posix" THEN << "CommandFinished", "PromptStart", "InputStart" >>
          ELSE << "PromptStart", "InputStart" >>
Preexec == IF shell = "posix" THEN << "CommandStart" >> ELSE << >>

CommandEnds ==
    /\ ShellActs
    /\ running # NoCommand /\ running' = NoCommand
    /\ Prints(Prompt)
    /\ UNCHANGED tty

(* What is typed while a command runs is read by the command, or later by  *)
(* the shell; Ctrl+C ends the command.                                     *)
CommandReads ==
    /\ ShellActs
    /\ running # NoCommand /\ tty # << >>
    /\ tty' = Tail(tty)
    /\ \/ Head(tty).kind = "ctrl-c" /\ running' = NoCommand /\ Prints(Prompt)
       \/ Head(tty).kind # "ctrl-c" /\ UNCHANGED << running, queue >>

ShellReads ==
    /\ ShellActs
    /\ running = NoCommand /\ tty # << >>
    /\ tty' = Tail(tty)
    /\ \/ Head(tty).kind = "line" /\ running' = Head(tty).op /\ Prints(Preexec)
       \/ Head(tty).kind = "ctrl-c" /\ UNCHANGED running /\ Prints(Prompt)
       \/ Head(tty).kind = "text" /\ UNCHANGED << running, queue >>

-----------------------------------------------------------------------------
Supervise ==
    \/ HandleStart \/ HandleCancel \/ HandleTimeout \/ HandleChunk
    \/ HandleDisconnect \/ Leave

Next ==
    \/ Supervise
    \/ HandleWrite \/ HandleInterrupt \/ HandleShutdown
    \/ \E t \in timers : TimerFires(t)
    \/ \E op \in Op : CallExec(op) \/ CallReturns(op) \/ CallCancelled(op)
    \/ LoopEnds
    \/ CommandEnds \/ CommandReads \/ ShellReads

Spec == Init /\ [][Next]_vars

(* The thread and the timers are scheduled by the operating system, the    *)
(* callers by their runtime.  Nothing is assumed of user and shell.        *)
Fairness ==
    /\ WF_vars(Supervise)
    /\ WF_vars(\E t \in timers : TimerFires(t))
    /\ WF_vars(\E op \in Op : CallReturns(op))

FairSpec == Spec /\ Fairness

-----------------------------------------------------------------------------
TypeOK ==
    /\ sup \in Supervisor /\ thread \in {"running", "leaving", "gone"}
    /\ results \subseteq Op /\ timers \subseteq [op : Op, phase : Phase]
    /\ reply \in [Op -> Answer \cup {Pending}] /\ answer \in [Op -> Answer \cup {Pending}]
    /\ call \in [Op -> {"idle", "awaiting", "returned"}]
    /\ entry \in [Op -> {"none", "running", "ended", "removed"}]
    /\ written \subseteq Op

(* A caller that is told that it was refused - the terminal was busy, not  *)
(* ready in time, the user typed, the line was not cleared - may send its  *)
(* command again elsewhere: nothing of it was written.  A late timer of an *)
(* earlier phase could otherwise refuse a command that is being run        *)
(* (supervisor's timeout and on_input).                                    *)
RefusedNotWritten == \A op \in Op : answer[op] \in Refusal => op \notin written

QueuedFor(op, kind) == \E i \in DOMAIN queue : queue[i].kind = kind /\ queue[i].op = op

(* Once the thread has taken a cancellation, a command that was not yet    *)
(* written never is: not at the next prompt, not when the line is cleared  *)
(* (supervisor's cancel).                                                  *)
CancelledStaysUnwritten ==
    [][\A op \in Op :
        op \in written' \ written =>
            answer[op] # "Cancelled" \/ QueuedFor(op, "CancelExec")]_vars

(* The entry of a command whose output took too long says "running" only   *)
(* while somebody will end it: an agent that polls it is not left waiting  *)
(* by the end of the command or of the terminal (timeout and disconnect of *)
(* the supervisor, apply_terminal_progress).                               *)
TimedOutStillFollowed ==
    \A op \in Op :
        answer[op] = "TimedOut" /\ entry[op] = "running" =>
            sup.active.op = op /\ sup.active.timedOut /\ ~sup.active.detached

(* Every exec call returns: refused, by the end of its command, by one of  *)
(* its timers, or by the end of the terminal, also when a write fails half *)
(* way through the effects (apply_local_exec_effects).                     *)
EveryExecReturns == []<>(\A op \in Op : call[op] # "awaiting")

=============================================================================
