---------------------------- MODULE ExecSupervisor ----------------------------
(***************************************************************************)
(* The supervisor of the commands that agents run in a visible terminal    *)
(* (crates/terminal/src/exec_supervisor): what it believes of the shell,   *)
(* the one operation it follows, and what each call makes of them.  It is  *)
(* a value; the thread that owns it applies the effects it returns.        *)
(***************************************************************************)
EXTENDS Naturals

CONSTANTS
    Op,       \* the operations; each is one exec call with its own id
    NoOp,     \* no operation
    Request   \* what each operation asks for

ASSUME OpAssumption == NoOp \notin Op

(* submit: press Enter; wait: follow the command until its output ends;    *)
(* patient: a positive ready_timeout.                                      *)
ASSUME RequestAssumption ==
    Request \in [Op -> [submit : BOOLEAN, wait : BOOLEAN, patient : BOOLEAN]]

Readiness == {"Initializing", "PromptRendering", "Ready", "ClearingInput",
              "SubmissionPending", "CommandRunning", "AwaitingPrompt", "Unknown",
              "Disconnected"}
Phase == {"WaitingForReady", "ClearingInput", "Observing"}

(* Errors that tell the caller that nothing of its command was written.    *)
Refusal == {"Busy", "ReadinessUnknown", "ReadyTimeout", "ConcurrentUserInput",
            "CancelledBeforeSubmit", "ClearInputTimeout"}
Completion == {"ObservedOutput", "ShellIntegrationExit", "SubmittedOnly", "TimedOut"}
Answer == Refusal \cup Completion \cup {"Disconnected", "Cancelled"}

(* An operation is told apart by its id; idle stands for no operation.     *)
Exec(op, phase) ==
    [op |-> op, phase |-> phase, started |-> FALSE, detached |-> FALSE, timedOut |-> FALSE]
Idle == Exec(NoOp, "Observing")
Supervisor ==
    [readiness : Readiness, dirty : BOOLEAN,
     active : [op : Op \cup {NoOp}, phase : Phase, started : BOOLEAN,
               detached : BOOLEAN, timedOut : BOOLEAN]]

NewSupervisor == [readiness |-> "Initializing", dirty |-> FALSE, active |-> Idle]

HasExec(s) == s.active.op # NoOp
InPhase(s, phase) == HasExec(s) /\ s.active.phase = phase

(* What a call returns: the supervisor and its effects.  None of the calls *)
(* has more than one effect of a kind; a write comes before the others.    *)
(* final: the operation whose observer is told the last progress.          *)
Nothing == [kind |-> "nothing", op |-> NoOp]
CtrlC(op) == [kind |-> "ctrl-c", op |-> op]
Text(op) == [kind |-> "text", op |-> op]
Line(op) == [kind |-> "line", op |-> op]

Outcome(s) ==
    [sup |-> s, write |-> Nothing, arm |-> [op |-> NoOp, phase |-> "Observing"],
     answer |-> [op |-> NoOp, what |-> "Busy"], final |-> NoOp]

Fails(s, op, error) == [Outcome(s) EXCEPT !.answer = [op |-> op, what |-> error]]

(* Mutant: only what waits to be submitted is given a timer.               *)
ArmsBeforeSubmit(out, op, phase) ==
    IF phase = "Observing" THEN out ELSE [out EXCEPT !.arm = [op |-> op, phase |-> phase]]

Arms(out, op, phase) == [out EXCEPT !.arm = [op |-> op, phase |-> phase]]

(* The end of an operation; nobody is told of a detached one.              *)
Completes(s, completion) ==
    LET ended == [s EXCEPT !.active = Idle]
    IN  IF s.active.detached
        THEN Outcome(ended)
        ELSE [Outcome(ended) EXCEPT !.answer = [op |-> s.active.op, what |-> completion],
                                    !.final = s.active.op]

-----------------------------------------------------------------------------
(* Starting an operation                                                   *)

(* submit_active: the command is written; without Enter it stays on the    *)
(* line, without waiting nobody follows it.                                *)
Submits(s, op) ==
    LET submit  == Request[op].submit
        follows == submit /\ Request[op].wait
        sent == [readiness |-> IF submit THEN "SubmissionPending" ELSE s.readiness,
                 dirty |-> ~submit,
                 active |-> IF follows THEN Exec(op, "Observing") ELSE Idle]
        written == [Outcome(sent) EXCEPT !.write = IF submit THEN Line(op) ELSE Text(op)]
    IN  IF follows
        THEN Arms(written, op, "Observing")
        ELSE [written EXCEPT !.answer = [op |-> op, what |-> "SubmittedOnly"]]

(* Unsubmitted input on the line is cleared with Ctrl+C first.             *)
Clears(s, op) ==
    LET clearing == [s EXCEPT !.active = Exec(op, "ClearingInput"), !.readiness = "ClearingInput"]
    IN  Arms([Outcome(clearing) EXCEPT !.write = CtrlC(op)], op, "ClearingInput")

WaitsForReady(s, op) ==
    Arms(Outcome([s EXCEPT !.active = Exec(op, "WaitingForReady")]), op, "WaitingForReady")

Start(s, op) ==
    CASE HasExec(s) -> Fails(s, op, "Busy")
      [] ~HasExec(s) /\ s.readiness = "Ready" ->
            IF s.dirty THEN Clears(s, op) ELSE Submits(s, op)
      [] ~HasExec(s) /\ s.readiness = "Disconnected" -> Fails(s, op, "Disconnected")
      [] ~HasExec(s) /\ s.readiness = "Unknown" -> Fails(s, op, "ReadinessUnknown")
      [] OTHER ->
            IF Request[op].patient THEN WaitsForReady(s, op) ELSE Fails(s, op, "Busy")

-----------------------------------------------------------------------------
(* What the user types, and whether an interrupt may be sent               *)

(* on_input, for input of the user or another tab's handle.                *)
Input(s, enter) ==
    CASE InPhase(s, "WaitingForReady") ->
            Fails([s EXCEPT !.active = Idle], s.active.op, "ConcurrentUserInput")
      [] InPhase(s, "ClearingInput") ->
            Fails([s EXCEPT !.active = Idle, !.readiness = "PromptRendering"],
                  s.active.op, "ConcurrentUserInput")
      [] OTHER ->
            Outcome(IF s.readiness # "Ready" THEN s
                    ELSE IF enter THEN [s EXCEPT !.dirty = FALSE, !.readiness = "SubmissionPending"]
                    ELSE [s EXCEPT !.dirty = TRUE])

(* interrupt_foreground: only what is being run may be interrupted.        *)
MayInterrupt(s) ==
    ~InPhase(s, "WaitingForReady") /\ s.readiness \in {"SubmissionPending", "CommandRunning"}

-----------------------------------------------------------------------------
(* What the shell's markers say                                            *)

PromptStart(s) ==
    Outcome(IF InPhase(s, "ClearingInput") THEN s ELSE [s EXCEPT !.readiness = "PromptRendering"])

(* A prompt is complete: what waited for it is submitted, what was being   *)
(* followed has ended - if it had begun, or a whole prompt was printed.    *)
InputStart(s) ==
    LET ready == [s EXCEPT !.dirty = FALSE, !.readiness = "Ready"]
    IN  CASE InPhase(s, "ClearingInput") \/ InPhase(s, "WaitingForReady") ->
                Submits(ready, s.active.op)
          [] InPhase(s, "Observing")
             /\ (s.active.started \/ s.readiness = "PromptRendering") ->
                Completes(ready, "ObservedOutput")
          [] OTHER -> Outcome(ready)

CommandStart(s) ==
    Outcome(CASE InPhase(s, "Observing") ->
                    [s EXCEPT !.active = [s.active EXCEPT !.started = TRUE],
                              !.readiness = "CommandRunning"]
              [] ~InPhase(s, "Observing") /\ s.readiness = "SubmissionPending" ->
                    [s EXCEPT !.readiness = "CommandRunning"]
              [] OTHER -> s)

(* A marker of the command before is late and not the operation's.         *)
CommandFinished(s) ==
    CASE InPhase(s, "Observing") /\ ~s.active.started -> Outcome(s)
      [] InPhase(s, "Observing") /\ s.active.started ->
            Completes([s EXCEPT !.readiness = "AwaitingPrompt"], "ShellIntegrationExit")
      [] OTHER ->
            Outcome(IF s.readiness \in {"CommandRunning", "SubmissionPending"}
                    THEN [s EXCEPT !.readiness = "AwaitingPrompt"] ELSE s)

(* on_osc                                                                  *)
Marked(s, marker) ==
    CASE marker = "PromptStart" -> PromptStart(s)
      [] marker = "InputStart" -> InputStart(s)
      [] marker = "CommandStart" -> CommandStart(s)
      [] marker = "CommandFinished" -> CommandFinished(s)

-----------------------------------------------------------------------------
(* Cancellation, timers, the end of the terminal                           *)

(* Mutant: whatever its phase, the operation goes on unwatched.            *)
CancelDetaches(s, op) ==
    Outcome(IF s.active.op = op
            THEN [s EXCEPT !.active = [s.active EXCEPT !.detached = TRUE]] ELSE s)

(* A command that was submitted is let run, unwatched.                     *)
Cancel(s, op) ==
    CASE s.active.op # op -> Outcome(s)
      [] s.active.op = op /\ s.active.phase = "WaitingForReady" ->
            Fails([s EXCEPT !.active = Idle], op, "CancelledBeforeSubmit")
      [] s.active.op = op /\ s.active.phase = "ClearingInput" ->
            Fails([s EXCEPT !.active = Idle, !.readiness = "PromptRendering"],
                  op, "CancelledBeforeSubmit")
      [] s.active.op = op /\ s.active.phase = "Observing" ->
            Outcome([s EXCEPT !.active = [s.active EXCEPT !.detached = TRUE]])

(* Mutant: the timer of an earlier phase is taken for one of this.         *)
TimeoutAnyPhase(s, op, phase) ==
    CASE s.active.op # op -> Outcome(s)
      [] s.active.op = op /\ phase = "WaitingForReady" ->
            Fails([s EXCEPT !.active = Idle], op, "ReadyTimeout")
      [] s.active.op = op /\ phase = "ClearingInput" ->
            Fails([s EXCEPT !.active = Idle, !.readiness = "Unknown"], op, "ClearInputTimeout")
      [] s.active.op = op /\ phase = "Observing" ->
            [Outcome([s EXCEPT !.active = [s.active EXCEPT !.timedOut = TRUE]])
                EXCEPT !.answer = [op |-> op, what |-> "TimedOut"]]

(* A command whose output takes too long keeps being followed after its    *)
(* caller was answered.                                                    *)
Timeout(s, op, phase) ==
    CASE s.active.op # op \/ s.active.phase # phase -> Outcome(s)
      [] s.active.op = op /\ s.active.phase = phase /\ phase = "WaitingForReady" ->
            Fails([s EXCEPT !.active = Idle], op, "ReadyTimeout")
      [] s.active.op = op /\ s.active.phase = phase /\ phase = "ClearingInput" ->
            Fails([s EXCEPT !.active = Idle, !.readiness = "Unknown"], op, "ClearInputTimeout")
      [] s.active.op = op /\ s.active.phase = phase /\ phase = "Observing" ->
            IF s.active.detached \/ s.active.timedOut
            THEN Outcome(s)
            ELSE [Outcome([s EXCEPT !.active = [s.active EXCEPT !.timedOut = TRUE]])
                    EXCEPT !.answer = [op |-> op, what |-> "TimedOut"]]

(* Mutant: the observer of a command that timed out is not told.           *)
DisconnectQuietly(s) ==
    LET gone == [s EXCEPT !.readiness = "Disconnected", !.active = Idle]
    IN  IF ~HasExec(s) \/ s.active.detached \/ s.active.timedOut THEN Outcome(gone)
        ELSE Fails(gone, s.active.op, "Disconnected")

(* disconnect: a caller that was answered is not answered again, but its   *)
(* entry must end.                                                         *)
Disconnect(s) ==
    LET gone == [s EXCEPT !.readiness = "Disconnected", !.active = Idle]
    IN  CASE ~HasExec(s) \/ s.active.detached -> Outcome(gone)
          [] HasExec(s) /\ ~s.active.detached /\ s.active.timedOut ->
                [Outcome(gone) EXCEPT !.final = s.active.op]
          [] HasExec(s) /\ ~s.active.detached /\ ~s.active.timedOut ->
                Fails(gone, s.active.op, "Disconnected")
=============================================================================
