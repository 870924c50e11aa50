-------------------------- MODULE LocalTerminalProofs --------------------------
(***************************************************************************)
(* Theorems about the local terminal, for every set of operations, every   *)
(* request each of them makes, both kinds of shell and all bounds.         *)
(*                                                                         *)
(* TermInv follows an operation from its call to its end: where its        *)
(* request is (in the queue, with the supervisor, answered), what may be   *)
(* said of it there, and what its caller may have been told.               *)
(***************************************************************************)
EXTENDS LocalTerminal, SequenceTheorems, TLAPS

Marker == {"PromptStart", "InputStart", "CommandStart", "CommandFinished"}

(* The queue's messages, by kind.                                          *)
ThreadMessage ==
    [kind : {"StartExec", "CancelExec"}, op : Op, what : {"none"}]
        \cup [kind : {"ExecTimeout"}, op : Op, what : Phase]
        \cup [kind : {"TerminalChunk"}, op : {NoOp}, what : Marker]

(* No answer of the thread is "Cancelled": only the caller's own           *)
(* cancellation returns that.                                              *)
TermTypeInv ==
    /\ TypeOK
    /\ queue \in Seq(ThreadMessage)
    /\ reply \in [Op -> (Answer \ {"Cancelled"}) \cup {Pending}]

Holds(op) == sup.active.op = op

Unsubmitted == {"WaitingForReady", "ClearingInput"}
Unsent(s, op) == s.active.op = op /\ s.active.phase \in Unsubmitted
Overdue(s, op) ==
    /\ s.active.op = op /\ s.active.phase = "Observing"
    /\ s.active.timedOut /\ ~s.active.detached

(* Where a call stands: one that has not begun has left no trace, only one *)
(* that listens is sent an answer, and only one that returned has any.     *)
CallInv ==
    \A op \in Op :
        /\ call[op] = "idle" =>
               op \notin written /\ ~Holds(op) /\ ~QueuedFor(op, "StartExec")
        /\ reply[op] # Pending => call[op] = "awaiting"
        /\ answer[op] # Pending => call[op] = "returned"
        /\ QueuedFor(op, "CancelExec") => answer[op] = "Cancelled"

(* Until a request is taken from the queue nothing was done for it.        *)
RequestInv ==
    \A op \in Op : QueuedFor(op, "StartExec") => op \notin written /\ ~Holds(op)

IsRequest(i) == queue[i].kind = "StartExec"

(* A request is in the queue once at most.                                 *)
OnceInv ==
    \A i, j \in DOMAIN queue :
        IsRequest(i) /\ IsRequest(j) /\ queue[i].op = queue[j].op => i = j

(* What waits for the prompt was not written; neither was what a caller    *)
(* was told is refused, and nobody will write it any more.                 *)
UnwrittenInv ==
    \A op \in Op :
        /\ Unsent(sup, op) => op \notin written
        /\ reply[op] \in Refusal \/ answer[op] \in Refusal =>
               op \notin written /\ ~Holds(op) /\ ~QueuedFor(op, "StartExec")

(* Its cancellation is on the way to a cancelled request that waits with   *)
(* the supervisor, and behind one that is still in the queue.              *)
CancelInv ==
    \A op \in Op : answer[op] = "Cancelled" /\ Unsent(sup, op) => QueuedFor(op, "CancelExec")

BehindInv ==
    \A i \in DOMAIN queue :
        IsRequest(i) /\ answer[queue[i].op] = "Cancelled" =>
            \E j \in DOMAIN queue :
                j > i /\ queue[j].kind = "CancelExec" /\ queue[j].op = queue[i].op

(* A thread that is gone follows nothing and has nothing queued.           *)
GoneInv == thread = "gone" => queue = << >> /\ sup.active = Idle

(* A command whose output took too long is followed until its entry ends,  *)
(* from when the answer is sent.                                           *)
FollowedInv ==
    \A op \in Op :
        (reply[op] = "TimedOut" \/ answer[op] = "TimedOut") /\ entry[op] = "running" =>
            Overdue(sup, op)

TermInv ==
    /\ TermTypeInv /\ CallInv /\ RequestInv /\ OnceInv /\ UnwrittenInv /\ CancelInv
    /\ BehindInv /\ GoneInv /\ FollowedInv

-----------------------------------------------------------------------------
(* What the supervisor's calls do, as far as the operations are concerned  *)

OutcomeType ==
    [sup : Supervisor, write : [kind : {"nothing", "ctrl-c", "text", "line"}, op : Op \cup {NoOp}],
     arm : [op : Op \cup {NoOp}, phase : Phase],
     answer : [op : Op \cup {NoOp}, what : Answer \ {"Cancelled"}], final : Op \cup {NoOp}]

Sends(out, op) == out.write.kind \in {"text", "line"} /\ out.write.op = op

(* From s, a call that starts new (or NoOp) and detaches quit (or NoOp)    *)
(* returns out: it follows only new and what it followed; only new and     *)
(* what waits is written, once, or refused, and then let go; what took too *)
(* long is followed on unless its observer is told the end.                *)
Acts(s, new, quit, out) ==
    /\ out \in OutcomeType
    /\ out.sup.active.op \in {s.active.op, new, NoOp}
    /\ out.write.kind \in {"text", "line"} => out.write.op \in Op
    /\ \A op \in Op :
        /\ Sends(out, op) => (op = new \/ Unsent(s, op)) /\ ~Unsent(out.sup, op)
        /\ Unsent(out.sup, op) => op = new \/ Unsent(s, op)
        /\ out.answer.op = op => op = new \/ s.active.op = op
        /\ out.answer.op = op /\ out.answer.what \in Refusal =>
               (op = new \/ Unsent(s, op)) /\ out.sup.active.op # op /\ ~Sends(out, op)
        /\ out.answer.op = op /\ out.answer.what = "TimedOut" => Overdue(out.sup, op)
        /\ Overdue(s, op) /\ op # quit => Overdue(out.sup, op) \/ out.final = op

LEMMA SupervisorFields ==
    ASSUME NEW s \in Supervisor
    PROVE  /\ s.readiness \in Readiness /\ s.dirty \in BOOLEAN
           /\ s.active \in [op : Op \cup {NoOp}, phase : Phase, started : BOOLEAN,
                            detached : BOOLEAN, timedOut : BOOLEAN]
           /\ s.active.op \in Op \cup {NoOp} /\ s.active.phase \in Phase
           /\ s.active.started \in BOOLEAN /\ s.active.detached \in BOOLEAN
           /\ s.active.timedOut \in BOOLEAN
  BY DEF Supervisor

LEMMA RequestFields ==
    ASSUME NEW op \in Op
    PROVE  /\ Request[op].submit \in BOOLEAN /\ Request[op].wait \in BOOLEAN
           /\ Request[op].patient \in BOOLEAN
  BY RequestAssumption

(* An operation that begins, or that nobody follows.                       *)
LEMMA ExecFields ==
    ASSUME NEW op \in Op \cup {NoOp}, NEW phase \in Phase
    PROVE  /\ Exec(op, phase) \in [op : Op \cup {NoOp}, phase : Phase, started : BOOLEAN,
                                   detached : BOOLEAN, timedOut : BOOLEAN]
           /\ Exec(op, phase).op = op /\ Exec(op, phase).phase = phase
           /\ Exec(op, phase).timedOut = FALSE /\ Exec(op, phase).detached = FALSE
  BY DEF Exec

LEMMA IdleFields ==
    /\ Idle \in [op : Op \cup {NoOp}, phase : Phase, started : BOOLEAN,
                 detached : BOOLEAN, timedOut : BOOLEAN]
    /\ Idle.op = NoOp /\ Idle.phase = "Observing"
  <1>1. NoOp \in Op \cup {NoOp} /\ "Observing" \in Phase
    BY DEF Phase
  <1>2. QED
    BY <1>1, ExecFields DEF Idle

(* The fields of a supervisor after it was changed.                        *)
LEMMA ActiveChanged ==
    ASSUME NEW s \in Supervisor,
           NEW a \in [op : Op \cup {NoOp}, phase : Phase, started : BOOLEAN,
                      detached : BOOLEAN, timedOut : BOOLEAN]
    PROVE  /\ [s EXCEPT !.active = a] \in Supervisor
           /\ [s EXCEPT !.active = a].active = a
  BY DEF Supervisor

LEMMA BothChanged ==
    ASSUME NEW s \in Supervisor, NEW r \in Readiness,
           NEW a \in [op : Op \cup {NoOp}, phase : Phase, started : BOOLEAN,
                      detached : BOOLEAN, timedOut : BOOLEAN]
    PROVE  /\ [s EXCEPT !.active = a, !.readiness = r] \in Supervisor
           /\ [s EXCEPT !.active = a, !.readiness = r].active = a
           /\ [s EXCEPT !.readiness = r, !.active = a] \in Supervisor
           /\ [s EXCEPT !.readiness = r, !.active = a].active = a
  BY DEF Supervisor

LEMMA ReadinessChanged ==
    ASSUME NEW s \in Supervisor, NEW r \in Readiness
    PROVE  /\ [s EXCEPT !.readiness = r] \in Supervisor
           /\ [s EXCEPT !.readiness = r].active = s.active
  BY DEF Supervisor

LEMMA LineChanged ==
    ASSUME NEW s \in Supervisor, NEW r \in Readiness, NEW d \in BOOLEAN
    PROVE  /\ [s EXCEPT !.dirty = d, !.readiness = r] \in Supervisor
           /\ [s EXCEPT !.dirty = d, !.readiness = r].active = s.active
           /\ [s EXCEPT !.dirty = d] \in Supervisor
           /\ [s EXCEPT !.dirty = d].active = s.active
  BY DEF Supervisor

(* A call without effects.                                                 *)
LEMMA OutcomeFields ==
    ASSUME NEW s \in Supervisor
    PROVE  /\ Outcome(s) \in OutcomeType
           /\ Outcome(s).sup = s /\ Outcome(s).write = Nothing /\ Outcome(s).final = NoOp
           /\ Outcome(s).arm.op = NoOp /\ Outcome(s).answer.op = NoOp
           /\ Outcome(s).write.kind = "nothing" /\ Outcome(s).write.op = NoOp
  BY DEF Outcome, OutcomeType, Nothing, Answer, Refusal, Phase

LEMMA FailsFields ==
    ASSUME NEW s \in Supervisor, NEW op \in Op \cup {NoOp}, NEW error \in Answer \ {"Cancelled"}
    PROVE  /\ Fails(s, op, error) \in OutcomeType
           /\ Fails(s, op, error).sup = s /\ Fails(s, op, error).write.kind = "nothing"
           /\ Fails(s, op, error).answer.op = op /\ Fails(s, op, error).answer.what = error
           /\ Fails(s, op, error).final = NoOp
  BY DEF Fails, Outcome, OutcomeType, Nothing, Answer, Refusal, Phase

(* A call whose only effect on operations is on what is followed.          *)
LEMMA KeepsActive ==
    ASSUME NEW s \in Supervisor, NEW t \in Supervisor, NEW new,
           t.active.op = s.active.op, t.active.phase = s.active.phase,
           t.active.detached = s.active.detached, t.active.timedOut = s.active.timedOut
    PROVE  Acts(s, new, NoOp, Outcome(t))
  BY OutcomeFields, OpAssumption DEF Acts, Sends, Unsent, Overdue

LEMMA StopsUnsent ==
    ASSUME NEW s \in Supervisor, NEW t \in Supervisor, NEW error \in Refusal \cup {"Disconnected"},
           NEW op \in Op, Unsent(s, op), t.active = Idle
    PROVE  Acts(s, NoOp, NoOp, Fails(t, op, error))
  <1>1. error \in Answer \ {"Cancelled"}
    BY DEF Answer, Refusal, Completion
  <1>2. error # "TimedOut"
    BY DEF Refusal
  <1>3. Fails(t, op, error) \in OutcomeType /\ Fails(t, op, error).sup = t
        /\ Fails(t, op, error).write.kind = "nothing" /\ Fails(t, op, error).answer.op = op
        /\ Fails(t, op, error).answer.what = error
    BY <1>1, FailsFields
  <1>4. QED
    BY <1>2, <1>3, IdleFields, OpAssumption DEF Acts, Sends, Unsent, Overdue, Unsubmitted
(* A command is written when it is submitted, and then observed.           *)
LEMMA SubmitsActs ==
    ASSUME NEW s \in Supervisor, NEW base \in Supervisor, NEW op \in Op, NEW new \in {op, NoOp},
           (op = new /\ ~HasExec(s)) \/ Unsent(s, op)
    PROVE  Acts(s, new, NoOp, Submits(base, op))
  <1> DEFINE submit == Request[op].submit
             sent == [readiness |-> IF submit THEN "SubmissionPending" ELSE base.readiness,
                      dirty |-> ~submit,
                      active |-> IF submit /\ Request[op].wait
                                 THEN Exec(op, "Observing") ELSE Idle]
             out == Submits(base, op)
  <1>1. submit \in BOOLEAN /\ Request[op].wait \in BOOLEAN
    BY RequestFields
  <1>2. /\ sent \in Supervisor
        /\ sent.active = Exec(op, "Observing") \/ sent.active = Idle
    <2>1. "Observing" \in Phase /\ "SubmissionPending" \in Readiness /\ base.readiness \in Readiness
      BY SupervisorFields DEF Phase, Readiness
    <2>2. sent.active \in [op : Op \cup {NoOp}, phase : Phase, started : BOOLEAN,
                           detached : BOOLEAN, timedOut : BOOLEAN]
      BY <2>1, ExecFields, IdleFields
    <2>3. (~submit) \in BOOLEAN
      BY <1>1
    <2>4. QED
      BY <2>1, <2>2, <2>3 DEF Supervisor
  <1>3. sent.active.op \in {op, NoOp} /\ sent.active.phase = "Observing"
    <2> HIDE DEF sent
    <2>1. Exec(op, "Observing").op = op /\ Exec(op, "Observing").phase = "Observing"
      BY ExecFields DEF Phase
    <2>2. QED
      BY <1>2, <2>1, IdleFields
  <1>4. /\ out.sup = sent /\ out.write \in {Line(op), Text(op)} /\ out.final = NoOp
        /\ out.arm \in [op : Op \cup {NoOp}, phase : Phase]
        /\ \/ out.answer.op = NoOp /\ out.answer = [op |-> NoOp, what |-> "Busy"]
           \/ out.answer = [op |-> op, what |-> "SubmittedOnly"]
        /\ DOMAIN out = {"sup", "write", "arm", "answer", "final"}
        /\ out = [sup |-> out.sup, write |-> out.write, arm |-> out.arm, answer |-> out.answer,
                  final |-> out.final]
    <2> HIDE DEF sent
    <2>1. CASE submit /\ Request[op].wait
      BY <2>1, <1>1 DEF Submits, sent, Outcome, Arms, Line, Text, Phase
    <2>2. CASE submit /\ ~Request[op].wait
      BY <2>2, <1>1 DEF Submits, sent, Outcome, Arms, Line, Text, Phase
    <2>3. CASE ~submit
      BY <2>3, <1>1 DEF Submits, sent, Outcome, Arms, Line, Text, Phase
    <2>4. QED
      BY <1>1, <2>1, <2>2, <2>3
  <1> HIDE DEF sent, out, submit
  <1>5. /\ out.write.kind \in {"text", "line"} /\ out.write.op = op
        /\ out.write \in [kind : {"nothing", "ctrl-c", "text", "line"}, op : Op \cup {NoOp}]
    BY <1>4 DEF Line, Text
  <1>6. /\ out.answer \in [op : Op \cup {NoOp}, what : Answer \ {"Cancelled"}]
        /\ out.answer.op = NoOp \/ (out.answer.op = op /\ out.answer.what = "SubmittedOnly")
    BY <1>4 DEF Answer, Completion, Refusal
  <1>7. out \in OutcomeType
    BY <1>2, <1>4, <1>5, <1>6 DEF OutcomeType
  <1>8. out.sup.active.op \in {op, NoOp} /\ out.sup.active.phase = "Observing"
    BY <1>3, <1>4
  <1>9. \A x \in Op : ~Unsent(out.sup, x)
    BY <1>8 DEF Unsent, Unsubmitted
  <1>10. \A x \in Op : ~Overdue(s, x)
    BY OpAssumption DEF Unsent, Overdue, Unsubmitted, HasExec
  <1>11. out.sup.active.op \in {s.active.op, new, NoOp}
    BY <1>8 DEF Unsent
  <1>12. ASSUME NEW x \in Op
         PROVE  /\ Sends(out, x) => (x = new \/ Unsent(s, x)) /\ ~Unsent(out.sup, x)
                /\ out.answer.op = x => x = new \/ s.active.op = x
                /\ out.answer.op = x => out.answer.what = "SubmittedOnly"
    BY <1>5, <1>6, <1>9, OpAssumption DEF Sends, Unsent
  <1>13. QED
    BY <1>5, <1>7, <1>9, <1>10, <1>11, <1>12 DEF Acts, Refusal, out

(* What waits, or clears the line, was not written.                        *)
LEMMA BeginsActs ==
    ASSUME NEW s \in Supervisor, NEW op \in Op, ~HasExec(s)
    PROVE  /\ Acts(s, op, NoOp, Clears(s, op))
           /\ Acts(s, op, NoOp, WaitsForReady(s, op))
  <1>1. "ClearingInput" \in Phase /\ "WaitingForReady" \in Phase /\ "ClearingInput" \in Readiness
    BY DEF Phase, Readiness
  <1>2. /\ Exec(op, "ClearingInput").op = op /\ Exec(op, "WaitingForReady").op = op
        /\ [s EXCEPT !.active = Exec(op, "WaitingForReady")] \in Supervisor
        /\ [s EXCEPT !.active = Exec(op, "WaitingForReady")].active = Exec(op, "WaitingForReady")
        /\ [s EXCEPT !.active = Exec(op, "ClearingInput"), !.readiness = "ClearingInput"]
                \in Supervisor
        /\ [s EXCEPT !.active = Exec(op, "ClearingInput"), !.readiness = "ClearingInput"].active
                = Exec(op, "ClearingInput")
    <2>1. \A phase \in Phase :
            Exec(op, phase) \in [op : Op \cup {NoOp}, phase : Phase, started : BOOLEAN,
                                 detached : BOOLEAN, timedOut : BOOLEAN]
            /\ Exec(op, phase).op = op
      BY ExecFields
    <2>2. QED
      BY <1>1, <2>1 DEF Supervisor
  <1>3. \A x \in Op : ~Overdue(s, x) /\ ~Unsent(s, x)
    BY OpAssumption DEF Unsent, Overdue, HasExec
  <1> DEFINE clears == Clears(s, op)
             waits == WaitsForReady(s, op)
             next == [s EXCEPT !.active = Exec(op, "ClearingInput"), !.readiness = "ClearingInput"]
             nextw == [s EXCEPT !.active = Exec(op, "WaitingForReady")]
  <1>4. /\ clears = [sup |-> next, write |-> CtrlC(op),
                     arm |-> [op |-> op, phase |-> "ClearingInput"],
                     answer |-> [op |-> NoOp, what |-> "Busy"], final |-> NoOp]
        /\ waits = [sup |-> nextw, write |-> Nothing,
                    arm |-> [op |-> op, phase |-> "WaitingForReady"],
                    answer |-> [op |-> NoOp, what |-> "Busy"], final |-> NoOp]
    <2>1. clears = Arms([Outcome(next) EXCEPT !.write = CtrlC(op)], op, "ClearingInput")
          /\ waits = Arms(Outcome(nextw), op, "WaitingForReady")
      BY DEF Clears, WaitsForReady
    <2> HIDE DEF next, nextw, clears, waits
    <2>2. QED
      BY <2>1 DEF Arms, Outcome
  <1> HIDE DEF next, nextw, clears, waits
  <1>5. clears \in OutcomeType /\ waits \in OutcomeType
    BY <1>1, <1>2, <1>4 DEF OutcomeType, Nothing, CtrlC, Answer, Refusal, next, nextw
  <1>6. /\ clears.sup.active.op = op /\ clears.write.kind = "ctrl-c"
        /\ clears.answer.op = NoOp
        /\ waits.sup.active.op = op /\ waits.write.kind = "nothing"
        /\ waits.answer.op = NoOp
    BY <1>2, <1>4 DEF CtrlC, Nothing, next, nextw
  <1>7. \A x \in Op : (Unsent(clears.sup, x) => x = op) /\ (Unsent(waits.sup, x) => x = op)
    BY <1>6 DEF Unsent
  <1>8. Acts(s, op, NoOp, clears) /\ Acts(s, op, NoOp, waits)
    BY <1>3, <1>5, <1>6, <1>7, OpAssumption DEF Acts, Sends
  <1>9. QED
    BY <1>8 DEF clears, waits

LEMMA StartActs ==
    ASSUME NEW s \in Supervisor, NEW op \in Op, s.active.op # op
    PROVE  Acts(s, op, NoOp, Start(s, op))
  <1>1. ASSUME NEW error \in {"Busy", "Disconnected", "ReadinessUnknown"}
        PROVE  Acts(s, op, NoOp, Fails(s, op, error))
    <2>1. error \in Answer \ {"Cancelled"} /\ error # "TimedOut"
      BY DEF Answer, Refusal, Completion
    <2>2. Fails(s, op, error) \in OutcomeType /\ Fails(s, op, error).sup = s
          /\ Fails(s, op, error).write.kind = "nothing" /\ Fails(s, op, error).answer.op = op
          /\ Fails(s, op, error).answer.what = error
      BY <2>1, FailsFields
    <2>3. QED
      BY <2>1, <2>2, OpAssumption DEF Acts, Sends, Unsent, Overdue
  <1>2. CASE HasExec(s)
    <2>1. Start(s, op) = Fails(s, op, "Busy")
      BY <1>2 DEF Start
    <2>2. QED
      BY <1>1, <2>1
  <1>3. CASE ~HasExec(s)
    <2>1. Start(s, op) \in {Clears(s, op), Submits(s, op), Fails(s, op, "Disconnected"),
                            Fails(s, op, "ReadinessUnknown"), WaitsForReady(s, op),
                            Fails(s, op, "Busy")}
      <3>1. CASE s.readiness = "Ready"
        BY <1>3, <3>1 DEF Start
      <3>2. CASE s.readiness = "Disconnected"
        BY <1>3, <3>2 DEF Start
      <3>3. CASE s.readiness = "Unknown"
        BY <1>3, <3>3 DEF Start
      <3>4. CASE s.readiness \notin {"Ready", "Disconnected", "Unknown"}
        BY <1>3, <3>4 DEF Start
      <3>5. QED
        BY <3>1, <3>2, <3>3, <3>4
    <2>2. Acts(s, op, NoOp, Clears(s, op)) /\ Acts(s, op, NoOp, WaitsForReady(s, op))
      BY <1>3, BeginsActs
    <2>3. Acts(s, op, NoOp, Submits(s, op))
      BY <1>3, SubmitsActs
    <2>4. Acts(s, op, NoOp, Fails(s, op, "Busy")) /\ Acts(s, op, NoOp, Fails(s, op, "Disconnected"))
          /\ Acts(s, op, NoOp, Fails(s, op, "ReadinessUnknown"))
      BY <1>1
    <2>5. QED
      BY <2>1, <2>2, <2>3, <2>4
  <1>4. QED
    BY <1>2, <1>3

LEMMA InputActs ==
    ASSUME NEW s \in Supervisor, NEW enter \in BOOLEAN
    PROVE  Acts(s, NoOp, NoOp, Input(s, enter))
  <1>1. /\ "PromptRendering" \in Readiness /\ "SubmissionPending" \in Readiness
        /\ TRUE \in BOOLEAN /\ FALSE \in BOOLEAN
    BY DEF Readiness
  <1>2. "ConcurrentUserInput" \in Refusal
    BY DEF Refusal
  <1>3. CASE InPhase(s, "WaitingForReady")
    <2>1. Input(s, enter) = Fails([s EXCEPT !.active = Idle], s.active.op, "ConcurrentUserInput")
      BY <1>3 DEF Input, InPhase
    <2>2. [s EXCEPT !.active = Idle] \in Supervisor /\ [s EXCEPT !.active = Idle].active = Idle
      BY IdleFields, ActiveChanged
    <2>3. s.active.op \in Op /\ Unsent(s, s.active.op)
      BY <1>3, SupervisorFields DEF InPhase, HasExec, Unsent, Unsubmitted
    <2>4. QED
      BY <1>2, <2>1, <2>2, <2>3, StopsUnsent
  <1>4. CASE InPhase(s, "ClearingInput")
    <2>1. Input(s, enter) = Fails([s EXCEPT !.active = Idle, !.readiness = "PromptRendering"],
                                  s.active.op, "ConcurrentUserInput")
      BY <1>4 DEF Input, InPhase
    <2>2. /\ [s EXCEPT !.active = Idle, !.readiness = "PromptRendering"] \in Supervisor
          /\ [s EXCEPT !.active = Idle, !.readiness = "PromptRendering"].active = Idle
      BY <1>1, IdleFields DEF Supervisor
    <2>3. s.active.op \in Op /\ Unsent(s, s.active.op)
      BY <1>4, SupervisorFields DEF InPhase, HasExec, Unsent, Unsubmitted
    <2>4. QED
      BY <1>2, <2>1, <2>2, <2>3, StopsUnsent
  <1>5. CASE ~InPhase(s, "WaitingForReady") /\ ~InPhase(s, "ClearingInput")
    <2> DEFINE t == IF s.readiness # "Ready" THEN s
                    ELSE IF enter THEN [s EXCEPT !.dirty = FALSE, !.readiness = "SubmissionPending"]
                    ELSE [s EXCEPT !.dirty = TRUE]
    <2>1. Input(s, enter) = Outcome(t)
      BY <1>5 DEF Input
    <2>2. /\ [s EXCEPT !.dirty = FALSE, !.readiness = "SubmissionPending"] \in Supervisor
          /\ [s EXCEPT !.dirty = FALSE, !.readiness = "SubmissionPending"].active = s.active
          /\ [s EXCEPT !.dirty = TRUE] \in Supervisor
          /\ [s EXCEPT !.dirty = TRUE].active = s.active
      BY <1>1, LineChanged
    <2>3. t \in Supervisor /\ t.active = s.active
      BY <2>2
    <2> HIDE DEF t
    <2>4. QED
      BY <2>1, <2>3, KeepsActive
  <1>6. QED
    BY <1>3, <1>4, <1>5

(* The end of what is followed: its observer is told, unless it left.      *)
LEMMA CompletesActs ==
    ASSUME NEW s \in Supervisor, NEW base \in Supervisor, base.active = s.active, HasExec(s),
           NEW completion \in {"ObservedOutput", "ShellIntegrationExit"},
           s.active.phase = "Observing"
    PROVE  Acts(s, NoOp, NoOp, Completes(base, completion))
  <1> DEFINE ended == [base EXCEPT !.active = Idle]
  <1>1. ended \in Supervisor /\ ended.active = Idle
    BY IdleFields, ActiveChanged
  <1> HIDE DEF ended
  <1>2. s.active.op \in Op /\ s.active.detached \in BOOLEAN
    BY SupervisorFields DEF HasExec
  <1>3. CASE s.active.detached
    <2>1. Completes(base, completion) = Outcome(ended)
      BY <1>3 DEF Completes, ended
    <2>2. \A x \in Op : ~Overdue(s, x)
      BY <1>3 DEF Overdue
    <2>3. QED
      BY <1>1, <2>1, <2>2, OutcomeFields, IdleFields, OpAssumption DEF Acts, Sends, Unsent
  <1>4. CASE ~s.active.detached
    <2> DEFINE out == Completes(base, completion)
    <2>1. out = [Outcome(ended) EXCEPT !.answer = [op |-> s.active.op, what |-> completion],
                                       !.final = s.active.op]
      BY <1>4 DEF Completes, ended
    <2> HIDE DEF out
    <2>2. out = [sup |-> ended, write |-> Nothing, arm |-> [op |-> NoOp, phase |-> "Observing"],
                 answer |-> [op |-> s.active.op, what |-> completion], final |-> s.active.op]
      BY <2>1 DEF Outcome
    <2>3. completion \in Answer \ {"Cancelled"} /\ completion \notin Refusal /\ completion # "TimedOut"
      BY DEF Answer, Completion, Refusal
    <2>4. out \in OutcomeType
      BY <1>1, <1>2, <2>2, <2>3 DEF OutcomeType, Nothing, Phase
    <2>5. /\ out.sup.active.op = NoOp /\ out.write.kind = "nothing" /\ out.final = s.active.op
          /\ out.answer.op = s.active.op /\ out.answer.what = completion
      BY <1>1, <2>2, IdleFields DEF Nothing
    <2>6. Acts(s, NoOp, NoOp, out)
      BY <2>3, <2>4, <2>5, OpAssumption DEF Acts, Sends, Unsent, Overdue
    <2>7. QED
      BY <2>6 DEF out
  <1>5. QED
    BY <1>2, <1>3, <1>4

LEMMA PromptActs ==
    ASSUME NEW s \in Supervisor
    PROVE  /\ Acts(s, NoOp, NoOp, PromptStart(s))
           /\ Acts(s, NoOp, NoOp, InputStart(s))
  <1>1. "PromptRendering" \in Readiness /\ "Ready" \in Readiness /\ FALSE \in BOOLEAN
    BY DEF Readiness
  <1>2. Acts(s, NoOp, NoOp, PromptStart(s))
    <2> DEFINE t == IF InPhase(s, "ClearingInput") THEN s
                    ELSE [s EXCEPT !.readiness = "PromptRendering"]
    <2>1. t \in Supervisor /\ t.active = s.active
      BY <1>1, ReadinessChanged
    <2>2. PromptStart(s) = Outcome(t)
      BY DEF PromptStart
    <2> HIDE DEF t
    <2>3. QED
      BY <2>1, <2>2, KeepsActive
  <1>3. Acts(s, NoOp, NoOp, InputStart(s))
    <2> DEFINE ready == [s EXCEPT !.dirty = FALSE, !.readiness = "Ready"]
    <2>1. ready \in Supervisor /\ ready.active = s.active
      BY <1>1, LineChanged
    <2>2. CASE InPhase(s, "ClearingInput") \/ InPhase(s, "WaitingForReady")
      <3>1. InputStart(s) = Submits(ready, s.active.op)
        BY <2>2 DEF InputStart, InPhase
      <3>2. s.active.op \in Op /\ Unsent(s, s.active.op)
        BY <2>2, SupervisorFields DEF InPhase, HasExec, Unsent, Unsubmitted
      <3> HIDE DEF ready
      <3>3. QED
        BY <2>1, <3>1, <3>2, SubmitsActs
    <2>3. CASE InPhase(s, "Observing") /\ (s.active.started \/ s.readiness = "PromptRendering")
      <3>1. InputStart(s) = Completes(ready, "ObservedOutput")
        BY <2>3 DEF InputStart, InPhase
      <3>2. HasExec(s) /\ s.active.phase = "Observing"
        BY <2>3 DEF InPhase
      <3> HIDE DEF ready
      <3>3. QED
        BY <2>1, <3>1, <3>2, CompletesActs
    <2>4. CASE /\ ~InPhase(s, "ClearingInput") /\ ~InPhase(s, "WaitingForReady")
               /\ ~(InPhase(s, "Observing") /\ (s.active.started \/ s.readiness = "PromptRendering"))
      <3>1. InputStart(s) = Outcome(ready)
        BY <2>4 DEF InputStart
      <3> HIDE DEF ready
      <3>2. QED
        BY <2>1, <3>1, KeepsActive
    <2>5. QED
      BY <2>2, <2>3, <2>4
  <1>4. QED
    BY <1>2, <1>3

LEMMA CommandActs ==
    ASSUME NEW s \in Supervisor
    PROVE  /\ Acts(s, NoOp, NoOp, CommandStart(s))
           /\ Acts(s, NoOp, NoOp, CommandFinished(s))
  <1>1. "CommandRunning" \in Readiness /\ "AwaitingPrompt" \in Readiness
    BY DEF Readiness
  <1>2. Acts(s, NoOp, NoOp, CommandStart(s))
    <2>1. CASE InPhase(s, "Observing")
      <3> DEFINE a == [s.active EXCEPT !.started = TRUE]
                 t == [s EXCEPT !.active = a, !.readiness = "CommandRunning"]
      <3>1. /\ a \in [op : Op \cup {NoOp}, phase : Phase, started : BOOLEAN,
                      detached : BOOLEAN, timedOut : BOOLEAN]
            /\ a.op = s.active.op /\ a.phase = s.active.phase
            /\ a.detached = s.active.detached /\ a.timedOut = s.active.timedOut
        BY SupervisorFields
      <3>2. CommandStart(s) = Outcome(t)
        BY <2>1 DEF CommandStart
      <3> HIDE DEF a
      <3>3. t \in Supervisor /\ t.active = a
        BY <1>1, <3>1 DEF Supervisor
      <3> HIDE DEF t
      <3>4. QED
        BY <3>1, <3>2, <3>3, KeepsActive
    <2>2. CASE ~InPhase(s, "Observing")
      <3> DEFINE t == [s EXCEPT !.readiness = "CommandRunning"]
      <3>1. t \in Supervisor /\ t.active = s.active
        BY <1>1, ReadinessChanged
      <3>2. CommandStart(s) = Outcome(s) \/ CommandStart(s) = Outcome(t)
        BY <2>2 DEF CommandStart
      <3> HIDE DEF t
      <3>3. QED
        BY <3>1, <3>2, KeepsActive
    <2>3. QED
      BY <2>1, <2>2
  <1>3. Acts(s, NoOp, NoOp, CommandFinished(s))
    <2> DEFINE t == [s EXCEPT !.readiness = "AwaitingPrompt"]
    <2>1. t \in Supervisor /\ t.active = s.active
      BY <1>1, ReadinessChanged
    <2>2. CASE InPhase(s, "Observing") /\ s.active.started
      <3>1. CommandFinished(s) = Completes(t, "ShellIntegrationExit")
        BY <2>2 DEF CommandFinished
      <3>2. HasExec(s) /\ s.active.phase = "Observing"
        BY <2>2 DEF InPhase
      <3> HIDE DEF t
      <3>3. QED
        BY <2>1, <3>1, <3>2, CompletesActs
    <2>3. CASE ~(InPhase(s, "Observing") /\ s.active.started)
      <3>1. CommandFinished(s) = Outcome(s) \/ CommandFinished(s) = Outcome(t)
        BY <2>3 DEF CommandFinished
      <3> HIDE DEF t
      <3>2. QED
        BY <2>1, <3>1, KeepsActive
    <2>4. QED
      BY <2>2, <2>3
  <1>4. QED
    BY <1>2, <1>3

LEMMA MarkedActs ==
    ASSUME NEW s \in Supervisor, NEW marker \in Marker
    PROVE  Acts(s, NoOp, NoOp, Marked(s, marker))
  <1>1. Marked(s, marker) \in {PromptStart(s), InputStart(s), CommandStart(s), CommandFinished(s)}
    BY DEF Marker, Marked
  <1>2. QED
    BY <1>1, PromptActs, CommandActs

(* A cancellation of op lets go of what was not written, and detaches the  *)
(* rest; afterwards op waits for nothing.                                  *)
LEMMA CancelActs ==
    ASSUME NEW s \in Supervisor, NEW op \in Op
    PROVE  Acts(s, NoOp, op, Cancel(s, op)) /\ ~Unsent(Cancel(s, op).sup, op)
  <1>1. "PromptRendering" \in Readiness /\ TRUE \in BOOLEAN
    BY DEF Readiness
  <1>2. CASE s.active.op # op
    <2>1. Cancel(s, op) = Outcome(s)
      BY <1>2 DEF Cancel
    <2>2. Cancel(s, op).sup = s
      BY <2>1, OutcomeFields
    <2>3. Acts(s, NoOp, NoOp, Cancel(s, op))
      BY <2>1, KeepsActive
    <2>4. QED
      BY <1>2, <2>2, <2>3 DEF Acts, Unsent, Overdue
  <1>3. CASE s.active.op = op /\ s.active.phase \in Unsubmitted
    <2>1. Unsent(s, op)
      BY <1>3 DEF Unsent
    <2>2. \E t \in {[s EXCEPT !.active = Idle],
                    [s EXCEPT !.active = Idle, !.readiness = "PromptRendering"]} :
              Cancel(s, op) = Fails(t, op, "CancelledBeforeSubmit")
      BY <1>3 DEF Cancel, Unsubmitted
    <2>3. PICK t \in {[s EXCEPT !.active = Idle],
                      [s EXCEPT !.active = Idle, !.readiness = "PromptRendering"]} :
              Cancel(s, op) = Fails(t, op, "CancelledBeforeSubmit")
      BY <2>2
    <2>4. t \in Supervisor /\ t.active = Idle
      BY <1>1, IdleFields DEF Supervisor
    <2>5. "CancelledBeforeSubmit" \in Refusal
      BY DEF Refusal
    <2>6. Acts(s, NoOp, NoOp, Cancel(s, op))
      BY <2>1, <2>3, <2>4, <2>5, StopsUnsent
    <2>7. Cancel(s, op).sup = t
      BY <2>3 DEF Fails, Outcome
    <2>8. QED
      BY <2>4, <2>6, <2>7, IdleFields, OpAssumption DEF Acts, Unsent
  <1>4. CASE s.active.op = op /\ s.active.phase = "Observing"
    <2> DEFINE a == [s.active EXCEPT !.detached = TRUE]
               t == [s EXCEPT !.active = a]
    <2>1. Cancel(s, op) = Outcome(t)
      BY <1>4 DEF Cancel
    <2>2. /\ a \in [op : Op \cup {NoOp}, phase : Phase, started : BOOLEAN,
                    detached : BOOLEAN, timedOut : BOOLEAN]
          /\ a.op = s.active.op /\ a.phase = s.active.phase
      BY SupervisorFields
    <2> HIDE DEF a
    <2>3. t \in Supervisor /\ t.active = a
      BY <2>2, ActiveChanged
    <2> HIDE DEF t
    <2>4. Outcome(t) \in OutcomeType /\ Outcome(t).sup = t
          /\ Outcome(t).write.kind = "nothing" /\ Outcome(t).answer.op = NoOp
      BY <2>3, OutcomeFields
    <2>5. \A x \in Op : ~Unsent(t, x)
      BY <1>4, <2>2, <2>3 DEF Unsent, Unsubmitted
    <2>6. \A x \in Op : Overdue(s, x) => x = op
      BY <1>4 DEF Overdue
    <2>7. Acts(s, NoOp, op, Outcome(t))
      BY <2>2, <2>3, <2>4, <2>5, <2>6, OpAssumption DEF Acts, Sends
    <2>8. QED
      BY <2>1, <2>4, <2>5, <2>7
  <1>5. QED
    BY <1>2, <1>3, <1>4, SupervisorFields DEF Phase, Unsubmitted

LEMMA TimeoutActs ==
    ASSUME NEW s \in Supervisor, NEW op \in Op, NEW phase \in Phase
    PROVE  Acts(s, NoOp, NoOp, Timeout(s, op, phase))
  <1>1. CASE s.active.op # op \/ s.active.phase # phase
    BY <1>1, KeepsActive DEF Timeout
  <1>2. CASE s.active.op = op /\ s.active.phase = phase /\ phase \in Unsubmitted
    <2>1. Unsent(s, op)
      BY <1>2 DEF Unsent
    <2>2. \/ Timeout(s, op, phase) = Fails([s EXCEPT !.active = Idle], op, "ReadyTimeout")
          \/ Timeout(s, op, phase) = Fails([s EXCEPT !.active = Idle, !.readiness = "Unknown"],
                                           op, "ClearInputTimeout")
      BY <1>2 DEF Timeout, Unsubmitted
    <2>3. /\ [s EXCEPT !.active = Idle] \in Supervisor /\ [s EXCEPT !.active = Idle].active = Idle
          /\ [s EXCEPT !.active = Idle, !.readiness = "Unknown"] \in Supervisor
          /\ [s EXCEPT !.active = Idle, !.readiness = "Unknown"].active = Idle
      BY IdleFields DEF Supervisor, Readiness
    <2>4. "ReadyTimeout" \in Refusal /\ "ClearInputTimeout" \in Refusal
      BY DEF Refusal
    <2>5. QED
      BY <2>1, <2>2, <2>3, <2>4, StopsUnsent
  <1>3. CASE s.active.op = op /\ s.active.phase = phase /\ phase = "Observing"
             /\ (s.active.detached \/ s.active.timedOut)
    <2>1. Timeout(s, op, phase) = Outcome(s)
      BY <1>3 DEF Timeout
    <2>2. QED
      BY <2>1, KeepsActive
  <1>4. CASE s.active.op = op /\ s.active.phase = phase /\ phase = "Observing"
             /\ ~(s.active.detached \/ s.active.timedOut)
    <2> DEFINE a == [s.active EXCEPT !.timedOut = TRUE]
               t == [s EXCEPT !.active = a]
               out == Timeout(s, op, phase)
    <2>1. out = [Outcome(t) EXCEPT !.answer = [op |-> op, what |-> "TimedOut"]]
      BY <1>4 DEF Timeout
    <2>2. /\ a \in [op : Op \cup {NoOp}, phase : Phase, started : BOOLEAN,
                    detached : BOOLEAN, timedOut : BOOLEAN]
          /\ a.op = s.active.op /\ a.phase = s.active.phase
          /\ a.detached = s.active.detached /\ a.timedOut = TRUE
      BY SupervisorFields
    <2> HIDE DEF a
    <2>3. t \in Supervisor /\ t.active = a
      BY <2>2, ActiveChanged
    <2> HIDE DEF t, out
    <2>4. out = [sup |-> t, write |-> Nothing, arm |-> [op |-> NoOp, phase |-> "Observing"],
                 answer |-> [op |-> op, what |-> "TimedOut"], final |-> NoOp]
      BY <2>1 DEF Outcome
    <2>5. "TimedOut" \in Answer \ {"Cancelled"} /\ "TimedOut" \notin Refusal
      BY DEF Answer, Completion, Refusal
    <2>6. out \in OutcomeType
      BY <2>3, <2>4, <2>5 DEF OutcomeType, Nothing, Phase
    <2>7. out.sup = t /\ out.write.kind = "nothing" /\ out.answer.op = op
          /\ out.answer.what = "TimedOut"
      BY <2>4 DEF Nothing
    <2>8. Overdue(t, op)
      BY <1>4, <2>2, <2>3 DEF Overdue
    <2>9. \A x \in Op : (Overdue(s, x) => x = op) /\ ~Unsent(t, x)
      BY <1>4, <2>2, <2>3 DEF Overdue, Unsent, Unsubmitted
    <2>10. Acts(s, NoOp, NoOp, out)
      BY <1>4, <2>2, <2>3, <2>5, <2>6, <2>7, <2>8, <2>9, OpAssumption DEF Acts, Sends
    <2>11. QED
      BY <2>10 DEF out
  <1>5. QED
    BY <1>1, <1>2, <1>3, <1>4 DEF Phase, Unsubmitted

(* The end of the terminal: nothing is followed any more, and whoever's    *)
(* answer was sent before is told the end.                                 *)
LEMMA DisconnectEnds ==
    ASSUME NEW s \in Supervisor
    PROVE  /\ Disconnect(s).sup \in Supervisor /\ Disconnect(s).sup.active = Idle
           /\ Disconnect(s).final \in Op \cup {NoOp}
           /\ \A op \in Op : Overdue(s, op) => Disconnect(s).final = op
  <1> DEFINE gone == [s EXCEPT !.readiness = "Disconnected", !.active = Idle]
  <1>1. gone \in Supervisor /\ gone.active = Idle
    BY IdleFields DEF Supervisor, Readiness
  <1>2. s.active.op \in Op \cup {NoOp} /\ s.active.detached \in BOOLEAN
        /\ s.active.timedOut \in BOOLEAN
    BY SupervisorFields
  <1>3. CASE ~HasExec(s) \/ s.active.detached
    <2>1. Disconnect(s) = Outcome(gone)
      BY <1>3 DEF Disconnect
    <2> HIDE DEF gone
    <2>2. QED
      BY <1>1, <1>3, <2>1, OutcomeFields, OpAssumption DEF Overdue, HasExec
  <1>4. CASE HasExec(s) /\ ~s.active.detached /\ s.active.timedOut
    <2>1. Disconnect(s) = [Outcome(gone) EXCEPT !.final = s.active.op]
      BY <1>4 DEF Disconnect
    <2> HIDE DEF gone
    <2>2. Disconnect(s).sup = gone /\ Disconnect(s).final = s.active.op
      BY <2>1 DEF Outcome
    <2>3. QED
      BY <1>1, <1>2, <2>2 DEF Overdue
  <1>5. CASE HasExec(s) /\ ~s.active.detached /\ ~s.active.timedOut
    <2>1. Disconnect(s) = Fails(gone, s.active.op, "Disconnected")
      BY <1>5 DEF Disconnect
    <2> HIDE DEF gone
    <2>2. "Disconnected" \in Answer \ {"Cancelled"}
      BY DEF Answer
    <2>3. QED
      BY <1>1, <1>2, <1>5, <2>1, <2>2, FailsFields DEF Overdue
  <1>6. QED
    BY <1>2, <1>3, <1>4, <1>5

-----------------------------------------------------------------------------
(* What applying a call's effects does to the terminal's state             *)

LEMMA MessageFields ==
    ASSUME NEW m \in ThreadMessage
    PROVE  /\ m.kind \in {"StartExec", "CancelExec", "ExecTimeout", "TerminalChunk"}
           /\ m.kind \in {"StartExec", "CancelExec", "ExecTimeout"} => m.op \in Op
           /\ m.kind = "ExecTimeout" => m.what \in Phase
           /\ m.kind = "TerminalChunk" => m.what \in Marker /\ m.op = NoOp
  BY DEF ThreadMessage

LEMMA OutcomeParts ==
    ASSUME NEW out \in OutcomeType
    PROVE  /\ out.sup \in Supervisor /\ out.write.op \in Op \cup {NoOp}
           /\ out.write.kind \in {"nothing", "ctrl-c", "text", "line"}
           /\ out.arm \in [op : Op \cup {NoOp}, phase : Phase]
           /\ out.answer.op \in Op \cup {NoOp} /\ out.answer.what \in Answer \ {"Cancelled"}
           /\ out.final \in Op \cup {NoOp}
  BY DEF OutcomeType

(* An answer reaches those that are owed one and listen; an entry ends     *)
(* with its observer; nothing else is written than what the call writes.   *)
LEMMA Applied ==
    ASSUME TermTypeInv, NEW out \in OutcomeType, NEW data, NEW owed \in SUBSET Op,
           thread = "running", Apply(out, data, owed),
           out.write.kind \in {"text", "line"} => out.write.op \in Op
    PROVE  /\ sup' = out.sup
           /\ entry' \in [Op -> {"none", "running", "ended", "removed"}]
           /\ \A op \in Op : entry'[op] = "running" => entry[op] = "running" /\ op # out.final
           /\ written' \subseteq Op
           /\ \A op \in Op : op \in written' => op \in written \/ Sends(out, op)
           /\ timers' \subseteq [op : Op, phase : Phase]
           /\ results' \subseteq Op
           /\ reply' \in [Op -> (Answer \ {"Cancelled"}) \cup {Pending}]
           /\ \A op \in Op :
                \/ reply'[op] = reply[op]
                \/ out.answer.op = op /\ call[op] = "awaiting" /\ reply'[op] = out.answer.what
           /\ thread' \in {"running", "leaving"}
  <1>1. sup' = out.sup
    BY DEF Apply
  <1>2. /\ entry' \in [Op -> {"none", "running", "ended", "removed"}]
        /\ \A op \in Op : entry'[op] = "running" => entry[op] = "running" /\ op # out.final
    <2>1. entry \in [Op -> {"none", "running", "ended", "removed"}]
      BY DEF TermTypeInv, TypeOK
    <2>2. EntryEnds(out.final)
      BY DEF Apply
    <2>3. out.final \in Op \cup {NoOp}
      BY OutcomeParts
    <2>4. QED
      BY <2>1, <2>2, <2>3, OpAssumption DEF EntryEnds
  <1>3. written' \subseteq Op /\ \A op \in Op : op \in written' => op \in written \/ Sends(out, op)
    <2>1. written \subseteq Op
      BY DEF TermTypeInv, TypeOK
    <2>2. written' = IF Opens /\ out.write.kind \in {"text", "line"}
                     THEN written \cup {out.write.op} ELSE written
      BY DEF Apply
    <2>3. QED
      BY <2>1, <2>2 DEF Sends
  <1>4. timers' \subseteq [op : Op, phase : Phase]
    <2>1. timers \subseteq [op : Op, phase : Phase]
      BY DEF TermTypeInv, TypeOK
    <2>2. timers' = timers \/ (timers' = timers \cup {out.arm} /\ out.arm.op # NoOp)
      BY DEF Apply
    <2>3. out.arm.op # NoOp => out.arm \in [op : Op, phase : Phase]
      BY OutcomeParts
    <2>4. QED
      BY <2>1, <2>2, <2>3
  <1>5. results' \subseteq Op
    BY DEF Apply
  <1>6. /\ reply' \in [Op -> (Answer \ {"Cancelled"}) \cup {Pending}]
        /\ \A op \in Op :
             \/ reply'[op] = reply[op]
             \/ out.answer.op = op /\ call[op] = "awaiting" /\ reply'[op] = out.answer.what
    <2>1. reply \in [Op -> (Answer \ {"Cancelled"}) \cup {Pending}]
      BY DEF TermTypeInv
    <2>2. \/ reply' = reply
          \/ /\ reply' = [reply EXCEPT ![out.answer.op] = out.answer.what]
             /\ out.answer.op \in owed /\ call[out.answer.op] = "awaiting"
      BY DEF Apply
    <2>3. out.answer.what \in Answer \ {"Cancelled"}
      BY OutcomeParts
    <2>4. QED
      BY <2>1, <2>2, <2>3
  <1>7. thread' \in {"running", "leaving"}
    <2>1. thread' = thread \/ thread' = "leaving"
      BY DEF Apply
    <2>2. QED
      BY <2>1
  <1>8. QED
    BY <1>1, <1>2, <1>3, <1>4, <1>5, <1>6, <1>7

(* A call of the supervisor keeps the invariant, whatever it is for, as    *)
(* long as the queue only loses what the call is for.                      *)
LEMMA ApplyKeeps ==
    ASSUME TermInv, NEW out, NEW data, NEW owed \in SUBSET Op,
           NEW new \in Op \cup {NoOp}, NEW quit \in Op \cup {NoOp},
           thread = "running", Acts(sup, new, quit, out), Apply(out, data, owed),
           UNCHANGED << call, answer >>,
           queue' \in Seq(ThreadMessage), OnceInv', BehindInv',
           new # NoOp => QueuedFor(new, "StartExec"),
           new # NoOp /\ answer[new] = "Cancelled" => QueuedFor(new, "CancelExec")',
           quit # NoOp => answer[quit] = "Cancelled" /\ ~Unsent(out.sup, quit),
           \A op \in Op : QueuedFor(op, "StartExec")' => QueuedFor(op, "StartExec") /\ op # new,
           \A op \in Op : QueuedFor(op, "CancelExec")' => QueuedFor(op, "CancelExec"),
           \A op \in Op : QueuedFor(op, "CancelExec") /\ op # quit => QueuedFor(op, "CancelExec")'
    PROVE  TermInv'
  <1> USE DEF TermInv
  <1>1. /\ out \in OutcomeType /\ out.sup.active.op \in {sup.active.op, new, NoOp}
        /\ out.write.kind \in {"text", "line"} => out.write.op \in Op
        /\ \A op \in Op :
            /\ Sends(out, op) => (op = new \/ Unsent(sup, op)) /\ ~Unsent(out.sup, op)
            /\ Unsent(out.sup, op) => op = new \/ Unsent(sup, op)
            /\ out.answer.op = op => op = new \/ sup.active.op = op
            /\ out.answer.op = op /\ out.answer.what \in Refusal =>
                   (op = new \/ Unsent(sup, op)) /\ out.sup.active.op # op /\ ~Sends(out, op)
            /\ out.answer.op = op /\ out.answer.what = "TimedOut" => Overdue(out.sup, op)
            /\ Overdue(sup, op) /\ op # quit => Overdue(out.sup, op) \/ out.final = op
    BY DEF Acts
  <1>2. /\ sup' = out.sup
        /\ entry' \in [Op -> {"none", "running", "ended", "removed"}]
        /\ \A op \in Op : entry'[op] = "running" => entry[op] = "running" /\ op # out.final
        /\ written' \subseteq Op
        /\ \A op \in Op : op \in written' => op \in written \/ Sends(out, op)
        /\ timers' \subseteq [op : Op, phase : Phase]
        /\ results' \subseteq Op
        /\ reply' \in [Op -> (Answer \ {"Cancelled"}) \cup {Pending}]
        /\ \A op \in Op :
             \/ reply'[op] = reply[op]
             \/ out.answer.op = op /\ call[op] = "awaiting" /\ reply'[op] = out.answer.what
        /\ thread' \in {"running", "leaving"}
    BY <1>1, Applied
  <1>3. out.sup \in Supervisor
    BY <1>1, OutcomeParts
  <1>4. TermTypeInv'
    BY <1>2, <1>3 DEF TermTypeInv, TypeOK
  <1>5. \A op \in Op : Unsent(sup, op) => Holds(op)
    BY DEF Unsent, Holds
  <1>6. CallInv'
    <2>1. ASSUME NEW op \in Op, call[op] = "idle"
          PROVE  op \notin written' /\ ~Holds(op)' /\ ~QueuedFor(op, "StartExec")'
      <3>1. op \notin written /\ ~Holds(op) /\ ~QueuedFor(op, "StartExec")
        BY <2>1 DEF CallInv
      <3>2. op # new
        BY <3>1, OpAssumption
      <3>3. ~Sends(out, op)
        BY <1>1, <1>5, <3>1, <3>2
      <3>4. out.sup.active.op # op
        BY <1>1, <3>1, <3>2, OpAssumption DEF Holds
      <3>5. QED
        BY <1>2, <3>1, <3>3, <3>4 DEF Holds
    <2>2. \A op \in Op : reply'[op] # Pending => call[op] = "awaiting"
      BY <1>2 DEF CallInv
    <2>3. \A op \in Op : /\ answer[op] # Pending => call[op] = "returned"
                         /\ QueuedFor(op, "CancelExec")' => answer[op] = "Cancelled"
      BY DEF CallInv
    <2>4. QED
      BY <2>1, <2>2, <2>3 DEF CallInv
  <1>7. RequestInv'
    <2>1. ASSUME NEW op \in Op, QueuedFor(op, "StartExec")'
          PROVE  op \notin written' /\ ~Holds(op)'
      <3>1. op # new /\ op \notin written /\ ~Holds(op)
        BY <2>1 DEF RequestInv
      <3>2. ~Sends(out, op)
        BY <1>1, <1>5, <3>1
      <3>3. out.sup.active.op # op
        BY <1>1, <3>1, OpAssumption DEF Holds
      <3>4. QED
        BY <1>2, <3>1, <3>2, <3>3 DEF Holds
    <2>2. QED
      BY <2>1 DEF RequestInv
  <1>8. UnwrittenInv'
    <2>1. ASSUME NEW op \in Op, Unsent(sup, op)'
          PROVE  op \notin written'
      <3>1. Unsent(out.sup, op)
        BY <1>2, <2>1 DEF Unsent
      <3>2. op = new \/ Unsent(sup, op)
        BY <1>1, <3>1
      <3>3. op \notin written
        BY <3>2, OpAssumption DEF UnwrittenInv, RequestInv
      <3>4. QED
        BY <1>1, <1>2, <3>1, <3>3
    <2>2. ASSUME NEW op \in Op, reply[op] \in Refusal \/ answer[op] \in Refusal
          PROVE  op \notin written' /\ ~Holds(op)' /\ ~QueuedFor(op, "StartExec")'
      <3>1. op \notin written /\ ~Holds(op) /\ ~QueuedFor(op, "StartExec")
        BY <2>2 DEF UnwrittenInv
      <3>2. op # new
        BY <3>1, OpAssumption
      <3>3. ~Sends(out, op)
        BY <1>1, <1>5, <3>1, <3>2
      <3>4. out.sup.active.op # op
        BY <1>1, <3>1, <3>2, OpAssumption DEF Holds
      <3>5. QED
        BY <1>2, <3>1, <3>3, <3>4 DEF Holds
    <2>3. ASSUME NEW op \in Op, reply'[op] \in Refusal, reply'[op] # reply[op]
          PROVE  op \notin written' /\ ~Holds(op)' /\ ~QueuedFor(op, "StartExec")'
      <3>1. out.answer.op = op /\ out.answer.what \in Refusal
        BY <1>2, <2>3
      <3>2. (op = new \/ Unsent(sup, op)) /\ out.sup.active.op # op /\ ~Sends(out, op)
        BY <1>1, <3>1
      <3>3. op \notin written
        BY <3>2, OpAssumption DEF UnwrittenInv, RequestInv
      <3>4. ~QueuedFor(op, "StartExec")'
        BY <1>5, <3>2 DEF RequestInv
      <3>5. QED
        BY <1>2, <3>2, <3>3, <3>4 DEF Holds
    <2>4. QED
      BY <2>1, <2>2, <2>3 DEF UnwrittenInv
  <1>9. CancelInv'
    <2>1. ASSUME NEW op \in Op, answer[op] = "Cancelled", Unsent(sup, op)'
          PROVE  QueuedFor(op, "CancelExec")'
      <3>1. Unsent(out.sup, op)
        BY <1>2, <2>1 DEF Unsent
      <3>2. op # quit /\ (op = new \/ Unsent(sup, op))
        BY <1>1, <3>1, OpAssumption
      <3>3. CASE op = new
        BY <2>1, <3>3, OpAssumption
      <3>4. CASE Unsent(sup, op)
        BY <2>1, <3>2, <3>4 DEF CancelInv
      <3>5. QED
        BY <3>2, <3>3, <3>4
    <2>2. QED
      BY <2>1 DEF CancelInv
  <1>10. GoneInv'
    BY <1>2 DEF GoneInv
  <1>11. FollowedInv'
    <2>1. ASSUME NEW op \in Op, reply'[op] = "TimedOut" \/ answer[op] = "TimedOut",
                 entry'[op] = "running"
          PROVE  Overdue(out.sup, op)
      <3>1. entry[op] = "running" /\ op # out.final
        BY <1>2, <2>1
      <3>2. CASE reply[op] = "TimedOut" \/ answer[op] = "TimedOut"
        <4>1. Overdue(sup, op)
          BY <3>1, <3>2 DEF FollowedInv
        <4>2. op # quit
          <5>1. CASE quit = NoOp
            BY <5>1, OpAssumption
          <5>2. CASE quit # NoOp
            <6>1. answer[quit] = "Cancelled" /\ quit \in Op
              BY <5>2
            <6>2. call[quit] = "returned" /\ reply[quit] = Pending
              BY <6>1 DEF CallInv, Pending
            <6>3. QED
              BY <3>2, <6>1, <6>2 DEF Pending
          <5>3. QED
            BY <5>1, <5>2
        <4>3. QED
          BY <1>1, <3>1, <4>1, <4>2
      <3>3. CASE ~(reply[op] = "TimedOut" \/ answer[op] = "TimedOut")
        <4>1. out.answer.op = op /\ out.answer.what = "TimedOut"
          BY <1>2, <2>1, <3>3
        <4>2. QED
          BY <1>1, <4>1
      <3>4. QED
        BY <3>2, <3>3
    <2>2. QED
      BY <1>2, <2>1 DEF FollowedInv, Overdue
  <1>12. QED
    BY <1>4, <1>6, <1>7, <1>8, <1>9, <1>10, <1>11

-----------------------------------------------------------------------------
(* What happens to the queue                                               *)

(* The oldest message is taken.                                            *)
LEMMA Taken ==
    ASSUME TermInv, queue # << >>, queue' = Tail(queue), UNCHANGED answer
    PROVE  /\ Head(queue) \in ThreadMessage /\ queue' \in Seq(ThreadMessage)
           /\ OnceInv' /\ BehindInv'
           /\ QueuedFor(Head(queue).op, Head(queue).kind)
           /\ \A op, kind : QueuedFor(op, kind)' => QueuedFor(op, kind)
           /\ \A op, kind : QueuedFor(op, kind) /\ (Head(queue).op # op \/ Head(queue).kind # kind)
                                => QueuedFor(op, kind)'
           /\ \A op : Head(queue).kind = "StartExec" /\ Head(queue).op = op =>
                  /\ ~QueuedFor(op, "StartExec")'
                  /\ answer[op] = "Cancelled" => QueuedFor(op, "CancelExec")'
  <1>1. queue \in Seq(ThreadMessage)
    BY DEF TermInv, TermTypeInv
  <1>2. /\ Head(queue) \in ThreadMessage /\ queue' \in Seq(ThreadMessage)
        /\ Len(queue) \in Nat /\ DOMAIN queue = 1..Len(queue) /\ Len(queue) > 0
        /\ Head(queue) = queue[1]
        /\ DOMAIN queue' = 1..(Len(queue) - 1)
        /\ \A i \in DOMAIN queue' : queue'[i] = queue[i + 1]
    <2>1. queue' \in Seq(ThreadMessage) /\ Len(queue') = Len(queue) - 1
          /\ \A i \in 1..Len(queue') : queue'[i] = queue[i + 1]
      BY <1>1, HeadTailProperties
    <2>2. DOMAIN queue' = 1..Len(queue') /\ DOMAIN queue = 1..Len(queue) /\ Len(queue) \in Nat
      BY <1>1, <2>1, LenProperties
    <2>3. Len(queue) # 0
      BY <1>1, EmptySeq
    <2>4. Head(queue) = queue[1] /\ Head(queue) \in ThreadMessage
      BY <1>1, HeadTailProperties
    <2>5. QED
      BY <2>1, <2>2, <2>3, <2>4
  <1>3. 1 \in DOMAIN queue /\ \A i \in DOMAIN queue' : i + 1 \in DOMAIN queue /\ i + 1 # 1
    BY <1>2
  <1>4. OnceInv'
    <2>1. SUFFICES ASSUME NEW i \in DOMAIN queue', NEW j \in DOMAIN queue',
                          queue'[i].kind = "StartExec", queue'[j].kind = "StartExec",
                          queue'[i].op = queue'[j].op
                   PROVE  i = j
      BY DEF OnceInv, IsRequest
    <2>2. i + 1 = j + 1
      BY <1>2, <1>3, <2>1 DEF TermInv, OnceInv, IsRequest
    <2>3. QED
      BY <1>2, <2>2
  <1>5. \A i \in DOMAIN queue : IsRequest(i) /\ answer[queue[i].op] = "Cancelled" =>
            \E j \in DOMAIN queue' :
                j + 1 > i /\ queue'[j].kind = "CancelExec" /\ queue'[j].op = queue[i].op
    <2>1. SUFFICES ASSUME NEW i \in DOMAIN queue, IsRequest(i), answer[queue[i].op] = "Cancelled"
                   PROVE  \E j \in DOMAIN queue' : j + 1 > i /\ queue'[j].kind = "CancelExec"
                                                   /\ queue'[j].op = queue[i].op
      OBVIOUS
    <2>2. PICK j \in DOMAIN queue :
                j > i /\ queue[j].kind = "CancelExec" /\ queue[j].op = queue[i].op
      BY <2>1 DEF TermInv, BehindInv
    <2>3. j - 1 \in DOMAIN queue' /\ queue'[j - 1] = queue[j] /\ (j - 1) + 1 > i
      BY <1>2, <2>2
    <2>4. QED
      BY <2>2, <2>3
  <1>6. BehindInv'
    <2>1. SUFFICES ASSUME NEW i \in DOMAIN queue', queue'[i].kind = "StartExec",
                          answer[queue'[i].op] = "Cancelled"
                   PROVE  \E j \in DOMAIN queue' : j > i /\ queue'[j].kind = "CancelExec"
                                                   /\ queue'[j].op = queue'[i].op
      BY DEF BehindInv, IsRequest
    <2>2. i + 1 \in DOMAIN queue /\ queue'[i] = queue[i + 1]
      BY <1>2, <1>3
    <2>3. PICK j \in DOMAIN queue' : j + 1 > i + 1 /\ queue'[j].kind = "CancelExec"
                                     /\ queue'[j].op = queue'[i].op
      BY <1>5, <2>1, <2>2 DEF IsRequest
    <2>4. j > i
      BY <1>2, <2>3
    <2>5. QED
      BY <2>3, <2>4
  <1>7. QueuedFor(Head(queue).op, Head(queue).kind)
    BY <1>2, <1>3 DEF QueuedFor
  <1>8. ASSUME NEW op, NEW kind
        PROVE  /\ QueuedFor(op, kind)' => QueuedFor(op, kind)
               /\ QueuedFor(op, kind) /\ (Head(queue).op # op \/ Head(queue).kind # kind)
                      => QueuedFor(op, kind)'
    <2>1. QueuedFor(op, kind)' => QueuedFor(op, kind)
      BY <1>2, <1>3 DEF QueuedFor
    <2>2. ASSUME QueuedFor(op, kind), Head(queue).op # op \/ Head(queue).kind # kind
          PROVE  QueuedFor(op, kind)'
      <3>1. PICK i \in DOMAIN queue : queue[i].kind = kind /\ queue[i].op = op
        BY <2>2 DEF QueuedFor
      <3>2. i - 1 \in DOMAIN queue' /\ queue'[i - 1] = queue[i]
        BY <1>2, <2>2, <3>1
      <3>3. QED
        BY <3>1, <3>2 DEF QueuedFor
    <2>3. QED
      BY <2>1, <2>2
  <1>9. ASSUME NEW op, Head(queue).kind = "StartExec", Head(queue).op = op
        PROVE  /\ ~QueuedFor(op, "StartExec")'
               /\ answer[op] = "Cancelled" => QueuedFor(op, "CancelExec")'
    <2>1. ~QueuedFor(op, "StartExec")'
      <3>1. SUFFICES ASSUME NEW i \in DOMAIN queue', queue'[i].kind = "StartExec",
                            queue'[i].op = op
                     PROVE  FALSE
        BY DEF QueuedFor
      <3>2. i + 1 \in DOMAIN queue /\ queue'[i] = queue[i + 1] /\ i + 1 # 1
        BY <1>2, <1>3
      <3>3. queue[1].kind = "StartExec" /\ queue[i + 1].kind = "StartExec"
            /\ queue[i + 1].op = queue[1].op
        BY <1>2, <1>9, <3>1, <3>2
      <3>4. i + 1 = 1
        BY <1>3, <3>2, <3>3 DEF TermInv, OnceInv, IsRequest
      <3>5. QED
        BY <3>2, <3>4
    <2>2. answer[op] = "Cancelled" => QueuedFor(op, "CancelExec")'
      <3>1. SUFFICES ASSUME answer[op] = "Cancelled"
                     PROVE  \E j \in DOMAIN queue' : queue'[j].kind = "CancelExec"
                                                     /\ queue'[j].op = op
        BY DEF QueuedFor
      <3>2. IsRequest(1) /\ queue[1].op = op
        BY <1>2, <1>9 DEF IsRequest
      <3>3. QED
        BY <1>3, <1>5, <3>1, <3>2
    <2>3. QED
      BY <2>1, <2>2
  <1>10. QED
    BY <1>2, <1>4, <1>6, <1>7, <1>8, <1>9

(* A message is sent, unless the thread is gone.                           *)
LEMMA Sent ==
    ASSUME TermInv, NEW m \in ThreadMessage, Send(m)
    PROVE  /\ queue' \in Seq(ThreadMessage)
           /\ \A op, kind : QueuedFor(op, kind)' => QueuedFor(op, kind) \/ (m.op = op /\ m.kind = kind)
           /\ \A op, kind : QueuedFor(op, kind) => QueuedFor(op, kind)'
           /\ thread = "gone" => queue' = queue
           /\ thread # "gone" => /\ DOMAIN queue' = 1..(Len(queue) + 1)
                                 /\ queue'[Len(queue) + 1] = m
                                 /\ QueuedFor(m.op, m.kind)'
                                 /\ DOMAIN queue = 1..Len(queue) /\ Len(queue) \in Nat
                                 /\ \A i \in DOMAIN queue : i \in DOMAIN queue' /\ queue'[i] = queue[i]
  <1>1. queue \in Seq(ThreadMessage)
    BY DEF TermInv, TermTypeInv
  <1>2. CASE thread = "gone"
    <2>1. queue' = queue
      BY <1>2 DEF Send
    <2>2. QED
      BY <1>1, <1>2, <2>1 DEF QueuedFor
  <1>3. CASE thread # "gone"
    <2>1. queue' = Append(queue, m)
      BY <1>3 DEF Send
    <2>2. /\ queue' \in Seq(ThreadMessage) /\ Len(queue') = Len(queue) + 1
          /\ \A i \in 1..Len(queue) : queue'[i] = queue[i]
          /\ queue'[Len(queue) + 1] = m
      BY <1>1, <2>1, AppendProperties
    <2>3. DOMAIN queue' = 1..(Len(queue) + 1) /\ DOMAIN queue = 1..Len(queue) /\ Len(queue) \in Nat
      BY <1>1, <2>2, LenProperties
    <2>4. /\ Len(queue) + 1 \in DOMAIN queue'
          /\ \A i \in DOMAIN queue' : i \in DOMAIN queue \/ i = Len(queue) + 1
          /\ \A i \in DOMAIN queue : i \in DOMAIN queue' /\ queue'[i] = queue[i]
      BY <2>2, <2>3
    <2>5. /\ \A op, kind : QueuedFor(op, kind)' =>
                               QueuedFor(op, kind) \/ (m.op = op /\ m.kind = kind)
          /\ \A op, kind : QueuedFor(op, kind) => QueuedFor(op, kind)'
          /\ QueuedFor(m.op, m.kind)'
      BY <2>2, <2>4 DEF QueuedFor
    <2>6. QED
      BY <1>3, <2>2, <2>3, <2>4, <2>5
  <1>4. QED
    BY <1>2, <1>3

(* The shell's markers come behind everything else.                        *)
LEMMA Printed ==
    ASSUME TermInv, NEW markers \in Seq(Marker), Prints(markers), UNCHANGED answer
    PROVE  /\ queue' \in Seq(ThreadMessage) /\ OnceInv' /\ BehindInv'
           /\ \A op, kind : kind # "TerminalChunk" => (QueuedFor(op, kind)' <=> QueuedFor(op, kind))
  <1> DEFINE chunks == [i \in DOMAIN markers |-> Message("TerminalChunk", NoOp, markers[i])]
  <1>1. queue \in Seq(ThreadMessage)
    BY DEF TermInv, TermTypeInv
  <1>2. /\ chunks \in Seq(ThreadMessage)
        /\ \A i \in DOMAIN chunks : chunks[i].kind = "TerminalChunk"
    <2>1. Len(markers) \in Nat /\ DOMAIN markers = 1..Len(markers)
      BY LenProperties
    <2>2. \A i \in DOMAIN markers : markers[i] \in Marker
      BY <2>1, ElementOfSeq
    <2>3. \A i \in DOMAIN markers : Message("TerminalChunk", NoOp, markers[i]) \in ThreadMessage
      BY <2>2 DEF Message, ThreadMessage
    <2>4. chunks \in [1..Len(markers) -> ThreadMessage]
      BY <2>1, <2>3
    <2>5. chunks \in Seq(ThreadMessage)
      BY <2>1, <2>4, SeqDef
    <2>6. QED
      BY <2>5 DEF Message
  <1>3. queue' = queue \o chunks
    BY DEF Prints
  <1> HIDE DEF chunks
  <1>4. /\ queue' \in Seq(ThreadMessage) /\ Len(queue') = Len(queue) + Len(chunks)
        /\ \A i \in 1..Len(queue') : queue'[i] = IF i <= Len(queue) THEN queue[i]
                                                ELSE chunks[i - Len(queue)]
    BY <1>1, <1>2, <1>3, ConcatProperties
  <1>5. /\ DOMAIN queue' = 1..Len(queue') /\ DOMAIN queue = 1..Len(queue) /\ Len(queue) \in Nat
        /\ DOMAIN chunks = 1..Len(chunks) /\ Len(chunks) \in Nat
    BY <1>1, <1>2, <1>4, LenProperties
  <1>6. /\ \A i \in DOMAIN queue : i \in DOMAIN queue' /\ queue'[i] = queue[i]
        /\ \A i \in DOMAIN queue' : queue'[i].kind # "TerminalChunk" => i \in DOMAIN queue
    <2>1. \A i \in DOMAIN queue : i \in DOMAIN queue' /\ queue'[i] = queue[i]
      BY <1>4, <1>5
    <2>2. ASSUME NEW i \in DOMAIN queue', i \notin DOMAIN queue
          PROVE  queue'[i].kind = "TerminalChunk"
      <3>1. i - Len(queue) \in DOMAIN chunks /\ ~(i <= Len(queue))
        BY <1>4, <1>5, <2>2
      <3>2. queue'[i] = chunks[i - Len(queue)]
        BY <1>4, <1>5, <3>1
      <3>3. QED
        BY <1>2, <3>1, <3>2
    <2>3. QED
      BY <2>1, <2>2
  <1>7. \A op, kind : kind # "TerminalChunk" => (QueuedFor(op, kind)' <=> QueuedFor(op, kind))
    BY <1>6 DEF QueuedFor
  <1>8. OnceInv'
    BY <1>6 DEF TermInv, OnceInv, IsRequest
  <1>9. BehindInv'
    BY <1>6 DEF TermInv, BehindInv, IsRequest
  <1>10. QED
    BY <1>4, <1>7, <1>8, <1>9

-----------------------------------------------------------------------------
(* The invariant is kept                                                   *)

(* A step that does nothing for an operation.                              *)
LEMMA QuietKeeps ==
    ASSUME TermInv, UNCHANGED << sup, results, reply, call, answer, entry, written >>,
           timers' \subseteq timers, thread' \in {"running", "leaving", "gone"},
           thread' = "gone" => thread = "gone" /\ queue' = queue,
           queue' \in Seq(ThreadMessage), OnceInv', BehindInv',
           \A op, kind : kind \in {"StartExec", "CancelExec"} =>
               (QueuedFor(op, kind)' <=> QueuedFor(op, kind))
    PROVE  TermInv'
  <1> USE DEF TermInv
  <1>1. TermTypeInv'
    BY DEF TermTypeInv, TypeOK
  <1>2. CallInv' /\ RequestInv'
    BY DEF CallInv, RequestInv, Holds
  <1>3. UnwrittenInv' /\ CancelInv'
    BY DEF UnwrittenInv, CancelInv, Holds, Unsent
  <1>4. GoneInv' /\ FollowedInv'
    BY DEF GoneInv, FollowedInv, Overdue
  <1>5. QED
    BY <1>1, <1>2, <1>3, <1>4

LEMMA SameQueue ==
    ASSUME TermInv, UNCHANGED << queue, answer >>
    PROVE  /\ queue' \in Seq(ThreadMessage) /\ OnceInv' /\ BehindInv'
           /\ \A op, kind : QueuedFor(op, kind)' <=> QueuedFor(op, kind)
  BY DEF TermInv, TermTypeInv, OnceInv, BehindInv, IsRequest, QueuedFor

LEMMA StartKeeps == ASSUME TermInv, HandleStart PROVE TermInv'
  <1>1. /\ thread = "running" /\ queue # << >> /\ Head(queue).kind = "StartExec"
        /\ queue' = Tail(queue) /\ UNCHANGED << call, answer >>
    BY DEF HandleStart, Takes, ThreadUnchanged, callerVars
  <1>2. Head(queue).op \in Op
    BY <1>1, Taken, MessageFields
  <1>3. PICK op \in Op : op = Head(queue).op
    BY <1>2
  <1>4. Apply(Start(sup, op), Nothing, results \cup {op})
    BY <1>3 DEF HandleStart
  <1>5. results \cup {op} \in SUBSET Op /\ sup \in Supervisor
    BY DEF TermInv, TermTypeInv, TypeOK
  <1>6. QueuedFor(op, "StartExec")
    BY <1>1, <1>3, Taken
  <1>7. sup.active.op # op
    BY <1>6 DEF TermInv, RequestInv, Holds
  <1>8. Acts(sup, op, NoOp, Start(sup, op))
    BY <1>5, <1>7, StartActs
  <1>9. /\ queue' \in Seq(ThreadMessage) /\ OnceInv' /\ BehindInv'
        /\ answer[op] = "Cancelled" => QueuedFor(op, "CancelExec")'
        /\ \A x \in Op : QueuedFor(x, "StartExec")' => QueuedFor(x, "StartExec") /\ x # op
        /\ \A x \in Op : QueuedFor(x, "CancelExec")' => QueuedFor(x, "CancelExec")
        /\ \A x \in Op : QueuedFor(x, "CancelExec") => QueuedFor(x, "CancelExec")'
    BY <1>1, <1>3, Taken
  <1>10. QED
    BY <1>1, <1>4, <1>5, <1>6, <1>8, <1>9, OpAssumption, ApplyKeeps

LEMMA CancelKeeps == ASSUME TermInv, HandleCancel PROVE TermInv'
  <1>1. /\ thread = "running" /\ queue # << >> /\ Head(queue).kind = "CancelExec"
        /\ queue' = Tail(queue) /\ UNCHANGED << call, answer >>
    BY DEF HandleCancel, Takes, ThreadUnchanged, callerVars
  <1>2. Head(queue).op \in Op
    BY <1>1, Taken, MessageFields
  <1>3. PICK op \in Op : op = Head(queue).op
    BY <1>2
  <1>4. Apply(Cancel(sup, op), Nothing, results \ {op})
    BY <1>3 DEF HandleCancel
  <1>5. results \ {op} \in SUBSET Op /\ sup \in Supervisor
    BY DEF TermInv, TermTypeInv, TypeOK
  <1>6. QueuedFor(op, "CancelExec")
    BY <1>1, <1>3, Taken
  <1>7. answer[op] = "Cancelled"
    BY <1>6 DEF TermInv, CallInv
  <1>8. Acts(sup, NoOp, op, Cancel(sup, op)) /\ ~Unsent(Cancel(sup, op).sup, op)
    BY <1>5, CancelActs
  <1>9. /\ queue' \in Seq(ThreadMessage) /\ OnceInv' /\ BehindInv'
        /\ \A x \in Op : QueuedFor(x, "StartExec")' => QueuedFor(x, "StartExec")
        /\ \A x \in Op : QueuedFor(x, "CancelExec")' => QueuedFor(x, "CancelExec")
        /\ \A x \in Op : QueuedFor(x, "CancelExec") /\ x # op => QueuedFor(x, "CancelExec")'
    BY <1>1, <1>3, Taken
  <1>10. QED
    BY <1>1, <1>4, <1>5, <1>7, <1>8, <1>9, OpAssumption, ApplyKeeps

(* A call for no operation in particular, when a message is taken.         *)
LEMMA TakenKeeps ==
    ASSUME TermInv, NEW kind \in {"ExecTimeout", "TerminalChunk"}, Takes(kind),
           NEW out, Acts(sup, NoOp, NoOp, out), Apply(out, Nothing, results)
    PROVE  TermInv'
  <1>1. /\ thread = "running" /\ queue # << >> /\ Head(queue).kind = kind
        /\ queue' = Tail(queue) /\ UNCHANGED << call, answer >>
    BY DEF Takes, ThreadUnchanged, callerVars
  <1>2. results \in SUBSET Op
    BY DEF TermInv, TermTypeInv, TypeOK
  <1>3. /\ queue' \in Seq(ThreadMessage) /\ OnceInv' /\ BehindInv'
        /\ \A x \in Op : QueuedFor(x, "StartExec")' => QueuedFor(x, "StartExec")
        /\ \A x \in Op : QueuedFor(x, "CancelExec")' => QueuedFor(x, "CancelExec")
        /\ \A x \in Op : QueuedFor(x, "CancelExec") => QueuedFor(x, "CancelExec")'
    BY <1>1, Taken
  <1>4. QED
    BY <1>1, <1>2, <1>3, OpAssumption, ApplyKeeps

LEMMA TimeoutKeeps == ASSUME TermInv, HandleTimeout PROVE TermInv'
  <1>1. /\ queue # << >> /\ Head(queue).kind = "ExecTimeout" /\ Takes("ExecTimeout")
        /\ queue' = Tail(queue) /\ UNCHANGED answer
        /\ Apply(Timeout(sup, Head(queue).op, Head(queue).what), Nothing, results)
    BY DEF HandleTimeout, Takes, ThreadUnchanged, callerVars
  <1>2. Head(queue).op \in Op /\ Head(queue).what \in Phase
    BY <1>1, Taken, MessageFields
  <1>3. sup \in Supervisor
    BY DEF TermInv, TermTypeInv, TypeOK
  <1>4. Acts(sup, NoOp, NoOp, Timeout(sup, Head(queue).op, Head(queue).what))
    BY <1>2, <1>3, TimeoutActs
  <1>5. QED
    BY <1>1, <1>4, TakenKeeps

LEMMA ChunkKeeps == ASSUME TermInv, HandleChunk PROVE TermInv'
  <1>1. /\ queue # << >> /\ Head(queue).kind = "TerminalChunk" /\ Takes("TerminalChunk")
        /\ queue' = Tail(queue) /\ UNCHANGED answer
        /\ Apply(Marked(sup, Head(queue).what), Nothing, results)
    BY DEF HandleChunk, Takes, ThreadUnchanged, callerVars
  <1>2. Head(queue).what \in Marker
    BY <1>1, Taken, MessageFields
  <1>3. sup \in Supervisor
    BY DEF TermInv, TermTypeInv, TypeOK
  <1>4. Acts(sup, NoOp, NoOp, Marked(sup, Head(queue).what))
    BY <1>2, <1>3, MarkedActs
  <1>5. QED
    BY <1>1, <1>4, TakenKeeps

(* What the user types and an agent's interrupt.                           *)
LEMMA InputKeeps == ASSUME TermInv, HandleWrite \/ HandleInterrupt PROVE TermInv'
  <1>1. thread = "running" /\ UNCHANGED << queue, call, answer >>
    BY DEF HandleWrite, HandleInterrupt, TakesInput, ThreadUnchanged, callerVars
  <1>2. results \in SUBSET Op /\ sup \in Supervisor
    BY DEF TermInv, TermTypeInv, TypeOK
  <1>3. \E out, data : Acts(sup, NoOp, NoOp, out) /\ Apply(out, data, results)
    <2>1. CASE HandleWrite
      <3>1. PICK enter \in BOOLEAN :
                Apply(Input(sup, enter), IF enter THEN Line(User) ELSE Text(User), results)
        BY <2>1 DEF HandleWrite
      <3>2. Acts(sup, NoOp, NoOp, Input(sup, enter))
        BY <1>2, InputActs
      <3>3. QED
        BY <3>1, <3>2
    <2>2. CASE HandleInterrupt
      <3>1. Apply(Outcome(sup), IF MayInterrupt(sup) THEN CtrlC(NoOp) ELSE Nothing, results)
        BY <2>2 DEF HandleInterrupt
      <3>2. Acts(sup, NoOp, NoOp, Outcome(sup))
        BY <1>2, KeepsActive
      <3>3. QED
        BY <3>1, <3>2
    <2>3. QED
      BY <2>1, <2>2
  <1>4. PICK out, data : Acts(sup, NoOp, NoOp, out) /\ Apply(out, data, results)
    BY <1>3
  <1>5. /\ queue' \in Seq(ThreadMessage) /\ OnceInv' /\ BehindInv'
        /\ \A op, kind : QueuedFor(op, kind)' <=> QueuedFor(op, kind)
    BY <1>1, SameQueue
  <1>6. QED
    BY <1>1, <1>2, <1>4, <1>5, OpAssumption, ApplyKeeps

LEMMA BreaksKeeps == ASSUME TermInv, Breaks PROVE TermInv'
  <1>1. /\ UNCHANGED << sup, queue, results, timers, reply, entry, written, call, answer >>
        /\ thread' = "leaving"
    BY DEF Breaks, ThreadUnchanged, callerVars
  <1>2. /\ queue' \in Seq(ThreadMessage) /\ OnceInv' /\ BehindInv'
        /\ \A op, kind : QueuedFor(op, kind)' <=> QueuedFor(op, kind)
    BY <1>1, SameQueue
  <1>3. QED
    BY <1>1, <1>2, QuietKeeps

LEMMA LeaveKeeps == ASSUME TermInv, Leave PROVE TermInv'
  <1> USE DEF TermInv
  <1>1. sup \in Supervisor
    BY DEF TermTypeInv, TypeOK
  <1>2. /\ sup' = Disconnect(sup).sup /\ EntryEnds(Disconnect(sup).final)
        /\ results' = {} /\ timers' = {} /\ queue' = << >> /\ thread' = "gone"
        /\ UNCHANGED << written, call, answer >>
    BY DEF Leave, ThreadUnchanged, callerVars
  <1>3. /\ reply' \in [Op -> (Answer \ {"Cancelled"}) \cup {Pending}]
        /\ \A op \in Op : \/ reply'[op] = reply[op]
                          \/ call[op] = "awaiting" /\ reply'[op] = "Disconnected"
    <2>1. \E owed : reply' = [op \in Op |-> IF op \in owed /\ call[op] = "awaiting"
                                            THEN "Disconnected" ELSE reply[op]]
      BY DEF Leave
    <2>2. reply \in [Op -> (Answer \ {"Cancelled"}) \cup {Pending}]
      BY DEF TermTypeInv
    <2>3. "Disconnected" \in Answer \ {"Cancelled"}
      BY DEF Answer
    <2>4. QED
      BY <2>1, <2>2, <2>3
  <1>4. /\ sup' \in Supervisor /\ sup'.active = Idle
        /\ \A op \in Op : Overdue(sup, op) => Disconnect(sup).final = op
        /\ Disconnect(sup).final \in Op \cup {NoOp}
    BY <1>1, <1>2, DisconnectEnds
  <1>5. /\ entry' \in [Op -> {"none", "running", "ended", "removed"}]
        /\ \A op \in Op : entry'[op] = "running" => entry[op] = "running"
                                                    /\ op # Disconnect(sup).final
    <2>1. entry \in [Op -> {"none", "running", "ended", "removed"}]
      BY DEF TermTypeInv, TypeOK
    <2>2. QED
      BY <1>2, <1>4, <2>1, OpAssumption DEF EntryEnds
  <1>6. \A op \in Op : ~Holds(op)' /\ ~Unsent(sup', op)
    BY <1>4, IdleFields, OpAssumption DEF Holds, Unsent
  <1>7. \A op, kind : ~QueuedFor(op, kind)'
    BY <1>2 DEF QueuedFor
  <1>8. TermTypeInv'
    <2>1. queue' \in Seq(ThreadMessage)
      BY <1>2, EmptySeq
    <2>2. QED
      BY <1>2, <1>3, <1>4, <1>5, <2>1 DEF TermTypeInv, TypeOK
  <1>9. CallInv' /\ RequestInv'
    BY <1>2, <1>3, <1>6, <1>7 DEF CallInv, RequestInv
  <1>10. OnceInv' /\ BehindInv' /\ GoneInv'
    BY <1>2, <1>4 DEF OnceInv, BehindInv, GoneInv
  <1>11. UnwrittenInv' /\ CancelInv'
    <2>1. "Disconnected" \notin Refusal
      BY DEF Refusal
    <2>2. QED
      BY <1>2, <1>3, <1>6, <1>7, <2>1 DEF UnwrittenInv, CancelInv
  <1>12. FollowedInv'
    <2>1. ASSUME NEW op \in Op, reply'[op] = "TimedOut" \/ answer[op] = "TimedOut",
                 entry'[op] = "running"
          PROVE  FALSE
      <3>1. reply[op] = "TimedOut" \/ answer[op] = "TimedOut"
        BY <1>3, <2>1
      <3>2. Overdue(sup, op)
        BY <1>5, <2>1, <3>1 DEF FollowedInv
      <3>3. QED
        BY <1>4, <1>5, <2>1, <3>2
    <2>2. QED
      BY <1>2, <2>1 DEF FollowedInv
  <1>13. QED
    BY <1>8, <1>9, <1>10, <1>11, <1>12

LEMMA TimerKeeps == ASSUME TermInv, NEW t \in timers, TimerFires(t) PROVE TermInv'
  <1>1. t.op \in Op /\ t.phase \in Phase
    BY DEF TermInv, TermTypeInv, TypeOK
  <1> DEFINE m == Message("ExecTimeout", t.op, t.phase)
  <1>2. m \in ThreadMessage /\ m.kind = "ExecTimeout"
    BY <1>1 DEF ThreadMessage, Message
  <1>3. /\ Send(m) /\ timers' \subseteq timers
        /\ UNCHANGED << sup, thread, results, reply, call, answer, entry, written >>
    BY DEF TimerFires, callerVars
  <1> HIDE DEF m
  <1>4. /\ queue' \in Seq(ThreadMessage)
        /\ \A op, kind : kind \in {"StartExec", "CancelExec"} =>
               (QueuedFor(op, kind)' <=> QueuedFor(op, kind))
        /\ thread = "gone" => queue' = queue
    BY <1>2, <1>3, Sent
  <1>5. OnceInv' /\ BehindInv'
    <2>1. CASE thread = "gone"
      BY <1>3, <1>4, <2>1, SameQueue
    <2>2. CASE thread # "gone"
      <3>1. /\ \A i \in DOMAIN queue : i \in DOMAIN queue' /\ queue'[i] = queue[i]
            /\ \A i \in DOMAIN queue' : queue'[i].kind = "StartExec" => i \in DOMAIN queue
        BY <1>2, <1>3, <2>2, Sent
      <3>2. QED
        BY <1>3, <3>1 DEF TermInv, OnceInv, BehindInv, IsRequest
    <2>3. QED
      BY <2>1, <2>2
  <1>6. thread \in {"running", "leaving", "gone"}
    BY DEF TermInv, TermTypeInv, TypeOK
  <1>7. QED
    BY <1>3, <1>4, <1>5, <1>6, QuietKeeps

LEMMA LoopKeeps == ASSUME TermInv, LoopEnds PROVE TermInv'
  <1>1. UNCHANGED << sup, thread, queue, results, timers, reply, entry, written, call, answer >>
    BY DEF LoopEnds, threadVars, callerVars
  <1>2. /\ queue' \in Seq(ThreadMessage) /\ OnceInv' /\ BehindInv'
        /\ \A op, kind : QueuedFor(op, kind)' <=> QueuedFor(op, kind)
    BY <1>1, SameQueue
  <1>3. thread \in {"running", "leaving", "gone"}
    BY DEF TermInv, TermTypeInv, TypeOK
  <1>4. QED
    BY <1>1, <1>2, <1>3, QuietKeeps

LEMMA ShellKeeps == ASSUME TermInv, CommandEnds \/ CommandReads \/ ShellReads PROVE TermInv'
  <1>1. /\ UNCHANGED << sup, thread, results, timers, reply, entry, written, call, answer >>
        /\ thread # "gone"
    BY DEF CommandEnds, CommandReads, ShellReads, ShellActs, threadVars, callerVars
  <1>2. Prompt \in Seq(Marker) /\ Preexec \in Seq(Marker)
    <2>1. \A a, b, c \in Marker : /\ << a, b, c >> \in Seq(Marker) /\ << a, b >> \in Seq(Marker)
                                  /\ << a >> \in Seq(Marker) /\ << >> \in Seq(Marker)
      OBVIOUS
    <2>2. Prompt = << "CommandFinished", "PromptStart", "InputStart" >>
          \/ Prompt = << "PromptStart", "InputStart" >>
      BY DEF Prompt
    <2>3. Preexec = << "CommandStart" >> \/ Preexec = << >>
      BY DEF Preexec
    <2>4. "CommandFinished" \in Marker /\ "PromptStart" \in Marker /\ "InputStart" \in Marker
          /\ "CommandStart" \in Marker
      BY DEF Marker
    <2>5. QED
      BY <2>1, <2>2, <2>3, <2>4
  <1>3. Prints(Prompt) \/ Prints(Preexec) \/ queue' = queue
    BY DEF CommandEnds, CommandReads, ShellReads
  <1>4. /\ queue' \in Seq(ThreadMessage) /\ OnceInv' /\ BehindInv'
        /\ \A op, kind : kind \in {"StartExec", "CancelExec"} =>
               (QueuedFor(op, kind)' <=> QueuedFor(op, kind))
    BY <1>1, <1>2, <1>3, Printed, SameQueue
  <1>5. thread \in {"running", "leaving", "gone"}
    BY DEF TermInv, TermTypeInv, TypeOK
  <1>6. QED
    BY <1>1, <1>4, <1>5, QuietKeeps

LEMMA CallExecKeeps == ASSUME TermInv, NEW op \in Op, CallExec(op) PROVE TermInv'
  <1> USE DEF TermInv
  <1> DEFINE m == Message("StartExec", op, "none")
  <1>1. /\ call[op] = "idle" /\ thread # "gone" /\ Send(m)
        /\ call' = [call EXCEPT ![op] = "awaiting"]
        /\ entry' = [entry EXCEPT ![op] = IF Tracked(op) THEN "running" ELSE "none"]
        /\ UNCHANGED << answer, reply, sup, thread, results, timers, written >>
    BY DEF CallExec, CallUnchanged, threadVars
  <1>2. m \in ThreadMessage /\ m.kind = "StartExec" /\ m.op = op
    BY DEF ThreadMessage, Message
  <1> HIDE DEF m
  <1>3. /\ queue' \in Seq(ThreadMessage)
        /\ \A x, kind : QueuedFor(x, kind)' => QueuedFor(x, kind) \/ (x = op /\ kind = "StartExec")
        /\ \A x, kind : QueuedFor(x, kind) => QueuedFor(x, kind)'
        /\ \A i \in DOMAIN queue : i \in DOMAIN queue' /\ queue'[i] = queue[i]
        /\ DOMAIN queue' = 1..(Len(queue) + 1) /\ DOMAIN queue = 1..Len(queue)
        /\ Len(queue) \in Nat /\ queue'[Len(queue) + 1] = m
    BY <1>1, <1>2, Sent
  <1>4. /\ op \notin written /\ ~Holds(op) /\ ~QueuedFor(op, "StartExec")
        /\ reply[op] = Pending /\ answer[op] = Pending
    BY <1>1 DEF CallInv
  <1>5. /\ call \in [Op -> {"idle", "awaiting", "returned"}]
        /\ entry \in [Op -> {"none", "running", "ended", "removed"}]
    BY DEF TermTypeInv, TypeOK
  <1>6. TermTypeInv'
    <2>1. /\ call' \in [Op -> {"idle", "awaiting", "returned"}]
          /\ entry' \in [Op -> {"none", "running", "ended", "removed"}]
      BY <1>1, <1>5
    <2>2. QED
      BY <1>1, <1>3, <2>1 DEF TermTypeInv, TypeOK
  <1>7. CallInv'
    BY <1>1, <1>3, <1>4, <1>5 DEF CallInv, Holds
  <1>8. RequestInv'
    BY <1>1, <1>3, <1>4 DEF RequestInv, Holds
  <1>9. \A i \in DOMAIN queue' : i \in DOMAIN queue \/ i = Len(queue) + 1
    BY <1>3
  <1>10. OnceInv'
    <2>1. \A i \in DOMAIN queue : IsRequest(i) => queue[i].op # op
      BY <1>4 DEF QueuedFor, IsRequest
    <2>2. QED
      BY <1>2, <1>3, <1>9, <2>1 DEF OnceInv, IsRequest
  <1>11. BehindInv'
    <2>1. answer[op] # "Cancelled"
      BY <1>4 DEF Pending
    <2>2. QED
      BY <1>1, <1>2, <1>3, <1>9, <2>1 DEF BehindInv, IsRequest
  <1>12. UnwrittenInv'
    <2>1. Pending \notin Refusal
      BY DEF Pending, Refusal
    <2>2. QED
      BY <1>1, <1>3, <1>4, <2>1 DEF UnwrittenInv, Holds, Unsent
  <1>13. CancelInv'
    BY <1>1, <1>3 DEF CancelInv, Unsent
  <1>14. GoneInv'
    BY <1>1 DEF GoneInv
  <1>15. FollowedInv'
    <2>1. Pending # "TimedOut"
      BY DEF Pending
    <2>2. QED
      BY <1>1, <1>4, <1>5, <2>1 DEF FollowedInv, Overdue
  <1>16. QED
    BY <1>6, <1>7, <1>8, <1>10, <1>11, <1>12, <1>13, <1>14, <1>15

(* A caller returns, with the answer it was sent or because it left.       *)
LEMMA ReturnedFields ==
    ASSUME TermInv, NEW op \in Op, NEW what \in Answer, Returns(op, what)
    PROVE  /\ call[op] = "awaiting" /\ answer[op] = Pending
           /\ UNCHANGED << sup, thread, results, timers, written >>
           /\ call' \in [Op -> {"idle", "awaiting", "returned"}]
           /\ answer' \in [Op -> Answer \cup {Pending}]
           /\ entry' \in [Op -> {"none", "running", "ended", "removed"}]
           /\ reply' \in [Op -> (Answer \ {"Cancelled"}) \cup {Pending}]
           /\ call'[op] = "returned" /\ answer'[op] = what /\ reply'[op] = Pending
           /\ entry'[op] = "running" => entry[op] = "running" /\ (what = "TimedOut" \/ ~Tracked(op))
           /\ \A x \in Op \ {op} : /\ call'[x] = call[x] /\ answer'[x] = answer[x]
                                   /\ reply'[x] = reply[x] /\ entry'[x] = entry[x]
  <1>1. /\ call \in [Op -> {"idle", "awaiting", "returned"}]
        /\ answer \in [Op -> Answer \cup {Pending}]
        /\ entry \in [Op -> {"none", "running", "ended", "removed"}]
        /\ reply \in [Op -> (Answer \ {"Cancelled"}) \cup {Pending}]
    BY DEF TermInv, TermTypeInv, TypeOK
  <1>2. /\ call[op] = "awaiting"
        /\ call' = [call EXCEPT ![op] = "returned"]
        /\ answer' = [answer EXCEPT ![op] = what]
        /\ reply' = [reply EXCEPT ![op] = Pending]
        /\ UNCHANGED << sup, thread, results, timers, written >>
    BY DEF Returns, CallUnchanged, threadVars
  <1>3. answer[op] = Pending
    BY <1>2 DEF TermInv, CallInv
  <1>4. \E e \in {entry[op], "ended", "removed"} :
            /\ entry' = [entry EXCEPT ![op] = e]
            /\ e = entry[op] \/ e \in {"ended", "removed"}
            /\ ~(~Tracked(op) \/ what = "TimedOut") => e \in {"ended", "removed"}
    <2>1. CASE ~Tracked(op) \/ what = "TimedOut"
      <3>1. entry' = [entry EXCEPT ![op] = entry[op]]
        BY <2>1 DEF Returns
      <3>2. QED
        BY <2>1, <3>1
    <2>2. CASE Tracked(op) /\ what \in Completion \ {"TimedOut"}
      <3>1. entry' = [entry EXCEPT ![op] = "ended"]
        BY <2>2 DEF Returns
      <3>2. QED
        BY <3>1
    <2>3. CASE Tracked(op) /\ what # "TimedOut" /\ what \notin Completion \ {"TimedOut"}
      <3>1. entry' = [entry EXCEPT ![op] = "removed"]
        BY <2>3 DEF Returns
      <3>2. QED
        BY <3>1
    <2>4. QED
      BY <2>1, <2>2, <2>3
  <1>5. /\ entry' \in [Op -> {"none", "running", "ended", "removed"}]
        /\ entry'[op] = "running" => entry[op] = "running" /\ (what = "TimedOut" \/ ~Tracked(op))
        /\ \A x \in Op \ {op} : entry'[x] = entry[x]
    BY <1>1, <1>4
  <1>6. QED
    BY <1>1, <1>2, <1>3, <1>5

LEMMA CallReturnsKeeps == ASSUME TermInv, NEW op \in Op, CallReturns(op) PROVE TermInv'
  <1> USE DEF TermInv
  <1>1. reply[op] # Pending /\ reply[op] \in Answer \ {"Cancelled"}
    BY DEF CallReturns, TermTypeInv
  <1>2. PICK what \in Answer \ {"Cancelled"} : what = reply[op]
    BY <1>1
  <1>3. Returns(op, what) /\ queue' = queue
    BY <1>2 DEF CallReturns
  <1>4. /\ call[op] = "awaiting" /\ answer[op] = Pending
        /\ UNCHANGED << sup, thread, results, timers, written >>
        /\ call' \in [Op -> {"idle", "awaiting", "returned"}]
        /\ answer' \in [Op -> Answer \cup {Pending}]
        /\ entry' \in [Op -> {"none", "running", "ended", "removed"}]
        /\ reply' \in [Op -> (Answer \ {"Cancelled"}) \cup {Pending}]
        /\ call'[op] = "returned" /\ answer'[op] = what /\ reply'[op] = Pending
        /\ entry'[op] = "running" => entry[op] = "running"
        /\ \A x \in Op \ {op} : /\ call'[x] = call[x] /\ answer'[x] = answer[x]
                                /\ reply'[x] = reply[x] /\ entry'[x] = entry[x]
    BY <1>3, ReturnedFields
  <1>5. \A x, kind : QueuedFor(x, kind)' <=> QueuedFor(x, kind)
    BY <1>3 DEF QueuedFor
  <1>6. TermTypeInv'
    BY <1>3, <1>4 DEF TermTypeInv, TypeOK
  <1>7. ~QueuedFor(op, "CancelExec")
    BY <1>4 DEF CallInv, Pending
  <1>8. CallInv' /\ RequestInv'
    BY <1>4, <1>5, <1>7 DEF CallInv, RequestInv, Holds, Pending
  <1>9. OnceInv' /\ BehindInv' /\ GoneInv'
    <2>1. \A i \in DOMAIN queue : IsRequest(i) => queue[i].op \in Op
      <3>1. \A i \in DOMAIN queue : queue[i] \in ThreadMessage
        BY LenProperties, ElementOfSeq DEF TermTypeInv
      <3>2. QED
        BY <3>1, MessageFields DEF IsRequest
    <2>2. \A x \in Op : answer'[x] = "Cancelled" => answer[x] = "Cancelled"
      BY <1>4
    <2>3. QED
      BY <1>3, <1>4, <2>1, <2>2 DEF OnceInv, BehindInv, GoneInv, IsRequest
  <1>10. UnwrittenInv' /\ CancelInv'
    <2>1. Pending \notin Refusal
      BY DEF Pending, Refusal
    <2>2. UnwrittenInv'
      BY <1>2, <1>4, <1>5, <2>1 DEF UnwrittenInv, Holds
    <2>3. CancelInv'
      BY <1>4, <1>5 DEF CancelInv
    <2>4. QED
      BY <2>2, <2>3
  <1>11. FollowedInv'
    <2>1. Pending # "TimedOut"
      BY DEF Pending
    <2>2. QED
      BY <1>2, <1>4, <2>1 DEF FollowedInv
  <1>12. QED
    BY <1>6, <1>8, <1>9, <1>10, <1>11

(* A cancelled call sends its cancellation behind its request.             *)
LEMMA CallCancelledKeeps == ASSUME TermInv, NEW op \in Op, CallCancelled(op) PROVE TermInv'
  <1> USE DEF TermInv
  <1> DEFINE m == Message("CancelExec", op, "none")
  <1>1. m \in ThreadMessage /\ m.kind = "CancelExec" /\ m.op = op
    BY DEF ThreadMessage, Message
  <1>2. Returns(op, "Cancelled") /\ Send(m)
    BY DEF CallCancelled
  <1> HIDE DEF m
  <1>3. "Cancelled" \in Answer
    BY DEF Answer
  <1>4. /\ call[op] = "awaiting" /\ answer[op] = Pending
        /\ UNCHANGED << sup, thread, results, timers, written >>
        /\ call' \in [Op -> {"idle", "awaiting", "returned"}]
        /\ answer' \in [Op -> Answer \cup {Pending}]
        /\ entry' \in [Op -> {"none", "running", "ended", "removed"}]
        /\ reply' \in [Op -> (Answer \ {"Cancelled"}) \cup {Pending}]
        /\ call'[op] = "returned" /\ answer'[op] = "Cancelled" /\ reply'[op] = Pending
        /\ \A x \in Op \ {op} : /\ call'[x] = call[x] /\ answer'[x] = answer[x]
                                /\ reply'[x] = reply[x] /\ entry'[x] = entry[x]
    BY <1>2, <1>3, ReturnedFields
  <1>5. /\ queue' \in Seq(ThreadMessage)
        /\ \A x, kind : QueuedFor(x, kind)' => QueuedFor(x, kind) \/ (x = op /\ kind = "CancelExec")
        /\ \A x, kind : QueuedFor(x, kind) => QueuedFor(x, kind)'
        /\ thread = "gone" => queue' = queue
    BY <1>1, <1>2, Sent
  <1>6. TermTypeInv'
    BY <1>4, <1>5 DEF TermTypeInv, TypeOK
  <1>7. CallInv' /\ RequestInv'
    BY <1>4, <1>5 DEF CallInv, RequestInv, Holds, Pending
  <1>8. UnwrittenInv' /\ FollowedInv'
    <2>1. Pending \notin Refusal /\ "Cancelled" \notin Refusal /\ Pending # "TimedOut"
      BY DEF Pending, Refusal
    <2>2. UnwrittenInv'
      BY <1>4, <1>5, <2>1 DEF UnwrittenInv, Holds
    <2>3. FollowedInv'
      BY <1>4, <2>1 DEF FollowedInv
    <2>4. QED
      BY <2>2, <2>3
  <1>9. GoneInv'
    BY <1>4, <1>5 DEF GoneInv
  <1>10. CASE thread = "gone"
    <2>1. queue = << >> /\ queue' = << >> /\ sup'.active = Idle
      BY <1>4, <1>5, <1>10 DEF GoneInv
    <2>2. OnceInv' /\ BehindInv'
      BY <2>1 DEF OnceInv, BehindInv
    <2>3. CancelInv'
      BY <2>1, IdleFields, OpAssumption DEF CancelInv, Unsent
    <2>4. QED
      BY <1>6, <1>7, <1>8, <1>9, <2>2, <2>3
  <1>11. CASE thread # "gone"
    <2>1. /\ \A i \in DOMAIN queue : i \in DOMAIN queue' /\ queue'[i] = queue[i]
          /\ DOMAIN queue' = 1..(Len(queue) + 1) /\ DOMAIN queue = 1..Len(queue)
          /\ Len(queue) \in Nat /\ queue'[Len(queue) + 1] = m
          /\ QueuedFor(op, "CancelExec")'
      BY <1>1, <1>2, <1>11, Sent
    <2>2. /\ Len(queue) + 1 \in DOMAIN queue' /\ \A i \in DOMAIN queue : Len(queue) + 1 > i
          /\ \A i \in DOMAIN queue' : queue'[i].kind = "StartExec" => i \in DOMAIN queue
      BY <1>1, <2>1
    <2>3. OnceInv'
      BY <2>1, <2>2 DEF OnceInv, IsRequest
    <2>4. BehindInv'
      <3>1. SUFFICES ASSUME NEW i \in DOMAIN queue', queue'[i].kind = "StartExec",
                            answer'[queue'[i].op] = "Cancelled"
                     PROVE  \E j \in DOMAIN queue' : j > i /\ queue'[j].kind = "CancelExec"
                                                     /\ queue'[j].op = queue'[i].op
        BY DEF BehindInv, IsRequest
      <3>2. i \in DOMAIN queue /\ queue'[i] = queue[i]
        BY <2>1, <2>2, <3>1
      <3>3. CASE queue[i].op = op
        BY <1>1, <2>1, <2>2, <3>2, <3>3
      <3>4. CASE queue[i].op # op
        <4>1. queue[i] \in ThreadMessage
          BY <3>2, LenProperties, ElementOfSeq DEF TermTypeInv
        <4>2. queue[i].op \in Op \ {op}
          BY <3>1, <3>2, <3>4, <4>1, MessageFields
        <4>3. answer[queue[i].op] = "Cancelled"
          BY <1>4, <3>1, <3>2, <4>2
        <4>4. PICK j \in DOMAIN queue : j > i /\ queue[j].kind = "CancelExec"
                                        /\ queue[j].op = queue[i].op
          BY <3>1, <3>2, <4>3 DEF BehindInv, IsRequest
        <4>5. QED
          BY <2>1, <3>2, <4>4
      <3>5. QED
        BY <3>3, <3>4
    <2>5. CancelInv'
      BY <1>4, <1>5, <2>1 DEF CancelInv
    <2>6. QED
      BY <1>6, <1>7, <1>8, <1>9, <2>3, <2>4, <2>5
  <1>12. QED
    BY <1>10, <1>11

LEMMA InitHolds == Init => TermInv
  <1> SUFFICES ASSUME Init PROVE TermInv
    OBVIOUS
  <1> USE DEF Init
  <1>1. /\ NewSupervisor \in Supervisor /\ sup.active = Idle /\ sup = NewSupervisor
    BY IdleFields DEF NewSupervisor, Supervisor, Readiness
  <1>2. queue \in Seq(ThreadMessage)
    BY EmptySeq
  <1>3. TermTypeInv
    BY <1>1, <1>2 DEF TermTypeInv, TypeOK, Pending
  <1>4. \A op \in Op : ~Holds(op) /\ ~Unsent(sup, op)
    BY <1>1, IdleFields, OpAssumption DEF Holds, Unsent
  <1>5. \A op, kind : ~QueuedFor(op, kind)
    BY DEF QueuedFor
  <1>6. CallInv /\ RequestInv /\ OnceInv /\ BehindInv
    BY <1>4, <1>5 DEF CallInv, RequestInv, OnceInv, BehindInv
  <1>7. UnwrittenInv /\ CancelInv
    BY <1>4, <1>5 DEF UnwrittenInv, CancelInv, Pending, Refusal
  <1>8. GoneInv /\ FollowedInv
    BY DEF GoneInv, FollowedInv, Pending
  <1>9. QED
    BY <1>3, <1>6, <1>7, <1>8 DEF TermInv

LEMMA NextKeeps == TermInv /\ [Next]_vars => TermInv'
  <1> SUFFICES ASSUME TermInv, [Next]_vars PROVE TermInv'
    OBVIOUS
  <1>1. CASE HandleStart
    BY <1>1, StartKeeps
  <1>2. CASE HandleCancel
    BY <1>2, CancelKeeps
  <1>3. CASE HandleTimeout
    BY <1>3, TimeoutKeeps
  <1>4. CASE HandleChunk
    BY <1>4, ChunkKeeps
  <1>5. CASE HandleDisconnect \/ HandleShutdown
    BY <1>5, BreaksKeeps DEF HandleDisconnect, HandleShutdown
  <1>6. CASE Leave
    BY <1>6, LeaveKeeps
  <1>7. CASE HandleWrite \/ HandleInterrupt
    BY <1>7, InputKeeps
  <1>8. CASE \E t \in timers : TimerFires(t)
    BY <1>8, TimerKeeps
  <1>9. CASE \E op \in Op : CallExec(op) \/ CallReturns(op) \/ CallCancelled(op)
    BY <1>9, CallExecKeeps, CallReturnsKeeps, CallCancelledKeeps
  <1>10. CASE LoopEnds
    BY <1>10, LoopKeeps
  <1>11. CASE CommandEnds \/ CommandReads \/ ShellReads
    BY <1>11, ShellKeeps
  <1>12. CASE UNCHANGED vars
    <2>1. /\ UNCHANGED << sup, results, reply, call, answer, entry, written, timers, thread, queue >>
      BY <1>12 DEF vars, threadVars, callerVars
    <2>2. /\ queue' \in Seq(ThreadMessage) /\ OnceInv' /\ BehindInv'
          /\ \A op, kind : QueuedFor(op, kind)' <=> QueuedFor(op, kind)
      BY <2>1, SameQueue
    <2>3. thread \in {"running", "leaving", "gone"}
      BY DEF TermInv, TermTypeInv, TypeOK
    <2>4. QED
      BY <2>1, <2>2, <2>3, QuietKeeps
  <1>13. QED
    BY <1>1, <1>2, <1>3, <1>4, <1>5, <1>6, <1>7, <1>8, <1>9, <1>10, <1>11, <1>12
       DEF Next, Supervise

-----------------------------------------------------------------------------
(* The invariant that the theorems rest on.                                *)
THEOREM TermInvariant == Spec => []TermInv
  BY InitHolds, NextKeeps, PTL DEF Spec

(* Every state of the terminal, of its supervisor and of its callers has   *)
(* its type (LocalExecSupervisor, run_local_exec_supervisor).              *)
THEOREM TermTypes == Spec => []TypeOK
  <1>1. TermInv => TypeOK
    BY DEF TermInv, TermTypeInv
  <1>2. QED
    BY <1>1, TermInvariant, PTL

(* Nothing was written, or will be, of a command whose caller was told     *)
(* that it was refused: whatever the timers, the user's input and the      *)
(* prompts do between its request and its answer (timeout, on_input and    *)
(* submit_active of the supervisor).                                       *)
THEOREM RefusedIsNotWritten == Spec => []RefusedNotWritten
  <1>1. TermInv => RefusedNotWritten
    BY DEF TermInv, UnwrittenInv, RefusedNotWritten
  <1>2. QED
    BY <1>1, TermInvariant, PTL

(* The entry of a command whose output took too long is not left behind:   *)
(* while it says that the command runs, the supervisor follows the command *)
(* and will tell its observer (timeout, disconnect).                       *)
THEOREM TimedOutIsFollowed == Spec => []TimedOutStillFollowed
  <1>1. TermInv => TimedOutStillFollowed
    BY DEF TermInv, FollowedInv, TimedOutStillFollowed, Overdue
  <1>2. QED
    BY <1>1, TermInvariant, PTL

(* What the supervisor writes of an operation, its request or its wait for *)
(* the prompt is the reason.                                               *)
LEMMA WritesOwn ==
    ASSUME TermInv, NEW out, NEW data, NEW owed \in SUBSET Op, NEW new \in Op \cup {NoOp},
           NEW quit \in Op \cup {NoOp}, thread = "running", Acts(sup, new, quit, out),
           Apply(out, data, owed), NEW op \in Op, op \in written' \ written
    PROVE  op = new \/ Unsent(sup, op)
  <1>1. written' = written \/ (written' = written \cup {out.write.op}
                               /\ out.write.kind \in {"text", "line"})
    BY DEF Apply
  <1>2. Sends(out, op)
    BY <1>1 DEF Sends
  <1>3. QED
    BY <1>2 DEF Acts

LEMMA WritesAsked ==
    ASSUME TermInv, [Next]_vars, NEW op \in Op, op \in written' \ written
    PROVE  answer[op] = "Cancelled" => QueuedFor(op, "CancelExec")
  <1>1. Unsent(sup, op) => (answer[op] = "Cancelled" => QueuedFor(op, "CancelExec"))
    BY DEF TermInv, CancelInv
  <1>2. results \in SUBSET Op /\ sup \in Supervisor
    BY DEF TermInv, TermTypeInv, TypeOK
  <1>3. CASE HandleStart
    <2>1. /\ thread = "running" /\ queue # << >> /\ Head(queue).kind = "StartExec"
          /\ queue' = Tail(queue) /\ UNCHANGED answer
      BY <1>3 DEF HandleStart, Takes, ThreadUnchanged, callerVars
    <2>2. PICK new \in Op : new = Head(queue).op
      BY <2>1, Taken, MessageFields
    <2>3. Apply(Start(sup, new), Nothing, results \cup {new})
      BY <1>3, <2>2 DEF HandleStart
    <2>4. sup.active.op # new
      BY <2>1, <2>2, Taken DEF TermInv, RequestInv, Holds
    <2>5. op = new \/ Unsent(sup, op)
      BY <1>2, <2>1, <2>3, <2>4, StartActs, OpAssumption, WritesOwn
    <2>6. answer[new] = "Cancelled" => QueuedFor(new, "CancelExec")
      BY <2>1, <2>2, Taken
    <2>7. QED
      BY <1>1, <2>5, <2>6
  <1>4. CASE HandleCancel
    <2>1. /\ thread = "running" /\ queue # << >> /\ Head(queue).kind = "CancelExec"
          /\ queue' = Tail(queue) /\ UNCHANGED answer
      BY <1>4 DEF HandleCancel, Takes, ThreadUnchanged, callerVars
    <2>2. PICK quit \in Op : quit = Head(queue).op
      BY <2>1, Taken, MessageFields
    <2>3. Apply(Cancel(sup, quit), Nothing, results \ {quit})
      BY <1>4, <2>2 DEF HandleCancel
    <2>4. Acts(sup, NoOp, quit, Cancel(sup, quit))
      BY <1>2, CancelActs
    <2>5. results \ {quit} \in SUBSET Op
      BY <1>2
    <2>6. QED
      BY <1>1, <2>1, <2>3, <2>4, <2>5, OpAssumption, WritesOwn
  <1>5. CASE HandleTimeout
    <2>1. /\ thread = "running" /\ queue # << >> /\ Head(queue).kind = "ExecTimeout"
          /\ queue' = Tail(queue) /\ UNCHANGED answer
          /\ Apply(Timeout(sup, Head(queue).op, Head(queue).what), Nothing, results)
      BY <1>5 DEF HandleTimeout, Takes, ThreadUnchanged, callerVars
    <2>2. Head(queue).op \in Op /\ Head(queue).what \in Phase
      BY <2>1, Taken, MessageFields
    <2>3. Acts(sup, NoOp, NoOp, Timeout(sup, Head(queue).op, Head(queue).what))
      BY <1>2, <2>2, TimeoutActs
    <2>4. QED
      BY <1>1, <1>2, <2>1, <2>3, OpAssumption, WritesOwn
  <1>6. CASE HandleChunk
    <2>1. /\ thread = "running" /\ queue # << >> /\ Head(queue).kind = "TerminalChunk"
          /\ queue' = Tail(queue) /\ UNCHANGED answer
          /\ Apply(Marked(sup, Head(queue).what), Nothing, results)
      BY <1>6 DEF HandleChunk, Takes, ThreadUnchanged, callerVars
    <2>2. Head(queue).what \in Marker
      BY <2>1, Taken, MessageFields
    <2>3. Acts(sup, NoOp, NoOp, Marked(sup, Head(queue).what))
      BY <1>2, <2>2, MarkedActs
    <2>4. QED
      BY <1>1, <1>2, <2>1, <2>3, OpAssumption, WritesOwn
  <1>7. CASE HandleWrite
    <2>1. PICK enter \in BOOLEAN :
              Apply(Input(sup, enter), IF enter THEN Line(User) ELSE Text(User), results)
      BY <1>7 DEF HandleWrite
    <2>2. Acts(sup, NoOp, NoOp, Input(sup, enter)) /\ thread = "running"
      BY <1>2, <1>7, InputActs DEF HandleWrite, TakesInput
    <2>3. QED
      BY <1>1, <1>2, <2>1, <2>2, OpAssumption, WritesOwn
  <1>8. CASE HandleInterrupt
    <2>1. Apply(Outcome(sup), IF MayInterrupt(sup) THEN CtrlC(NoOp) ELSE Nothing, results)
      BY <1>8 DEF HandleInterrupt
    <2>2. Acts(sup, NoOp, NoOp, Outcome(sup)) /\ thread = "running"
      BY <1>2, <1>8, KeepsActive DEF HandleInterrupt, TakesInput
    <2>3. QED
      BY <1>1, <1>2, <2>1, <2>2, OpAssumption, WritesOwn
  <1>9. ASSUME ~(HandleStart \/ HandleCancel \/ HandleTimeout \/ HandleChunk
                 \/ HandleWrite \/ HandleInterrupt)
        PROVE  UNCHANGED written
    <2>1. CASE UNCHANGED vars
      BY <2>1 DEF vars
    <2>2. CASE HandleDisconnect \/ HandleShutdown \/ Leave
      BY <2>2 DEF HandleDisconnect, HandleShutdown, Breaks, Leave
    <2>3. CASE \E t \in timers : TimerFires(t)
      BY <2>3 DEF TimerFires
    <2>4. CASE \E x \in Op : CallExec(x) \/ CallReturns(x) \/ CallCancelled(x)
      BY <2>4 DEF CallExec, CallReturns, CallCancelled, Returns, CallUnchanged
    <2>5. CASE LoopEnds
      BY <2>5 DEF LoopEnds
    <2>6. CASE CommandEnds \/ CommandReads \/ ShellReads
      BY <2>6 DEF CommandEnds, CommandReads, ShellReads, ShellActs
    <2>7. QED
      BY <1>9, <2>1, <2>2, <2>3, <2>4, <2>5, <2>6 DEF Next, Supervise
  <1>10. QED
    BY <1>3, <1>4, <1>5, <1>6, <1>7, <1>8, <1>9

(* Once the thread has taken a cancellation, a command that was not yet    *)
(* written never is: its request is no longer in the queue, for the        *)
(* cancellation came behind it, and the supervisor let go of it (cancel,   *)
(* run_local_exec_supervisor).                                             *)
THEOREM CancelledIsNotWritten == Spec => CancelledStaysUnwritten
  <1>1. TermInv /\ [Next]_vars =>
            [\A op \in Op : op \in written' \ written =>
                 answer[op] # "Cancelled" \/ QueuedFor(op, "CancelExec")]_vars
    BY WritesAsked
  <1>2. QED
    BY <1>1, TermInvariant, PTL DEF Spec, CancelledStaysUnwritten

=============================================================================
