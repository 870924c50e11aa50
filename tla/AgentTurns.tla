------------------------------- MODULE AgentTurns -------------------------------
(***************************************************************************)
(* The turns of one agent session: crates/agent_runtime/src/runtime        *)
(* (mod.rs, session_turns.rs, session.rs) with the agent task that runs a  *)
(* turn (tasks/agent.rs, tasks/context_compaction.rs, tools/router.rs).    *)
(*                                                                         *)
(* A task is one future: run_turn_blocking or start_turn, which begins the *)
(* turn of the same name, or approve_pending_tool / reject_pending_tool,   *)
(* which goes on with a turn that was paused for the user's approval.      *)
(* interrupt and close_session may come at any time.  An action is what    *)
(* one thread does under the lock of the turns (or of the history), or     *)
(* between two awaits where it shares nothing; events are sent outside of  *)
(* the lock and are actions of their own.                                  *)
(***************************************************************************)
EXTENDS AgentHistory, FiniteSets, Functions

CONSTANTS
    Task,           \* the futures; a turn is named by the task that began it
    Call,           \* the tool calls a model may ask for
    Risky,          \* the calls of tools whose risk is not Read
    Unavailable,    \* calls of unknown tools, or with malformed arguments
    Parallel,       \* the calls of tools that may run side by side
    Modes,          \* tool execution modes in use; "Ask" is the task kind Ask
    NoTask, NoCall, \* absent values
    MaxIterations,  \* agent_max_iterations (64 by default, at least 1)
    MaxItems,       \* the history's limit (200)
    KeepLast,       \* items a compaction keeps (32)
    Says,           \* "None", "Assistant", "Reasoned": texts a model may send
    MaxCalls        \* bound: calls of each class in one response

ASSUME TaskAssumption == NoTask \notin Task
ASSUME CallAssumption ==
    /\ Risky \subseteq Call /\ Unavailable \subseteq Call /\ Parallel \subseteq Call
    /\ NoCall \notin Call
ASSUME BoundAssumption ==
    /\ MaxIterations \in Nat \ {0} /\ MaxItems \in Nat \ {0} /\ KeepLast \in Nat
    /\ MaxCalls \in Nat
ASSUME ModeAssumption == /\ Modes \subseteq {"Auto", "ReadOnly", "Manual", "Ask"}
                         /\ Says \subseteq {"None", "Assistant", "Reasoned"}

VARIABLES
    registered, \* of the session manager: "open", "removed" from the map, "closed"
    active,     \* TurnState.active: the task whose turn and token it names
    pending,    \* TurnState.pending_tool_approval
    cancelled,  \* TurnState.cancelled: turns that were interrupted
    history,    \* SessionState.history
    pc,         \* where each task is
    turn,       \* the turn a task works for
    token,      \* whether a task's CancellationToken was cancelled
    script,     \* what a task still does for the response it handles
    response,   \* the calls of that response, as they were sorted
    iteration,  \* passes of run_agent_loop so far
    outcome,    \* the task's TaskOutcome
    mode,       \* tool mode and kind of each turn
    notice,     \* turns detached by interrupt, TurnCancelled not yet sent
    events,     \* what each turn's subscribers saw of its lifecycle
    asked,      \* calls of each turn put to the user, not yet answered
    granted     \* calls of each turn the user approved, not yet started

sessionVars == <<registered, active, pending, cancelled>>
taskVars    == <<pc, turn, token, script, response, iteration, outcome>>
consentVars == <<asked, granted>>
vars == <<registered, active, pending, cancelled, history, pc, turn, token, script,
          response, iteration, outcome, mode, notice, events, asked, granted>>

-----------------------------------------------------------------------------
(* Data *)

Item == [kind : Kinds, turn : Task \cup {NoTask}, call : Call \cup {NoCall}]

Say(u, kind) == [kind |-> kind, turn |-> u, call |-> NoCall]
CallItem(u, c) == [kind |-> "Call", turn |-> u, call |-> c]
ObsItem(u, c) == [kind |-> "Obs", turn |-> u, call |-> c]
SummaryItem == Say(NoTask, "Summary")

NoPending == [turn |-> NoTask, calls |-> <<>>]
PendingApproval == [turn : Task, calls : Seq(Call)]
NoResponse == [refused |-> <<>>, gated |-> <<>>, executable |-> <<>>]

\* The steps of a script: a record_* write, the run of a tool (joined with the
\* next run into a parallel batch or not), the pause for approval, the end.
WriteOp(item) == [do |-> "write", item |-> item]
RunOp(c, joined) == [do |-> "run", call |-> c, joined |-> joined]
PauseOp(calls) == [do |-> "pause", calls |-> calls]
FinishOp(result) == [do |-> "finish", result |-> result]

Results == {"None", "Completed", "Failed", "Cancelled", "NeedUserInput"}
Op == [do : {"write"}, item : Item] \cup [do : {"run"}, call : Call, joined : BOOLEAN]
        \cup [do : {"pause"}, calls : Seq(Call)] \cup [do : {"finish"}, result : Results]

\* emit_outcome
OutcomeEvent(result) == CASE result = "Completed" -> "TurnCompleted"
                          [] result = "Failed"    -> "TurnFailed"
                          [] result = "Cancelled" -> "TurnCancelled"
                          [] OTHER                -> "NeedUserInput"

EndEvents == {"TurnCompleted", "TurnFailed", "TurnCancelled"}

\* Responses name each call once.
CallSeqs(S) == {s \in UNION {[1..n -> S] : n \in 0..MaxCalls} :
                    \A i, j \in DOMAIN s : s[i] = s[j] => i = j}

\* tool_is_available over specs_for_task, and arguments that parse.
Available(m, c) == c \notin Unavailable /\ (m = "ReadOnly" => c \notin Risky)

\* requires_tool_approval
NeedsApproval(m, c) == m = "Manual" /\ c \in Risky

RefusedCalls(m) == {c \in Call : ~Available(m, c)}
GatedCalls(m) == {c \in Call : Available(m, c) /\ NeedsApproval(m, c)}
ExecutableCalls(m) == {c \in Call : Available(m, c) /\ ~NeedsApproval(m, c)}

IsBusy == active # NoTask \/ pending # NoPending

-----------------------------------------------------------------------------
(* Scripts *)

\* What the loop of run_agent_loop does with a response: the text, the
\* observations of refused calls, then either the pause (the executable calls
\* of such a response are dropped) or all calls and their batches
\* (executable_call_batches joins neighbours that may run in parallel).
ResponseScript(u, say, r) ==
    LET text == IF say = "None" THEN <<>> ELSE <<WriteOp(Say(u, say))>>
        refusals == [i \in DOMAIN r.refused |-> WriteOp(ObsItem(u, r.refused[i]))]
        calls == [i \in DOMAIN r.executable |-> WriteOp(CallItem(u, r.executable[i]))]
        runs == [i \in DOMAIN r.executable |->
                    RunOp(r.executable[i],
                          /\ i < Len(r.executable)
                          /\ r.executable[i] \in Parallel
                          /\ r.executable[i + 1] \in Parallel)]
    IN  text \o refusals \o (IF r.gated # <<>> THEN <<PauseOp(r.gated)>> ELSE calls \o runs)

\* Mutant: the calls run whatever the user decided.
DecisionRuns(u, calls, approved) ==
    [i \in DOMAIN calls |-> WriteOp(CallItem(u, calls[i]))]
        \o [i \in DOMAIN calls |-> RunOp(calls[i], FALSE)]

\* continue_after_tool_decision: all calls, then one after the other.
DecisionScript(u, calls, approved) ==
    LET written == [i \in DOMAIN calls |-> WriteOp(CallItem(u, calls[i]))]
        runs == [i \in DOMAIN calls |-> RunOp(calls[i], FALSE)]
        rejections == [i \in DOMAIN calls |-> WriteOp(ObsItem(u, calls[i]))]
    IN  written \o (IF approved THEN runs ELSE rejections)

\* The runs at the head of a script that form one batch.
BatchLen(s) == CHOOSE n \in 1..Len(s) :
                   /\ ~s[n].joined
                   /\ \A i \in 1..(n - 1) : s[i].do = "run" /\ s[i].joined

Batch(s) == {s[i].call : i \in 1..BatchLen(s)}

\* A batch returned: its observations are written next, in call order.
AfterBatch(u, s) == [i \in 1..BatchLen(s) |-> WriteOp(ObsItem(u, s[i].call))]
                        \o SubSeq(s, BatchLen(s) + 1, Len(s))

-----------------------------------------------------------------------------

Init ==
    /\ registered = "open" /\ active = NoTask /\ pending = NoPending /\ cancelled = {}
    /\ history = <<>>
    /\ pc = [t \in Task |-> "idle"]
    /\ turn = [t \in Task |-> NoTask]
    /\ token = [t \in Task |-> FALSE]
    /\ script = [t \in Task |-> <<>>]
    /\ response = [t \in Task |-> NoResponse]
    /\ iteration = [t \in Task |-> 0]
    /\ outcome = [t \in Task |-> "None"]
    /\ mode = [t \in Task |-> "None"]
    /\ notice = {}
    /\ events = [t \in Task |-> <<>>]
    /\ asked = [t \in Task |-> {}] /\ granted = [t \in Task |-> {}]

Goto(t, place) == pc' = [pc EXCEPT ![t] = place]

Emit(u, event) == events' = [events EXCEPT ![u] = Append(@, event)]

\* The task returns an outcome and is about to clear the active turn.
Return(t, result) ==
    /\ outcome' = [outcome EXCEPT ![t] = result]
    /\ script' = [script EXCEPT ![t] = <<>>]
    /\ response' = [response EXCEPT ![t] = NoResponse]
    /\ Goto(t, "clear")

-----------------------------------------------------------------------------
(* Beginning a turn, or going on with a paused one *)

\* run_turn_blocking and start_turn look the session up ...
StartTurn(t, m) ==
    /\ pc[t] = "idle" /\ registered = "open"
    /\ turn' = [turn EXCEPT ![t] = t]
    /\ mode' = [mode EXCEPT ![t] = m]
    /\ Goto(t, "found")
    /\ UNCHANGED <<sessionVars, history, token, script, response, iteration, 
                   outcome, notice, events, consentVars>>

\* ... and then Session::try_set_active_turn: SessionBusy, or the turn is on.
TryActivate(t) ==
    /\ pc[t] = "found"
    /\ IF IsBusy
       THEN Goto(t, "done") /\ UNCHANGED active
       ELSE Goto(t, "announce") /\ active' = t
    /\ UNCHANGED <<registered, pending, cancelled, history, turn, token, script, response,
                   iteration, outcome, mode, notice, events, consentVars>>

AnnounceTurn(t) ==
    /\ pc[t] = "announce"
    /\ Emit(turn[t], "TurnStarted")
    /\ Goto(t, "input")
    /\ UNCHANGED <<sessionVars, history, turn, token, script, response, iteration, 
                   outcome, mode, notice, consentVars>>

\* AgentTask::run records the user's input, whether or not the turn is still on.
RecordInput(t) ==
    /\ pc[t] = "input"
    /\ history' = Record(history, Say(turn[t], "User"), MaxItems)
    /\ Goto(t, "loop")
    /\ UNCHANGED <<sessionVars, turn, token, script, response, iteration, outcome,
                   mode, notice, events, consentVars>>

\* resolve_pending_tool up to begin_pending_tool_resolution.  Busy, Missing and
\* Mismatch change nothing; otherwise the pending calls become a new task's,
\* with a token of its own, for the turn that was paused.
BeginResolution(t, c, approved) ==
    /\ pc[t] = "idle" /\ registered # "closed"
    /\ active = NoTask
    /\ pending # NoPending
    /\ pending.calls[1] = c
    /\ LET u == pending.turn
           calls == Range(pending.calls)
       IN  /\ turn' = [turn EXCEPT ![t] = u]
           /\ script' = [script EXCEPT ![t] = DecisionScript(u, pending.calls, approved)]
           /\ asked' = [asked EXCEPT ![u] = @ \ calls]
           /\ granted' = IF approved
                         THEN [granted EXCEPT ![u] = @ \cup (calls \cap asked[u])]
                         ELSE granted
    /\ active' = t
    /\ pending' = NoPending
    /\ Goto(t, "resolved")
    /\ UNCHANGED <<registered, cancelled, history, token, response, iteration, 
                   outcome, mode, notice, events>>

AnnounceDecision(t) ==
    /\ pc[t] = "resolved"
    /\ Emit(turn[t], "ToolApprovalResolved")
    /\ Goto(t, "script")
    /\ UNCHANGED <<sessionVars, history, turn, token, script, response, iteration, 
                   outcome, mode, notice, consentVars>>

-----------------------------------------------------------------------------
(* run_agent_loop *)

\* The head of the loop, and the first checks of
\* compact_session_context_if_needed on a snapshot of the history.
EnterLoop(t) ==
    /\ pc[t] = "loop"
    /\ \/ iteration[t] = MaxIterations /\ Return(t, "Failed")
       \/ iteration[t] < MaxIterations /\ token[t] /\ Return(t, "Cancelled")
       \/ /\ iteration[t] < MaxIterations /\ ~token[t]
          /\ \/ Goto(t, "sample")
             \/ /\ CooledDown(history, KeepLast)
                /\ CompactionPrefix(history, KeepLast) # <<>>
                /\ Goto(t, "summarize")
          /\ UNCHANGED <<outcome, script, response>>
    /\ UNCHANGED <<sessionVars, history, turn, token, iteration, mode, notice, events,
                   consentVars>>

\* The model summarised the prefix, or failed and a local summary stands in;
\* or the model client itself reports a cancellation.
Summarize(t) ==
    /\ pc[t] = "summarize"
    /\ \/ Return(t, "Cancelled")
       \/ ~token[t] /\ Goto(t, "compact") /\ UNCHANGED <<outcome, script, response>>
    /\ UNCHANGED <<sessionVars, history, turn, token, iteration, mode, notice, events,
                   consentVars>>

\* Session::compact_history, which finds the prefix anew.
Compact(t) ==
    /\ pc[t] = "compact"
    /\ history' = CompactOldItems(history, KeepLast, SummaryItem)
    /\ Goto(t, "sample")
    /\ UNCHANGED <<sessionVars, turn, token, script, response, iteration, outcome, mode,
                   notice, events, consentVars>>

\* The biased select at the start of sample: the cancelled token wins.
OpenStream(t) ==
    /\ pc[t] = "sample"
    /\ \/ token[t] /\ Return(t, "Cancelled")
       \/ ~token[t] /\ Return(t, "Failed")
       \/ ~token[t] /\ Goto(t, "stream") /\ UNCHANGED <<outcome, script, response>>
    /\ UNCHANGED <<sessionVars, history, turn, token, iteration, mode, notice,
                   events, consentVars>>

\* The stream fails, or an event of it finds the token cancelled.
BreakStream(t) ==
    /\ pc[t] = "stream"
    /\ \/ token[t] /\ Return(t, "Cancelled")
       \/ Return(t, "Failed")
    /\ UNCHANGED <<sessionVars, history, turn, token, iteration, mode, notice,
                   events, consentVars>>

\* The stream ended (a cancellation after its last event goes unnoticed) with a
\* text and no calls: that is the answer.
Answer(t, kind) ==
    /\ pc[t] = "stream"
    /\ script' = [script EXCEPT ![t] = <<WriteOp(Say(turn[t], kind)), FinishOp("Completed")>>]
    /\ Goto(t, "script")
    /\ UNCHANGED <<sessionVars, history, turn, token, response, iteration, outcome,
                   mode, notice, events, consentVars>>

\* The stream ended with calls.  The code goes through them once and sorts them
\* into refused, gated and executable ones, each in order; any three sequences
\* of the right kind are the parts of some response.
Respond(t, say) ==
    LET m == mode[turn[t]]
    IN  /\ pc[t] = "stream" /\ m # "Ask"
        /\ \E refused \in CallSeqs(RefusedCalls(m)),
              gated \in CallSeqs(GatedCalls(m)),
              executable \in CallSeqs(ExecutableCalls(m)) :
               LET r == [refused |-> refused, gated |-> gated, executable |-> executable]
               IN  /\ r # NoResponse
                   /\ response' = [response EXCEPT ![t] = r]
                   /\ script' = [script EXCEPT ![t] = ResponseScript(turn[t], say, r)]
        /\ Goto(t, "script")
        /\ UNCHANGED <<sessionVars, history, turn, token, iteration, outcome, mode,
                       notice, events, consentVars>>

\* In Ask mode a model must not ask for tools.
RespondInAsk(t) ==
    /\ pc[t] = "stream" /\ mode[turn[t]] = "Ask"
    /\ Return(t, "Failed")
    /\ UNCHANGED <<sessionVars, history, turn, token, iteration, mode, notice,
                   events, consentVars>>

-----------------------------------------------------------------------------
(* Handling a response, one step of its script at a time *)

NextOp(t, kind) == pc[t] = "script" /\ script[t] # <<>> /\ Head(script[t]).do = kind

\* Mutant: the history is written without a look at the cancelled turns.
WriteUngated(t) ==
    /\ NextOp(t, "write")
    /\ history' = Record(history, Head(script[t]).item, MaxItems)
    /\ script' = [script EXCEPT ![t] = Tail(@)]
    /\ UNCHANGED <<sessionVars, pc, turn, token, response, iteration, outcome,
                   mode, notice, events, consentVars>>

\* with_writable_turn: the records and events of a cancelled turn are dropped.
Write(t) ==
    /\ NextOp(t, "write")
    /\ history' = IF turn[t] \in cancelled
                  THEN history
                  ELSE Record(history, Head(script[t]).item, MaxItems)
    /\ script' = [script EXCEPT ![t] = Tail(@)]
    /\ UNCHANGED <<sessionVars, pc, turn, token, response, iteration, outcome,
                   mode, notice, events, consentVars>>

\* ToolRouter::dispatch of a batch: the biased select starts no tool under a
\* cancelled token.
Dispatch(t) ==
    /\ NextOp(t, "run")
    /\ IF token[t]
       THEN /\ script' = [script EXCEPT ![t] = AfterBatch(turn[t], @)]
            /\ UNCHANGED <<pc, granted>>
       ELSE /\ Goto(t, "tool")
            /\ granted' = [granted EXCEPT ![turn[t]] = @ \ Batch(script[t])]
            /\ UNCHANGED script
    /\ UNCHANGED <<sessionVars, history, turn, token, response, iteration, outcome,
                   mode, notice, events, asked>>

\* Every tool of the batch answered, failed or was dropped by the select.
ToolsReturn(t) ==
    /\ pc[t] = "tool"
    /\ script' = [script EXCEPT ![t] = AfterBatch(turn[t], @)]
    /\ Goto(t, "script")
    /\ UNCHANGED <<sessionVars, history, turn, token, response, iteration, outcome,
                   mode, notice, events, consentVars>>

\* Session::set_pending_tool_approval, not for a cancelled turn.
Pause(t) ==
    /\ NextOp(t, "pause")
    /\ LET u == turn[t]
           calls == Head(script[t]).calls
       IN  IF u \in cancelled
           THEN UNCHANGED <<pending, asked>>
           ELSE /\ pending' = [turn |-> u, calls |-> calls]
                /\ asked' = [asked EXCEPT ![u] = @ \cup Range(calls)]
    /\ Return(t, "NeedUserInput")
    /\ UNCHANGED <<registered, active, cancelled, history, turn, token, iteration, 
                   mode, notice, events, granted>>

Finish(t) ==
    /\ NextOp(t, "finish")
    /\ Return(t, Head(script[t]).result)
    /\ UNCHANGED <<sessionVars, history, turn, token, iteration, mode, notice,
                   events, consentVars>>

\* Mutant: the loop has no limit.
NextIterationUncounted(t) ==
    /\ pc[t] = "script" /\ script[t] = <<>>
    /\ response' = [response EXCEPT ![t] = NoResponse]
    /\ Goto(t, "loop")
    /\ UNCHANGED <<sessionVars, history, turn, token, script, iteration, outcome,
                   mode, notice, events, consentVars>>

\* The response is dealt with: sample again.  What a user decided is dealt with
\* before the loop and is no pass of it.
NextIteration(t) ==
    /\ pc[t] = "script" /\ script[t] = <<>>
    /\ iteration' = IF response[t] = NoResponse
                    THEN iteration
                    ELSE [iteration EXCEPT ![t] = @ + 1]
    /\ response' = [response EXCEPT ![t] = NoResponse]
    /\ Goto(t, "loop")
    /\ UNCHANGED <<sessionVars, history, turn, token, script, outcome, mode,
                   notice, events, consentVars>>

-----------------------------------------------------------------------------
(* The end of a task, and what users do to a session *)

\* Mutants: whatever turn is active is cleared; the outcome is emitted even
\* if the turn was not active any more.
ClearAnyActive(t) ==
    /\ pc[t] = "clear"
    /\ active' = NoTask
    /\ Goto(t, IF active # NoTask THEN "emit" ELSE "done")
    /\ UNCHANGED <<registered, pending, cancelled, history, turn, token, script, response,
                   iteration, outcome, mode, notice, events, consentVars>>

ClearAndEmit(t) ==
    /\ pc[t] = "clear"
    /\ active' = IF active # NoTask /\ turn[active] = turn[t] THEN NoTask ELSE active
    /\ Goto(t, "emit")
    /\ UNCHANGED <<registered, pending, cancelled, history, turn, token, script, response,
                   iteration, outcome, mode, notice, events, consentVars>>

\* Session::clear_active_turn_if compares turns, not tasks.
ClearActive(t) ==
    /\ pc[t] = "clear"
    /\ IF active # NoTask /\ turn[active] = turn[t]
       THEN active' = NoTask /\ Goto(t, "emit")
       ELSE UNCHANGED active /\ Goto(t, "done")
    /\ UNCHANGED <<registered, pending, cancelled, history, turn, token, script, response,
                   iteration, outcome, mode, notice, events, consentVars>>

EmitOutcome(t) ==
    /\ pc[t] = "emit"
    /\ Emit(turn[t], OutcomeEvent(outcome[t]))
    /\ Goto(t, "done")
    /\ UNCHANGED <<sessionVars, history, turn, token, script, response, iteration, 
                   outcome, mode, notice, consentVars>>

\* Session::cancel_and_detach_current_turn
DetachCurrent(u) ==
    \/ /\ active # NoTask
       /\ u = turn[active]
       /\ token' = [token EXCEPT ![active] = TRUE]
       /\ active' = NoTask
       /\ pending' = IF pending.turn = u THEN NoPending ELSE pending
       /\ cancelled' = cancelled \cup {u}
    \/ /\ active = NoTask
       /\ pending # NoPending
       /\ u = pending.turn
       /\ pending' = NoPending
       /\ cancelled' = cancelled \cup {u}
       /\ UNCHANGED <<active, token>>

\* Runtime::interrupt, up to the event it sends.
Interrupt ==
    /\ registered = "open"
    /\ \E u \in Task : DetachCurrent(u) /\ notice' = notice \cup {u}
    /\ UNCHANGED <<registered, history, pc, turn, script, response, iteration, 
                   outcome, mode, events, consentVars>>

AnnounceInterrupt(u) ==
    /\ u \in notice
    /\ notice' = notice \ {u}
    /\ Emit(u, "TurnCancelled")
    /\ UNCHANGED <<sessionVars, history, taskVars, mode, consentVars>>

\* Runtime::close_session: out of the map, then the current turn is cancelled,
\* without an event.
CloseSession ==
    /\ registered = "open"
    /\ registered' = "removed"
    /\ UNCHANGED <<active, pending, cancelled, history, taskVars, mode, notice, events,
                   consentVars>>

CancelClosed ==
    /\ registered = "removed"
    /\ registered' = "closed"
    /\ IF IsBusy
       THEN \E u \in Task : DetachCurrent(u)
       ELSE UNCHANGED <<active, pending, cancelled, token>>
    /\ UNCHANGED <<history, pc, turn, script, response, iteration, outcome, mode,
                   notice, events, consentVars>>

-----------------------------------------------------------------------------

UserCalls(t) ==
    \/ \E m \in Modes : StartTurn(t, m)
    \/ \E c \in Call, approved \in BOOLEAN : BeginResolution(t, c, approved)

Model(t) ==
    \/ BreakStream(t)
    \/ RespondInAsk(t)
    \/ \E kind \in {"Assistant"} \cup (Says \ {"None"}) : Answer(t, kind)
    \/ \E say \in Says : Respond(t, say)

Run(t) ==
    \/ TryActivate(t) \/ AnnounceTurn(t) \/ RecordInput(t) \/ AnnounceDecision(t)
    \/ EnterLoop(t) \/ Summarize(t) \/ Compact(t) \/ OpenStream(t)
    \/ Write(t) \/ Dispatch(t) \/ ToolsReturn(t) \/ Pause(t) \/ Finish(t)
    \/ NextIteration(t) \/ ClearActive(t) \/ EmitOutcome(t)

Next ==
    \/ \E t \in Task : UserCalls(t) \/ Model(t) \/ Run(t)
    \/ Interrupt
    \/ \E u \in Task : AnnounceInterrupt(u)
    \/ CloseSession \/ CancelClosed

TurnsSpec == Init /\ [][Next]_vars

\* Models and tools answer, and the runtime polls every future.
TurnsFairness ==
    /\ \A t \in Task : WF_vars(Model(t)) /\ WF_vars(Run(t))
    /\ \A u \in Task : WF_vars(AnnounceInterrupt(u))

TurnsFairSpec == TurnsSpec /\ TurnsFairness

-----------------------------------------------------------------------------
(* Properties *)

Running(t) == pc[t] \notin {"idle", "found", "emit", "done"}

Places == {"idle", "found", "announce", "input", "resolved", "loop", "summarize", "compact",
           "sample", "stream", "script", "tool", "clear", "emit", "done"}

\* The types of all variables, the history within its limit, and a token or a
\* script only where a task can have one.
TurnsTypeOK ==
    /\ registered \in {"open", "removed", "closed"}
    /\ active \in Task \cup {NoTask}
    /\ pending \in PendingApproval \cup {NoPending}
    /\ cancelled \subseteq Task /\ notice \subseteq cancelled
    /\ history \in Seq(Item) /\ Len(history) <= MaxItems
    /\ pc \in [Task -> Places]
    /\ turn \in [Task -> Task \cup {NoTask}]
    /\ token \in [Task -> BOOLEAN]
    /\ script \in [Task -> Seq(Op)]
    /\ response \in [Task -> [refused : Seq(Call), gated : Seq(Call), executable : Seq(Call)]]
    /\ iteration \in [Task -> 0..MaxIterations]
    /\ outcome \in [Task -> Results]
    /\ mode \in [Task -> Modes \cup {"None"}]
    /\ events \in [Task -> Seq(EndEvents \cup {"TurnStarted", "NeedUserInput",
                                              "ToolApprovalResolved"})]
    /\ asked \in [Task -> SUBSET Call] /\ granted \in [Task -> SUBSET Call]

\* A task that runs with a live token is the one the session names as active,
\* and the active task does run: two turns never run uncancelled side by side,
\* and no task ends leaving the session busy.
ActiveIsTheRunner == \A t \in Task : active = t <=> Running(t) /\ ~token[t]

\* An approval that is waited for belongs to a turn that nobody stopped, and
\* while some task is active it is the one that paused, on its way out.
PausedTurnKept ==
    pending # NoPending =>
        /\ pending.turn \notin cancelled
        /\ active # NoTask => /\ turn[active] = pending.turn
                             /\ pc[active] = "clear"
                             /\ outcome[active] = "NeedUserInput"

\* The session is busy for a reason: with the one task that runs uncancelled,
\* or with an approval of a turn that can still go on.  A task that ends, late
\* or not, and an approval that comes after its turn was cancelled cannot
\* leave it busy, and no two turns run side by side (try_set_active_turn,
\* clear_active_turn_if, cancel_and_detach_current_turn,
\* set_pending_tool_approval, begin_pending_tool_resolution).
BusyForAReason == ActiveIsTheRunner /\ PausedTurnKept

\* The subscribers of a turn see at most one terminal event of it, and none
\* that says completed or failed if the user stopped the turn, whichever of
\* the task and interrupt got to the lock first (clear_active_turn_if,
\* cancel_and_detach_current_turn, emit_outcome).
OneVerdict ==
    \A u \in Task :
        /\ \A i, j \in DOMAIN events[u] :
               events[u][i] \in EndEvents /\ events[u][j] \in EndEvents => i = j
        /\ u \in cancelled =>
               \A i \in DOMAIN events[u] : events[u][i] \notin {"TurnCompleted", "TurnFailed"}

Newest(h) == h[Len(h)]

\* A turn that was cancelled stays stopped.  None of its texts, calls and
\* observations reaches the history, however late its tools and its model
\* answer (with_writable_turn); only the user's input is recorded without a
\* look.  And no tool is started for it, be it a batch of a response or the
\* calls of an approval (ToolRouter::dispatch).
StoppedStaysStopped ==
    [][ /\ history' # <<>> /\ (history = <<>> \/ Newest(history') # Newest(history))
               => Newest(history').kind = "User" \/ Newest(history').turn \notin cancelled
        /\ \A t \in Task :
               pc[t] # "tool" /\ pc'[t] = "tool" => turn[t] \notin cancelled ]_vars

\* In Manual mode a risky tool starts once for each time the user approved that
\* very call of that very turn, and never otherwise (requires_tool_approval,
\* begin_pending_tool_resolution, continue_after_tool_decision).
ApprovedOnly ==
    [][ \A t \in Task : pc[t] # "tool" /\ pc'[t] = "tool" /\ mode[turn[t]] = "Manual"
            => Batch(script[t]) \cap Risky \subseteq granted[turn[t]] ]_vars

\* The messages of a request are legal in the protocol of the model's tools,
\* whatever the limit of the history cut off and other tasks wrote in between: a
\* tool message answers a call of the assistant message before it, and that
\* message's calls are all answered, each once, before any other message
\* (history_to_messages, tool_exchange_is_complete).
LegalProtocol ==
    (\E t \in Task : pc[t] = "sample") =>
        LET m == Messages(history)
            Answers(i) == {j \in (i + 1)..Len(m) : \A k \in (i + 1)..j : m[k].role = "tool"}
            Callers == {i \in DOMAIN m : m[i].role = "assistant" /\ m[i].calls # <<>>}
        IN  /\ \A j \in DOMAIN m : m[j].role = "tool" => \E i \in Callers : j \in Answers(i)
            /\ \A i \in Callers :
                   /\ Cardinality(Answers(i)) = Len(m[i].calls)
                   /\ \A c \in Range(m[i].calls) : \E j \in Answers(i) : m[j].calls = <<c>>

\* A compaction replaces the oldest messages by one and leaves the rest as they
\* were sent before: it cuts no tool exchange in two and parts no reasoning
\* from the calls it led to (compaction_tool_boundary).
CompactionKeepsSuffix ==
    [][ history' # history /\ (\E t \in Task : pc[t] = "compact" /\ pc'[t] = "sample")
            => LET before == Messages(history)
                   after == Messages(history')
               IN  /\ after # <<>> /\ Len(after) <= Len(before) + 1
                   /\ Head(after) = Message("system", <<>>, FALSE)
                   /\ Tail(after) = SubSeq(before, Len(before) - Len(after) + 2, Len(before)) ]_vars

Ended(u) == \E i \in DOMAIN events[u] : events[u][i] \in EndEvents

\* A turn that began reports how it ended or waits for the user's approval,
\* unless the session is closed (close_session sends no event).
TurnsSettle ==
    \A u \in Task :
        events[u] # <<>> ~> Ended(u) \/ pending.turn = u \/ registered # "open"

-----------------------------------------------------------------------------
(* What comments say of this code, and the code does not do *)

\* "All legal tool calls the model returned in a round are written"
\* (tasks/agent.rs:269): a response of which some calls need approval has, when
\* its handling ends, also its other calls in the history.
LegalCallsKept ==
    \A t \in Task : NextOp(t, "pause") /\ turn[t] \notin cancelled =>
        \A c \in Range(response[t].executable) : CallItem(turn[t], c) \in Range(history)

=============================================================================

