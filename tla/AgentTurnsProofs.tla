-------------------------- MODULE AgentTurnsProofs --------------------------
(***************************************************************************)
(* That a session is busy for a reason, that a stopped turn stays stopped, *)
(* that a turn has one verdict, that what needs approval runs only when it *)
(* was approved, and that what the model is sent is legal and compacted at *)
(* its edges: for any tasks, calls, modes, histories and limits.           *)
(***************************************************************************)
EXTENDS AgentTurns, SequenceTheorems, FiniteSetTheorems, TLAPS

(* A turn is named by the task that began it.                              *)
Begun(u) == u \in Task /\ turn[u] = u /\ pc[u] \notin {"idle", "found"}

(* Whatever turn is spoken of has begun, so a task that begins one finds   *)
(* no trace of it.                                                         *)
NamesInv ==
    /\ \A t \in Task : pc[t] \in {"idle", "found"} => ~token[t]
    /\ \A t \in Task : pc[t] = "found" => turn[t] = t
    /\ \A t \in Task : pc[t] \notin {"idle", "found"} => Begun(turn[t])
    /\ \A u \in cancelled : Begun(u)
    /\ pending # NoPending => Begun(pending.turn)

(* Tokens are cancelled with their turns, and the active turn is not.      *)
TokenInv ==
    /\ \A t \in Task : token[t] => turn[t] \in cancelled
    /\ active # NoTask => turn[active] \notin cancelled

(* A turn may have several tasks, but they run one after the other.        *)
OneRunner ==
    \A s, t \in Task : Running(s) /\ Running(t) /\ turn[s] = turn[t] => s = t

BusyInv == NamesInv /\ TokenInv /\ OneRunner /\ ActiveIsTheRunner /\ PausedTurnKept

(* The turns that can still get a verdict, and the tasks about to give one.*)
Alive(u) ==
    \/ active # NoTask /\ turn[active] = u
    \/ pending # NoPending /\ pending.turn = u
Ending(t) == pc[t] = "emit" /\ outcome[t] \in {"Completed", "Failed", "Cancelled"}

(* Who may give the verdict on a turn: the task that cleared it or the one *)
(* who interrupted it, and whoever does is the only one.                   *)
VerdictInv ==
    /\ \A u \in Task : ~Begun(u) => events[u] = <<>>
    /\ \A u \in Task : Alive(u) \/ u \in notice => ~Ended(u)
    /\ \A u \in Task : Alive(u) => u \notin notice
    /\ \A t \in Task : Ending(t) =>
           /\ turn[t] \notin cancelled /\ ~Alive(turn[t]) /\ ~Ended(turn[t])
           /\ \A s \in Task : Ending(s) /\ turn[s] = turn[t] => s = t

Distinct(s) == \A i, j \in DOMAIN s : s[i] = s[j] => i = j

Runs(s, i) == i \in DOMAIN s /\ s[i].do = "run"

(* A script runs a call once, asks for each call once and joins runs with  *)
(* runs; only a task that works through one has one.                       *)
WellFormed(s) ==
    /\ \A i, j \in DOMAIN s : Runs(s, i) /\ Runs(s, j) /\ s[i].call = s[j].call => i = j
    /\ \A i \in DOMAIN s : Runs(s, i) /\ s[i].joined => Runs(s, i + 1)
    /\ \A i \in DOMAIN s : s[i].do = "pause" => Distinct(s[i].calls)

ScriptInv ==
    /\ \A t \in Task : WellFormed(script[t])
    /\ \A t \in Task : script[t] # <<>> => pc[t] \in {"resolved", "script", "tool"}
    /\ \A t \in Task : pc[t] = "tool" => Runs(script[t], 1)

(* The calls of a script that are not running yet and need a grant.        *)
Due(t) == {i \in DOMAIN script[t] :
              /\ Runs(script[t], i) /\ script[t][i].call \in Risky
              /\ mode[turn[t]] = "Manual"
              /\ pc[t] = "tool" => i > BatchLen(script[t])}

(* What is waited for was asked; what will run was granted.                *)
ConsentInv ==
    /\ pending # NoPending =>
           Distinct(pending.calls) /\ Range(pending.calls) \subseteq asked[pending.turn]
    /\ \A t \in Task : \A i \in Due(t) : script[t][i].call \in granted[turn[t]]

(* Whoever samples, or works on what it sampled, has passes left.          *)
LoopInv ==
    \A t \in Task :
        pc[t] \in {"summarize", "compact", "sample", "stream"} \/ response[t] # NoResponse
            => iteration[t] < MaxIterations

(* What a script writes is of the turn it is for.                          *)
Writes(s, u) == \A i \in DOMAIN s : s[i].do = "write" => s[i].item.turn = u
WritesInv == \A t \in Task : Writes(script[t], turn[t])

TurnInv ==
    /\ TurnsTypeOK /\ BusyInv /\ VerdictInv /\ OneVerdict
    /\ LoopInv /\ ScriptInv /\ WritesInv /\ ConsentInv
-----------------------------------------------------------------------------
(* The types of the variables that say who is active.                      *)
Shape ==
    /\ active \in Task \cup {NoTask} /\ cancelled \subseteq Task
    /\ pc \in [Task -> Places] /\ turn \in [Task -> Task \cup {NoTask}]
    /\ token \in [Task -> BOOLEAN] /\ outcome \in [Task -> Results]

(* They are among the types of all variables.                              *)
LEMMA TypesShape == TurnsTypeOK => Shape
BY DEF TurnsTypeOK, Shape

(* The steps between a task's activation and its end that take no part in  *)
(* who is active: whatever the task does, it stays a runner.               *)
Progress(t) ==
    /\ Running(t) /\ pc[t] # "clear"
    /\ \E place \in Places \ {"idle", "found", "emit", "done"} : Goto(t, place)
    /\ \A s \in Task \ {t} : outcome'[s] = outcome[s]
    /\ \/ UNCHANGED events
       \/ \E event \in {"TurnStarted", "ToolApprovalResolved"} : Emit(turn[t], event)
    /\ UNCHANGED <<active, pending, cancelled, turn, token, notice, mode>>

(* Which those are.                                                        *)
LEMMA ModelProgress ==
    ASSUME Shape, NEW t \in Task, Model(t)
    PROVE  Progress(t)
<1> USE DEF Shape, Running, Progress, Goto, Places
<1>1. CASE BreakStream(t)
  BY <1>1 DEF BreakStream, Return, sessionVars, consentVars
<1>2. CASE RespondInAsk(t)
  BY <1>2 DEF RespondInAsk, Return, sessionVars, consentVars
<1>3. ASSUME NEW kind, Answer(t, kind) PROVE Progress(t)
  BY <1>3 DEF Answer, sessionVars, consentVars
<1>4. ASSUME NEW say, Respond(t, say) PROVE Progress(t)
  BY <1>4 DEF Respond, sessionVars, consentVars
<1>5. QED  BY <1>1, <1>2, <1>3, <1>4 DEF Model

(* The steps of run_agent_loop that do not begin, pause, clear or announce.*)
LEMMA RunProgress ==
    ASSUME Shape, NEW t \in Task, Run(t),
           ~TryActivate(t), ~Pause(t), ~ClearActive(t), ~EmitOutcome(t)
    PROVE  Progress(t)
<1> USE DEF Shape, Running, Progress, Goto, Places, sessionVars, consentVars
<1>0. pc = [pc EXCEPT ![t] = pc[t]]
  OBVIOUS
<1>1. CASE AnnounceTurn(t)
  BY <1>1 DEF AnnounceTurn
<1>2. CASE RecordInput(t)
  BY <1>2 DEF RecordInput
<1>3. CASE AnnounceDecision(t)
  BY <1>3 DEF AnnounceDecision
<1>4. CASE EnterLoop(t)
  BY <1>4 DEF EnterLoop, Return
<1>5. CASE Summarize(t)
  BY <1>5 DEF Summarize, Return
<1>6. CASE Compact(t)
  BY <1>6 DEF Compact
<1>7. CASE OpenStream(t)
  BY <1>7 DEF OpenStream, Return
<1>8. CASE Write(t)
  BY <1>0, <1>8 DEF Write, NextOp
<1>9. CASE Dispatch(t)
  BY <1>0, <1>9 DEF Dispatch, NextOp
<1>10. CASE ToolsReturn(t)
  BY <1>10 DEF ToolsReturn
<1>11. CASE Finish(t)
  BY <1>11 DEF Finish, NextOp, Return
<1>12. CASE NextIteration(t)
  BY <1>12 DEF NextIteration
<1>13. QED
  BY <1>1, <1>2, <1>3, <1>4, <1>5, <1>6, <1>7, <1>8, <1>9, <1>10, <1>11, <1>12 DEF Run

(* A task that goes on keeps the session busy for the same reason.         *)
LEMMA ProgressBusy ==
    ASSUME Shape, BusyInv, NEW t \in Task, Progress(t)
    PROVE  BusyInv'
<1> USE DEF Shape, BusyInv, Progress, Goto, Running, Places
<1>1. NamesInv'
  BY DEF NamesInv, Begun
<1>2. TokenInv'
  BY DEF TokenInv
<1>3. OneRunner'
  BY DEF OneRunner
<1>4. ActiveIsTheRunner'
  BY DEF ActiveIsTheRunner
<1>5. PausedTurnKept'
  BY DEF PausedTurnKept
<1>6. QED  BY <1>1, <1>2, <1>3, <1>4, <1>5

(* A task that only looked the session up is nowhere yet.                  *)
LEMMA StartBusy ==
    ASSUME Shape, BusyInv, NEW t \in Task, NEW m, StartTurn(t, m)
    PROVE  BusyInv'
<1> USE TaskAssumption DEF Shape, BusyInv, Goto, Running, Places, sessionVars, taskVars,
        consentVars, StartTurn
<1>1. NamesInv'
  BY DEF NamesInv, Begun, NoPending, PendingApproval
<1>2. TokenInv'
  BY DEF NamesInv, TokenInv, ActiveIsTheRunner, PausedTurnKept, Begun,
         NoPending, PendingApproval
<1>3. OneRunner'
  BY DEF NamesInv, TokenInv, OneRunner, ActiveIsTheRunner, PausedTurnKept, Begun,
         NoPending, PendingApproval
<1>4. ActiveIsTheRunner'
  BY DEF NamesInv, TokenInv, OneRunner, ActiveIsTheRunner, Begun
<1>5. PausedTurnKept'
  BY DEF NamesInv, TokenInv, OneRunner, ActiveIsTheRunner, PausedTurnKept, Begun,
         NoPending, PendingApproval
<1>6. QED  BY <1>1, <1>2, <1>3, <1>4, <1>5

(* A turn is activated when no other is, or not at all.                    *)
LEMMA ActivateBusy ==
    ASSUME Shape, BusyInv, NEW t \in Task, TryActivate(t)
    PROVE  BusyInv'
<1> USE TaskAssumption DEF Shape, BusyInv, Goto, Running, Places, sessionVars, taskVars,
        consentVars, TryActivate, IsBusy
<1>1. NamesInv'
  BY DEF NamesInv, Begun, NoPending, PendingApproval
<1>2. TokenInv'
  BY DEF NamesInv, TokenInv, ActiveIsTheRunner, PausedTurnKept, Begun,
         NoPending, PendingApproval
<1>3. OneRunner'
  BY DEF NamesInv, TokenInv, OneRunner, ActiveIsTheRunner, PausedTurnKept, Begun,
         NoPending, PendingApproval
<1>4. ActiveIsTheRunner'
  BY DEF NamesInv, TokenInv, OneRunner, ActiveIsTheRunner, Begun
<1>5. PausedTurnKept'
  BY DEF NamesInv, TokenInv, OneRunner, ActiveIsTheRunner, PausedTurnKept, Begun,
         NoPending, PendingApproval
<1>6. QED  BY <1>1, <1>2, <1>3, <1>4, <1>5

(* The paused turn goes on in a task of its own, its others have ended.    *)
LEMMA ResolutionBusy ==
    ASSUME Shape, BusyInv, NEW t \in Task, NEW c, NEW approved, BeginResolution(t, c, approved)
    PROVE  BusyInv'
<1> USE TaskAssumption DEF Shape, BusyInv, Goto, Running, Places, sessionVars, taskVars,
        consentVars, BeginResolution
<1>1. NamesInv'
  BY DEF NamesInv, Begun, NoPending, PendingApproval
<1>2. TokenInv'
  BY DEF NamesInv, TokenInv, ActiveIsTheRunner, PausedTurnKept, Begun,
         NoPending, PendingApproval
<1>3. OneRunner'
  BY DEF NamesInv, TokenInv, OneRunner, ActiveIsTheRunner, PausedTurnKept, Begun,
         NoPending, PendingApproval
<1>4. ActiveIsTheRunner'
  BY DEF NamesInv, TokenInv, OneRunner, ActiveIsTheRunner, Begun
<1>5. PausedTurnKept'
  BY DEF NamesInv, TokenInv, OneRunner, ActiveIsTheRunner, PausedTurnKept, Begun,
         NoPending, PendingApproval
<1>6. QED  BY <1>1, <1>2, <1>3, <1>4, <1>5

(* A turn is paused by the active task, or its approval is dropped.        *)
LEMMA PauseBusy ==
    ASSUME Shape, BusyInv, NEW t \in Task, Pause(t)
    PROVE  BusyInv'
<1> USE TaskAssumption DEF Shape, BusyInv, Goto, Running, Places, sessionVars, taskVars,
        consentVars, Pause, Return, NextOp
<1>1. NamesInv'
  BY DEF NamesInv, Begun, NoPending, PendingApproval
<1>2. TokenInv'
  BY DEF NamesInv, TokenInv, ActiveIsTheRunner, PausedTurnKept, Begun,
         NoPending, PendingApproval
<1>3. OneRunner'
  BY DEF NamesInv, TokenInv, OneRunner, ActiveIsTheRunner, PausedTurnKept, Begun,
         NoPending, PendingApproval
<1>4. ActiveIsTheRunner'
  BY DEF NamesInv, TokenInv, OneRunner, ActiveIsTheRunner, Begun
<1>5. PausedTurnKept'
  BY DEF NamesInv, TokenInv, OneRunner, ActiveIsTheRunner, PausedTurnKept, Begun,
         NoPending, PendingApproval
<1>6. QED  BY <1>1, <1>2, <1>3, <1>4, <1>5

(* A task clears its own turn only: a later task of it is not running.     *)
LEMMA ClearBusy ==
    ASSUME Shape, BusyInv, NEW t \in Task, ClearActive(t)
    PROVE  BusyInv'
<1> USE TaskAssumption DEF Shape, BusyInv, Goto, Running, Places, sessionVars, taskVars,
        consentVars, ClearActive
<1>1. NamesInv'
  BY DEF NamesInv, Begun, NoPending, PendingApproval
<1>2. TokenInv'
  BY DEF NamesInv, TokenInv, ActiveIsTheRunner, PausedTurnKept, Begun,
         NoPending, PendingApproval
<1>3. OneRunner'
  BY DEF NamesInv, TokenInv, OneRunner, ActiveIsTheRunner, PausedTurnKept, Begun,
         NoPending, PendingApproval
<1>4. ActiveIsTheRunner'
  BY DEF NamesInv, TokenInv, OneRunner, ActiveIsTheRunner, Begun
<1>5. PausedTurnKept'
  BY DEF NamesInv, TokenInv, OneRunner, ActiveIsTheRunner, PausedTurnKept, Begun,
         NoPending, PendingApproval
<1>6. QED  BY <1>1, <1>2, <1>3, <1>4, <1>5

(* Who sends the outcome is not running any more.                          *)
LEMMA EmitBusy ==
    ASSUME Shape, BusyInv, NEW t \in Task, EmitOutcome(t)
    PROVE  BusyInv'
<1> USE TaskAssumption DEF Shape, BusyInv, Goto, Running, Places, sessionVars, taskVars,
        consentVars, EmitOutcome
<1>1. NamesInv'
  BY DEF NamesInv, Begun, NoPending, PendingApproval
<1>2. TokenInv'
  BY DEF NamesInv, TokenInv, ActiveIsTheRunner, PausedTurnKept, Begun,
         NoPending, PendingApproval
<1>3. OneRunner'
  BY DEF NamesInv, TokenInv, OneRunner, ActiveIsTheRunner, PausedTurnKept, Begun,
         NoPending, PendingApproval
<1>4. ActiveIsTheRunner'
  BY DEF NamesInv, TokenInv, OneRunner, ActiveIsTheRunner, Begun
<1>5. PausedTurnKept'
  BY DEF NamesInv, TokenInv, OneRunner, ActiveIsTheRunner, PausedTurnKept, Begun,
         NoPending, PendingApproval
<1>6. QED  BY <1>1, <1>2, <1>3, <1>4, <1>5

(* A turn is cancelled with the token of its active task.                  *)
LEMMA DetachBusy ==
    ASSUME Shape, BusyInv, NEW u \in Task, DetachCurrent(u), UNCHANGED <<pc, turn, outcome>>
    PROVE  BusyInv'
<1> USE TaskAssumption DEF Shape, BusyInv, Goto, Running, Places, sessionVars, taskVars,
        consentVars, DetachCurrent
<1>1. NamesInv'
  BY DEF NamesInv, ActiveIsTheRunner, Begun, NoPending, PendingApproval
<1>2. TokenInv'
  BY DEF NamesInv, TokenInv, ActiveIsTheRunner, PausedTurnKept, Begun,
         NoPending, PendingApproval
<1>3. OneRunner'
  BY DEF NamesInv, TokenInv, OneRunner, ActiveIsTheRunner, PausedTurnKept, Begun,
         NoPending, PendingApproval
<1>4. ActiveIsTheRunner'
  BY DEF NamesInv, TokenInv, OneRunner, ActiveIsTheRunner, Begun
<1>5. PausedTurnKept'
  BY DEF NamesInv, TokenInv, OneRunner, ActiveIsTheRunner, PausedTurnKept, Begun,
         NoPending, PendingApproval
<1>6. QED  BY <1>1, <1>2, <1>3, <1>4, <1>5

-----------------------------------------------------------------------------
(* The subscribers' logs, and who is still to be told.                     *)
Logs ==
    /\ notice \subseteq cancelled
    /\ events \in [Task -> Seq(EndEvents \cup {"TurnStarted", "NeedUserInput",
                                               "ToolApprovalResolved"})]

(* They are among the types of all variables.                              *)
LEMMA TypesLogs == TurnsTypeOK => Logs
BY DEF TurnsTypeOK, Logs

(* What OneVerdict says of one turn.                                       *)
Settled(u) ==
    /\ \A i, j \in DOMAIN events[u] :
           events[u][i] \in EndEvents /\ events[u][j] \in EndEvents => i = j
    /\ u \in cancelled =>
           \A i \in DOMAIN events[u] : events[u][i] \notin {"TurnCompleted", "TurnFailed"}

(* An event that does not end a turn changes nobody's verdict.             *)
LEMMA QuietEvent ==
    ASSUME Logs, NEW u \in Task, NEW event \in {"TurnStarted", "NeedUserInput", "ToolApprovalResolved"},
           Emit(u, event)
    PROVE  /\ \A v \in Task : Ended(v)' <=> Ended(v)
           /\ \A v \in Task : v # u => events'[v] = events[v]
           /\ OneVerdict /\ UNCHANGED cancelled => OneVerdict'
<1> DEFINE Log == EndEvents \cup {"TurnStarted", "NeedUserInput", "ToolApprovalResolved"}
<1>1. events[u] \in Seq(Log) /\ event \in Log /\ event \notin EndEvents
  BY DEF Logs, EndEvents
<1>2. /\ DOMAIN events'[u] = 1..(Len(events[u]) + 1) /\ DOMAIN events[u] = 1..Len(events[u])
      /\ \A i \in DOMAIN events[u] : events'[u][i] = events[u][i]
      /\ events'[u][Len(events[u]) + 1] = event /\ Len(events[u]) \in Nat
  BY <1>1 DEF Emit, Logs
<1>3. \A v \in Task : v # u => events'[v] = events[v]
  BY DEF Emit, Logs
<1>4. Ended(u)' <=> Ended(u)
  BY <1>1, <1>2 DEF Ended
<1>5. \A v \in Task : Ended(v)' <=> Ended(v)
  BY <1>3, <1>4 DEF Ended
<1>6. OneVerdict /\ UNCHANGED cancelled => OneVerdict'
  <2>1. SUFFICES ASSUME OneVerdict, UNCHANGED cancelled, NEW v \in Task PROVE Settled(v)'
    BY <2>1 DEF OneVerdict, Settled
  <2>2. CASE v = u
    <3>1. \A i \in DOMAIN events'[u] : events'[u][i] \in EndEvents =>
              i \in DOMAIN events[u] /\ events'[u][i] = events[u][i]
      BY <1>1, <1>2
    <3>2. \A i, j \in DOMAIN events'[u] :
              events'[u][i] \in EndEvents /\ events'[u][j] \in EndEvents => i = j
      BY <2>1, <3>1 DEF OneVerdict
    <3>3. u \in cancelled => \A i \in DOMAIN events'[u] :
              events'[u][i] \notin {"TurnCompleted", "TurnFailed"}
      BY <2>1, <3>1 DEF OneVerdict, EndEvents
    <3>4. QED  BY <2>1, <2>2, <3>2, <3>3 DEF Settled
  <2>3. CASE v # u
    BY <1>3, <2>1, <2>3 DEF OneVerdict, Settled
  <2>4. QED  BY <2>2, <2>3
<1>7. QED  BY <1>3, <1>5, <1>6

(* A verdict on a turn that has none, and not a wrong one, is the only one.*)
LEMMA FirstVerdict ==
    ASSUME Logs, NEW u \in Task, NEW event \in EndEvents, Emit(u, event), ~Ended(u),
           u \in cancelled => event = "TurnCancelled", OneVerdict, UNCHANGED cancelled
    PROVE  /\ \A v \in Task : v # u => events'[v] = events[v]
           /\ OneVerdict'
<1> DEFINE Log == EndEvents \cup {"TurnStarted", "NeedUserInput", "ToolApprovalResolved"}
<1>1. events[u] \in Seq(Log) /\ event \in Log
  BY DEF Logs
<1>2. /\ DOMAIN events'[u] = 1..(Len(events[u]) + 1) /\ DOMAIN events[u] = 1..Len(events[u])
      /\ \A i \in DOMAIN events[u] : events'[u][i] = events[u][i]
      /\ events'[u][Len(events[u]) + 1] = event /\ Len(events[u]) \in Nat
  BY <1>1 DEF Emit, Logs
<1>3. \A v \in Task : v # u => events'[v] = events[v]
  BY DEF Emit, Logs
<1>4. \A i \in DOMAIN events'[u] :
          events'[u][i] \in EndEvents => i = Len(events[u]) + 1 /\ events'[u][i] = event
  BY <1>2 DEF Ended
<1>5. OneVerdict'
  <2>1. SUFFICES ASSUME NEW v \in Task PROVE Settled(v)'
    BY <2>1 DEF OneVerdict, Settled
  <2>2. CASE v = u
    <3>1. \A i, j \in DOMAIN events'[u] :
              events'[u][i] \in EndEvents /\ events'[u][j] \in EndEvents => i = j
      BY <1>4
    <3>2. u \in cancelled => \A i \in DOMAIN events'[u] :
              events'[u][i] \notin {"TurnCompleted", "TurnFailed"}
      BY <1>4 DEF EndEvents
    <3>3. QED  BY <2>2, <3>1, <3>2 DEF Settled
  <2>3. CASE v # u
    BY <1>3, <2>3 DEF OneVerdict, Settled
  <2>4. QED  BY <2>2, <2>3
<1>6. QED  BY <1>3, <1>5

(* A task that goes on gives no verdict.                                   *)
LEMMA ProgressVerdict ==
    ASSUME Shape, Logs, BusyInv, VerdictInv, OneVerdict, NEW t \in Task, Progress(t)
    PROVE  VerdictInv' /\ OneVerdict'
<1>1. turn[t] \in Task /\ Begun(turn[t])
  BY DEF BusyInv, NamesInv, Begun, Progress, Running
<1>2. /\ \A v \in Task : Ended(v)' <=> Ended(v)
      /\ \A v \in Task : v # turn[t] => events'[v] = events[v]
      /\ OneVerdict'
  <2>1. CASE UNCHANGED events
    BY <2>1 DEF Ended, OneVerdict, Progress
  <2>2. CASE \E event \in {"TurnStarted", "ToolApprovalResolved"} : Emit(turn[t], event)
    BY <1>1, <2>2, QuietEvent DEF Progress
  <2>3. QED  BY <2>1, <2>2 DEF Progress
<1>3. \A s \in Task : Ending(s)' => Ending(s)
  BY DEF Ending, Progress, Goto, Shape
<1>4. \A v \in Task : Begun(v) => Begun(v)'
  BY DEF Begun, Progress, Goto, Shape, Running
<1>5. \A v \in Task : Alive(v)' <=> Alive(v)
  BY DEF Alive, Progress
<1>6. VerdictInv'
  <2>0. \A s \in Task : Ending(s) => turn[s] \in Task
    BY DEF BusyInv, NamesInv, Begun, Ending
  <2>1. \A u \in Task : ~Begun(u)' => events'[u] = <<>>
    BY <1>1, <1>2, <1>4 DEF VerdictInv
  <2>2. \A u \in Task : (Alive(u) \/ u \in notice)' => ~Ended(u)'
    BY <1>2, <1>5 DEF VerdictInv, Progress
  <2>3. \A u \in Task : Alive(u)' => u \notin notice'
    BY <1>5 DEF VerdictInv, Progress
  <2>4. ASSUME NEW s \in Task, Ending(s)'
        PROVE  /\ turn'[s] \notin cancelled' /\ ~Alive(turn[s])' /\ ~Ended(turn[s])'
               /\ \A r \in Task : Ending(r)' /\ turn'[r] = turn'[s] => r = s
    BY <1>2, <1>3, <1>5, <2>0, <2>4 DEF VerdictInv, Progress, Shape
  <2>5. QED  BY <2>1, <2>2, <2>3, <2>4 DEF VerdictInv
<1>7. QED  BY <1>2, <1>6

(* The turn of a task that gives a verdict has begun.                      *)
LEMMA EndingBegun ==
    ASSUME BusyInv, NEW s \in Task, Ending(s)
    PROVE  turn[s] \in Task /\ Begun(turn[s])
BY DEF BusyInv, NamesInv, Begun, Ending

(* So has the turn that is alive, and only the active one is running.      *)
LEMMA AliveBegun ==
    ASSUME Shape, BusyInv, NEW u, Alive(u)
    PROVE  u \in Task /\ Begun(u)
BY DEF BusyInv, NamesInv, ActiveIsTheRunner, Running, Begun, Alive, Shape

(* A task that only looked the session up is not told of.                  *)
LEMMA StartVerdict ==
    ASSUME Shape, Logs, BusyInv, VerdictInv, OneVerdict,
           NEW t \in Task, NEW m, StartTurn(t, m)
    PROVE  VerdictInv' /\ OneVerdict'
<1> USE TaskAssumption DEF Shape, Logs, BusyInv, Goto, sessionVars, taskVars,
        consentVars, StartTurn
<1>1. \A v \in Task : Ended(v)' <=> Ended(v)
  BY DEF Ended
<1>2. \A s \in Task : Ending(s) => turn[s] \in Task /\ Begun(turn[s])
  BY EndingBegun
<1>3. \A v \in Task : Begun(v) => Begun(v)'
  BY DEF Begun
<1>4. \A v \in Task : Alive(v)' <=> Alive(v)
  BY DEF Alive, ActiveIsTheRunner, Running
<1>5. \A s \in Task : Ending(s)' <=> Ending(s)
  BY DEF Ending, Places
<1>6. \A s \in Task : Ending(s) => turn'[s] = turn[s]
  BY DEF Ending
<1>7. \A v \in Task : ~Begun(v)' => events'[v] = <<>>
  BY <1>1, <1>2, <1>3, <1>4, <1>5, <1>6 DEF VerdictInv
<1>8. \A v \in Task : (Alive(v) \/ v \in notice)' => ~Ended(v)'
  BY <1>1, <1>2, <1>3, <1>4, <1>5, <1>6 DEF VerdictInv
<1>9. \A v \in Task : Alive(v)' => v \notin notice'
  BY <1>1, <1>2, <1>3, <1>4, <1>5, <1>6 DEF VerdictInv
<1>10. ASSUME NEW s \in Task, Ending(s)'
      PROVE  /\ turn'[s] \notin cancelled' /\ ~Alive(turn[s])' /\ ~Ended(turn[s])'
             /\ \A r \in Task : Ending(r)' /\ turn'[r] = turn'[s] => r = s
  BY <1>1, <1>2, <1>3, <1>4, <1>5, <1>6, <1>10 DEF VerdictInv
<1>11. OneVerdict'
  BY <1>1, <1>2, <1>3, <1>4, <1>5, <1>6 DEF OneVerdict, Ended
<1>12. QED  BY <1>7, <1>8, <1>9, <1>10, <1>11 DEF VerdictInv

(* Nothing was said of a turn that begins.                                 *)
LEMMA ActivateVerdict ==
    ASSUME Shape, Logs, BusyInv, VerdictInv, OneVerdict,
           NEW t \in Task, TryActivate(t)
    PROVE  VerdictInv' /\ OneVerdict'
<1> USE TaskAssumption DEF Shape, Logs, BusyInv, Goto, sessionVars, taskVars,
        consentVars, TryActivate
<1>1. \A v \in Task : Ended(v)' <=> Ended(v)
  BY DEF Ended
<1>2. \A s \in Task : Ending(s) => turn[s] \in Task /\ Begun(turn[s])
  BY EndingBegun
<1>3. \A v \in Task : Begun(v) => Begun(v)'
  BY DEF Begun
<1>4. \A s \in Task : Ending(s)' <=> Ending(s)
  BY DEF Ending, Places
<1>5. ~Begun(t) /\ turn[t] = t
  BY DEF NamesInv, Begun
<1>6. \A v \in Task : Alive(v)' => Alive(v) \/ v = t
  BY <1>5 DEF Alive, IsBusy
<1>7. ~Ended(t) /\ t \notin notice
  BY <1>5 DEF VerdictInv, Ended, NamesInv
<1>8. \A v \in Task : ~Begun(v)' => events'[v] = <<>>
  BY <1>1, <1>2, <1>3, <1>4, <1>5, <1>6, <1>7 DEF VerdictInv
<1>9. \A v \in Task : (Alive(v) \/ v \in notice)' => ~Ended(v)'
  BY <1>1, <1>2, <1>3, <1>4, <1>5, <1>6, <1>7 DEF VerdictInv
<1>10. \A v \in Task : Alive(v)' => v \notin notice'
  BY <1>1, <1>2, <1>3, <1>4, <1>5, <1>6, <1>7 DEF VerdictInv
<1>11. ASSUME NEW s \in Task, Ending(s)'
      PROVE  /\ turn'[s] \notin cancelled' /\ ~Alive(turn[s])' /\ ~Ended(turn[s])'
             /\ \A r \in Task : Ending(r)' /\ turn'[r] = turn'[s] => r = s
  BY <1>1, <1>2, <1>3, <1>4, <1>5, <1>6, <1>7, <1>11 DEF VerdictInv
<1>12. OneVerdict'
  BY <1>1, <1>2, <1>3, <1>4, <1>5, <1>6, <1>7 DEF OneVerdict, Ended
<1>13. QED  BY <1>8, <1>9, <1>10, <1>11, <1>12 DEF VerdictInv

(* The paused turn stays alive.                                            *)
LEMMA ResolutionVerdict ==
    ASSUME Shape, Logs, BusyInv, VerdictInv, OneVerdict,
           NEW t \in Task, NEW c, NEW approved, BeginResolution(t, c, approved)
    PROVE  VerdictInv' /\ OneVerdict'
<1> USE TaskAssumption DEF Shape, Logs, BusyInv, Goto, sessionVars, taskVars,
        consentVars, BeginResolution
<1>1. \A v \in Task : Ended(v)' <=> Ended(v)
  BY DEF Ended
<1>2. \A s \in Task : Ending(s) => turn[s] \in Task /\ Begun(turn[s])
  BY EndingBegun
<1>3. \A v \in Task : Begun(v) => Begun(v)'
  BY DEF Begun
<1>4. \A v \in Task : Alive(v)' <=> Alive(v)
  BY DEF Alive
<1>5. \A s \in Task : Ending(s)' <=> Ending(s)
  BY DEF Ending, Places
<1>6. \A s \in Task : Ending(s) => turn'[s] = turn[s]
  BY DEF Ending
<1>7. \A v \in Task : ~Begun(v)' => events'[v] = <<>>
  BY <1>1, <1>2, <1>3, <1>4, <1>5, <1>6 DEF VerdictInv
<1>8. \A v \in Task : (Alive(v) \/ v \in notice)' => ~Ended(v)'
  BY <1>1, <1>2, <1>3, <1>4, <1>5, <1>6 DEF VerdictInv
<1>9. \A v \in Task : Alive(v)' => v \notin notice'
  BY <1>1, <1>2, <1>3, <1>4, <1>5, <1>6 DEF VerdictInv
<1>10. ASSUME NEW s \in Task, Ending(s)'
      PROVE  /\ turn'[s] \notin cancelled' /\ ~Alive(turn[s])' /\ ~Ended(turn[s])'
             /\ \A r \in Task : Ending(r)' /\ turn'[r] = turn'[s] => r = s
  BY <1>1, <1>2, <1>3, <1>4, <1>5, <1>6, <1>10 DEF VerdictInv
<1>11. OneVerdict'
  BY <1>1, <1>2, <1>3, <1>4, <1>5, <1>6 DEF OneVerdict, Ended
<1>12. QED  BY <1>7, <1>8, <1>9, <1>10, <1>11 DEF VerdictInv

(* A turn that pauses stays alive.                                         *)
LEMMA PauseVerdict ==
    ASSUME Shape, Logs, BusyInv, VerdictInv, OneVerdict,
           NEW t \in Task, Pause(t)
    PROVE  VerdictInv' /\ OneVerdict'
<1> USE TaskAssumption DEF Shape, Logs, BusyInv, Goto, sessionVars, taskVars,
        consentVars, Pause, Return, NextOp
<1>1. \A v \in Task : Ended(v)' <=> Ended(v)
  BY DEF Ended
<1>2. \A s \in Task : Ending(s) => turn[s] \in Task /\ Begun(turn[s])
  BY EndingBegun
<1>3. \A v \in Task : Begun(v) => Begun(v)'
  BY DEF Begun
<1>4. turn[t] \in Task /\ (turn[t] \notin cancelled => active = t /\ pending = NoPending)
  BY DEF PausedTurnKept, ActiveIsTheRunner, TokenInv, Running, NamesInv, Begun, Places
<1>5. \A v \in Task : Alive(v)' <=> Alive(v)
  BY <1>4 DEF Alive, NoPending
<1>6. \A s \in Task : Ending(s)' <=> Ending(s)
  BY DEF Ending, Places
<1>7. \A v \in Task : ~Begun(v)' => events'[v] = <<>>
  BY <1>1, <1>2, <1>3, <1>4, <1>5, <1>6 DEF VerdictInv
<1>8. \A v \in Task : (Alive(v) \/ v \in notice)' => ~Ended(v)'
  BY <1>1, <1>2, <1>3, <1>4, <1>5, <1>6 DEF VerdictInv
<1>9. \A v \in Task : Alive(v)' => v \notin notice'
  BY <1>1, <1>2, <1>3, <1>4, <1>5, <1>6 DEF VerdictInv
<1>10. ASSUME NEW s \in Task, Ending(s)'
      PROVE  /\ turn'[s] \notin cancelled' /\ ~Alive(turn[s])' /\ ~Ended(turn[s])'
             /\ \A r \in Task : Ending(r)' /\ turn'[r] = turn'[s] => r = s
  BY <1>1, <1>2, <1>3, <1>4, <1>5, <1>6, <1>10 DEF VerdictInv
<1>11. OneVerdict'
  BY <1>1, <1>2, <1>3, <1>4, <1>5, <1>6 DEF OneVerdict, Ended
<1>12. QED  BY <1>7, <1>8, <1>9, <1>10, <1>11 DEF VerdictInv

(* Whoever clears the turn is the one to give the verdict.                 *)
LEMMA ClearVerdict ==
    ASSUME Shape, Logs, BusyInv, VerdictInv, OneVerdict,
           NEW t \in Task, ClearActive(t)
    PROVE  VerdictInv' /\ OneVerdict'
<1> USE TaskAssumption DEF Shape, Logs, BusyInv, Goto, sessionVars, taskVars,
        consentVars, ClearActive
<1>1. \A v \in Task : Ended(v)' <=> Ended(v)
  BY DEF Ended
<1>2. \A s \in Task : Ending(s) => turn[s] \in Task /\ Begun(turn[s])
  BY EndingBegun
<1>3. \A v \in Task : Begun(v) => Begun(v)'
  BY DEF Begun
<1>4. \A s \in Task : s # t => (Ending(s)' <=> Ending(s))
  BY DEF Ending
<1>5. \A v \in Task : Alive(v)' => Alive(v)
  BY DEF Alive
<1>6. active # NoTask /\ turn[active] = turn[t] => active = t
  BY DEF ActiveIsTheRunner, TokenInv, Running
<1>7. Ending(t)' => Alive(turn[t]) /\ turn[t] \notin cancelled /\ turn[t] \in Task
  BY DEF Ending, Alive, TokenInv, NamesInv, Begun
<1>8. Ending(t)' => ~Alive(turn[t])'
  BY <1>6 DEF Ending, Alive, PausedTurnKept
<1>9. \A v \in Task : ~Begun(v)' => events'[v] = <<>>
  BY <1>1, <1>2, <1>3, <1>4, <1>5, <1>6, <1>7, <1>8 DEF VerdictInv
<1>10. \A v \in Task : (Alive(v) \/ v \in notice)' => ~Ended(v)'
  BY <1>1, <1>2, <1>3, <1>4, <1>5, <1>6, <1>7, <1>8 DEF VerdictInv
<1>11. \A v \in Task : Alive(v)' => v \notin notice'
  BY <1>1, <1>2, <1>3, <1>4, <1>5, <1>6, <1>7, <1>8 DEF VerdictInv
<1>12. ASSUME NEW s \in Task, Ending(s)'
      PROVE  /\ turn'[s] \notin cancelled' /\ ~Alive(turn[s])' /\ ~Ended(turn[s])'
             /\ \A r \in Task : Ending(r)' /\ turn'[r] = turn'[s] => r = s
  BY <1>1, <1>2, <1>3, <1>4, <1>5, <1>6, <1>7, <1>8, <1>12 DEF VerdictInv
<1>13. OneVerdict'
  BY <1>1, <1>2, <1>3, <1>4, <1>5, <1>6, <1>7, <1>8 DEF OneVerdict, Ended
<1>14. QED  BY <1>9, <1>10, <1>11, <1>12, <1>13 DEF VerdictInv

(* The verdict of a task is the first on its turn; what else it sends is none.*)
LEMMA EmitVerdict ==
    ASSUME Shape, Logs, BusyInv, VerdictInv, OneVerdict, NEW t \in Task, EmitOutcome(t)
    PROVE  VerdictInv' /\ OneVerdict'
<1> USE DEF Shape, Goto, sessionVars, consentVars, EmitOutcome
<1> DEFINE u == turn[t]
           event == OutcomeEvent(outcome[t])
<1>1. u \in Task /\ Begun(u)
  BY DEF BusyInv, NamesInv, Begun
<1>2. \A s \in Task : Ending(s) => turn[s] \in Task /\ Begun(turn[s])
  BY EndingBegun
<1>3. \A v \in Task : Begun(v) => Begun(v)'
  BY DEF Begun
<1>4. \A v \in Task : Alive(v)' <=> Alive(v)
  BY DEF Alive
<1>5. \A s \in Task : Ending(s)' <=> Ending(s) /\ s # t
  BY DEF Ending
<1>6. \A v \in Task : v # u => (Ended(v)' <=> Ended(v)) /\ events'[v] = events[v]
  BY DEF Ended, Emit, Logs
<1>7. CASE Ending(t)
  <2>1. event \in EndEvents /\ ~Ended(u) /\ u \notin cancelled /\ ~Alive(u)
    BY <1>7 DEF Ending, OutcomeEvent, EndEvents, VerdictInv
  <2>2. OneVerdict'
    BY <1>1, <2>1, FirstVerdict
  <2>3. VerdictInv'
    <3>1. \A v \in Task : ~Begun(v)' => events'[v] = <<>>
      BY <1>1, <1>2, <1>3, <1>4, <1>5, <1>6, <1>7, <2>1 DEF VerdictInv, Logs
    <3>2. \A v \in Task : (Alive(v) \/ v \in notice)' => ~Ended(v)'
      BY <1>1, <1>2, <1>3, <1>4, <1>5, <1>6, <1>7, <2>1 DEF VerdictInv, Logs
    <3>3. \A v \in Task : Alive(v)' => v \notin notice'
      BY <1>1, <1>2, <1>3, <1>4, <1>5, <1>6, <1>7, <2>1 DEF VerdictInv, Logs
    <3>4. ASSUME NEW s \in Task, Ending(s)'
         PROVE  /\ turn'[s] \notin cancelled' /\ ~Alive(turn[s])' /\ ~Ended(turn[s])'
                /\ \A r \in Task : Ending(r)' /\ turn'[r] = turn'[s] => r = s
      BY <1>1, <1>2, <1>3, <1>4, <1>5, <1>6, <1>7, <2>1, <3>4 DEF VerdictInv, Logs
    <3>5. QED  BY <3>1, <3>2, <3>3, <3>4 DEF VerdictInv
  <2>4. QED  BY <2>2, <2>3
<1>8. CASE ~Ending(t)
  <2>1. event \in {"TurnStarted", "NeedUserInput", "ToolApprovalResolved"}
    BY <1>8 DEF Ending, OutcomeEvent, Results
  <2>2. (Ended(u)' <=> Ended(u)) /\ OneVerdict'
    BY <1>1, <2>1, QuietEvent
  <2>3. VerdictInv'
    <3>1. \A v \in Task : ~Begun(v)' => events'[v] = <<>>
      BY <1>1, <1>2, <1>3, <1>4, <1>5, <1>6, <1>8, <2>2 DEF VerdictInv
    <3>2. \A v \in Task : (Alive(v) \/ v \in notice)' => ~Ended(v)'
      BY <1>1, <1>2, <1>3, <1>4, <1>5, <1>6, <1>8, <2>2 DEF VerdictInv
    <3>3. \A v \in Task : Alive(v)' => v \notin notice'
      BY <1>1, <1>2, <1>3, <1>4, <1>5, <1>6, <1>8, <2>2 DEF VerdictInv
    <3>4. ASSUME NEW s \in Task, Ending(s)'
         PROVE  /\ turn'[s] \notin cancelled' /\ ~Alive(turn[s])' /\ ~Ended(turn[s])'
                /\ \A r \in Task : Ending(r)' /\ turn'[r] = turn'[s] => r = s
      BY <1>1, <1>2, <1>3, <1>4, <1>5, <1>6, <1>8, <2>2, <3>4 DEF VerdictInv
    <3>5. QED  BY <3>1, <3>2, <3>3, <3>4 DEF VerdictInv
  <2>4. QED  BY <2>2, <2>3
<1>9. QED  BY <1>7, <1>8

(* Nobody told of a turn that is interrupted, and no task will.            *)
LEMMA DetachVerdict ==
    ASSUME Shape, Logs, BusyInv, VerdictInv, OneVerdict,
           NEW u \in Task, DetachCurrent(u), UNCHANGED <<pc, turn, outcome, events>>,
           notice' \in {notice, notice \cup {u}}
    PROVE  VerdictInv' /\ OneVerdict'
<1> USE TaskAssumption DEF Shape, Logs, BusyInv, Goto, sessionVars, taskVars,
        consentVars, DetachCurrent
<1>1. \A v \in Task : Ended(v)' <=> Ended(v)
  BY DEF Ended
<1>2. \A s \in Task : Ending(s) => turn[s] \in Task /\ Begun(turn[s])
  BY EndingBegun
<1>3. \A v \in Task : Begun(v) => Begun(v)'
  BY DEF Begun
<1>4. \A s \in Task : Ending(s)' <=> Ending(s)
  BY DEF Ending
<1>5. Alive(u) /\ cancelled' = cancelled \cup {u}
  BY DEF Alive
<1>6. \A v \in Task : Alive(v)' => Alive(v) /\ v # u
  BY DEF Alive, PausedTurnKept, NoPending
<1>7. \A v \in Task : ~Begun(v)' => events'[v] = <<>>
  BY <1>1, <1>2, <1>3, <1>4, <1>5, <1>6 DEF VerdictInv
<1>8. \A v \in Task : (Alive(v) \/ v \in notice)' => ~Ended(v)'
  BY <1>1, <1>2, <1>3, <1>4, <1>5, <1>6 DEF VerdictInv
<1>9. \A v \in Task : Alive(v)' => v \notin notice'
  BY <1>1, <1>2, <1>3, <1>4, <1>5, <1>6 DEF VerdictInv
<1>10. ASSUME NEW s \in Task, Ending(s)'
      PROVE  /\ turn'[s] \notin cancelled' /\ ~Alive(turn[s])' /\ ~Ended(turn[s])'
             /\ \A r \in Task : Ending(r)' /\ turn'[r] = turn'[s] => r = s
  BY <1>1, <1>2, <1>3, <1>4, <1>5, <1>6, <1>10 DEF VerdictInv
<1>11. OneVerdict'
  BY <1>1, <1>2, <1>3, <1>4, <1>5, <1>6 DEF VerdictInv, OneVerdict, Ended, EndEvents
<1>12. QED  BY <1>7, <1>8, <1>9, <1>10, <1>11 DEF VerdictInv

(* The one who interrupted a turn gives the verdict on it.                 *)
LEMMA AnnounceVerdict ==
    ASSUME Shape, Logs, BusyInv, VerdictInv, OneVerdict, NEW u \in Task, AnnounceInterrupt(u)
    PROVE  VerdictInv' /\ OneVerdict'
<1> USE DEF Shape, AnnounceInterrupt, sessionVars, taskVars, consentVars
<1>1. u \in cancelled /\ Begun(u) /\ ~Ended(u) /\ ~Alive(u)
  BY DEF Logs, BusyInv, NamesInv, VerdictInv
<1>2. \A s \in Task : Ending(s) => turn[s] \in Task /\ Begun(turn[s])
  BY EndingBegun
<1>3. \A v \in Task : (Begun(v)' <=> Begun(v)) /\ (Alive(v)' <=> Alive(v)) /\ (Ending(v)' <=> Ending(v))
  BY DEF Begun, Alive, Ending
<1>4. \A v \in Task : v # u => (Ended(v)' <=> Ended(v)) /\ events'[v] = events[v]
  BY DEF Ended, Emit, Logs
<1>5. OneVerdict'
  BY <1>1, FirstVerdict DEF EndEvents
<1>6. VerdictInv'
  <2>1. \A v \in Task : ~Begun(v)' => events'[v] = <<>>
    BY <1>1, <1>2, <1>3, <1>4 DEF VerdictInv
  <2>2. \A v \in Task : (Alive(v) \/ v \in notice)' => ~Ended(v)'
    BY <1>1, <1>2, <1>3, <1>4 DEF VerdictInv
  <2>3. \A v \in Task : Alive(v)' => v \notin notice'
    BY <1>1, <1>2, <1>3, <1>4 DEF VerdictInv
  <2>4. ASSUME NEW s \in Task, Ending(s)'
       PROVE  /\ turn'[s] \notin cancelled' /\ ~Alive(turn[s])' /\ ~Ended(turn[s])'
              /\ \A r \in Task : Ending(r)' /\ turn'[r] = turn'[s] => r = s
    BY <1>1, <1>2, <1>3, <1>4, <2>4 DEF VerdictInv
  <2>5. QED  BY <2>1, <2>2, <2>3, <2>4 DEF VerdictInv
<1>7. QED  BY <1>5, <1>6

-----------------------------------------------------------------------------
(* A set of numbers that is not empty has a least one.                     *)
LEMMA LeastNatural ==
    ASSUME NEW S \in SUBSET Nat, S # {}
    PROVE  \E n \in S : \A m \in S : n <= m
<1> DEFINE R == {p \in Nat \X Nat : p[1] < p[2]}
<1>1. IsWellFoundedOn(R, Nat)
  BY NatLessThanWellFounded DEF OpToRel
<1>2. \A n, m \in Nat : <<m, n>> \in R <=> m < n
  OBVIOUS
<1> HIDE DEF R
<1>3. PICK n \in S : \A m \in S : ~(<<m, n>> \in R)
  BY <1>1, WFMin
<1>4. n \in Nat /\ \A m \in S : m \in Nat /\ ~(m < n)
  BY <1>2, <1>3
<1>5. \A m \in S : n <= m
  BY <1>4
<1>6. QED  BY <1>5

(* Recording keeps the limit, and the new item is the newest.              *)
LEMMA RecordProperties ==
    ASSUME NEW h \in Seq(Item), Len(h) <= MaxItems, NEW item \in Item
    PROVE  /\ Record(h, item, MaxItems) \in Seq(Item)
           /\ Len(Record(h, item, MaxItems)) \in 1..MaxItems
           /\ Newest(Record(h, item, MaxItems)) = item
<1> DEFINE longer == Append(h, item)
<1>1. longer \in Seq(Item) /\ Len(longer) = Len(h) + 1 /\ longer[Len(longer)] = item
  OBVIOUS
<1>2. MaxItems \in Nat /\ MaxItems > 0
  BY BoundAssumption
<1>3. CASE Len(longer) > MaxItems
  <2> DEFINE cut == SubSeq(longer, Len(longer) - MaxItems + 1, Len(longer))
  <2>1. Len(longer) - MaxItems + 1 \in 1..Len(longer)
    BY <1>1, <1>2, <1>3
  <2>2. cut \in Seq(Item) /\ Len(cut) = MaxItems /\ cut[MaxItems] = longer[Len(longer)]
    BY <1>1, <1>2, <1>3, <2>1
  <2>3. Record(h, item, MaxItems) = cut
    BY <1>3 DEF Record
  <2> HIDE DEF longer, cut
  <2>4. QED  BY <1>1, <1>2, <2>2, <2>3 DEF Newest
<1>4. CASE Len(longer) <= MaxItems
  <2>1. Record(h, item, MaxItems) = longer
    BY <1>1, <1>2, <1>4 DEF Record
  <2> HIDE DEF longer
  <2>2. QED  BY <1>1, <1>2, <1>4, <2>1 DEF Newest
<1>5. QED  BY <1>1, <1>2, <1>3, <1>4

(* The start of a run of items exists, and CHOOSE finds it.                *)
LEMMA WalkBackProperties ==
    ASSUME NEW h \in Seq(Item), NEW i \in 1..Len(h), NEW kind
    PROVE  /\ WalkBack(h, i, kind) \in 1..i
           /\ \A m \in WalkBack(h, i, kind)..(i - 1) : h[m].kind = kind
           /\ WalkBack(h, i, kind) = 1 \/ h[WalkBack(h, i, kind) - 1].kind # kind
<1> DEFINE S == {j \in 1..i : \A m \in j..(i - 1) : h[m].kind = kind}
<1>1. S \in SUBSET Nat /\ i \in S
  OBVIOUS
<1>2. PICK j \in S : \A m \in S : j <= m
  <2> HIDE DEF S
  <2>1. QED  BY <1>1, LeastNatural
<1>3. j = 1 \/ h[j - 1].kind # kind
  <2>1. SUFFICES ASSUME j # 1, h[j - 1].kind = kind PROVE FALSE
    OBVIOUS
  <2>2. j - 1 \in 1..i /\ \A m \in (j - 1)..(i - 1) : m = j - 1 \/ m \in j..(i - 1)
    BY <1>2, <2>1
  <2>3. j - 1 \in S
    BY <1>2, <2>1, <2>2
  <2>4. j \in Nat /\ ~(j <= j - 1)
    BY <1>1, <1>2
  <2> HIDE DEF S
  <2>5. QED  BY <1>2, <2>3, <2>4
<1>4. \E k \in 1..i : (\A m \in k..(i - 1) : h[m].kind = kind) /\ (k = 1 \/ h[k - 1].kind # kind)
  BY <1>2, <1>3
<1>5. QED  BY <1>4 DEF WalkBack

(* A run of items that begins at i is over somewhere, and in one place.    *)
LEMMA WalkOnProperties ==
    ASSUME NEW h \in Seq(Item), NEW i \in 1..(Len(h) + 1), NEW kind
    PROVE  /\ WalkOn(h, i, kind) \in i..(Len(h) + 1)
           /\ \A m \in i..(WalkOn(h, i, kind) - 1) : h[m].kind = kind
           /\ WalkOn(h, i, kind) = Len(h) + 1 \/ h[WalkOn(h, i, kind)].kind # kind
<1> DEFINE S == {j \in i..(Len(h) + 1) : j = Len(h) + 1 \/ h[j].kind # kind}
<1>0. Len(h) \in Nat
  OBVIOUS
<1>1. S \in SUBSET Nat /\ Len(h) + 1 \in S
  BY <1>0
<1>2. PICK j \in S : \A m \in S : j <= m
  <2> HIDE DEF S
  <2>1. QED  BY <1>1, LeastNatural
<1>3. ASSUME NEW m \in i..(j - 1) PROVE h[m].kind = kind
  <2>1. m \in i..(Len(h) + 1) /\ ~(j <= m)
    BY <1>0, <1>2
  <2>2. m \notin S
    <3> HIDE DEF S
    <3>1. QED  BY <1>2, <2>1
  <2>3. QED  BY <2>1, <2>2
<1>4. \E k \in i..(Len(h) + 1) :
          /\ \A m \in i..(k - 1) : h[m].kind = kind
          /\ k = Len(h) + 1 \/ h[k].kind # kind
  BY <1>2, <1>3
<1> HIDE DEF S
<1>5. QED  BY <1>4 DEF WalkOn

LEMMA WalkOnUnique ==
    ASSUME NEW h \in Seq(Item), NEW i \in 1..(Len(h) + 1), NEW kind,
           NEW j \in i..(Len(h) + 1), \A m \in i..(j - 1) : h[m].kind = kind,
           j = Len(h) + 1 \/ h[j].kind # kind
    PROVE  WalkOn(h, i, kind) = j
<1> DEFINE k == WalkOn(h, i, kind)
<1>1. /\ k \in i..(Len(h) + 1) /\ Len(h) \in Nat
      /\ \A m \in i..(k - 1) : h[m].kind = kind
      /\ k = Len(h) + 1 \/ h[k].kind # kind
  BY WalkOnProperties
<1> HIDE DEF k
<1>2. ~(k < j)
  <2>1. SUFFICES ASSUME k < j PROVE FALSE
    OBVIOUS
  <2>2. k \in i..(j - 1) /\ k # Len(h) + 1
    BY <1>1, <2>1
  <2>3. QED  BY <1>1, <2>2
<1>3. ~(j < k)
  <2>1. SUFFICES ASSUME j < k PROVE FALSE
    OBVIOUS
  <2>2. j \in i..(k - 1) /\ j # Len(h) + 1
    BY <1>1, <2>1
  <2>3. QED  BY <1>1, <2>2
<1>4. QED  BY <1>1, <1>2, <1>3 DEF k

(* A history is cut in front of a tool exchange, or of the reasoning that  *)
(* led to it, and never inside.                                            *)
Edge(h, f) ==
    f > 1 => /\ h[f].kind = "Call" => h[f - 1].kind \notin {"Call", "Reasoned"}
             /\ h[f].kind = "Obs" => h[f - 1].kind \notin {"Call", "Obs"}

LEMMA BoundaryAtEdge ==
    ASSUME NEW h \in Seq(Item), NEW i \in 1..Len(h)
    PROVE  ToolBoundary(h, i) \in 1..i /\ Edge(h, ToolBoundary(h, i))
<1> DEFINE start == CASE h[i].kind = "Obs"  -> WalkBack(h, WalkBack(h, i, "Obs"), "Call")
                      [] h[i].kind = "Call" -> WalkBack(h, i, "Call")
                      [] OTHER              -> i
           moved == start > 1 /\ h[start].kind \in {"Call", "Obs"} /\ h[start - 1].kind = "Reasoned"
<1>0. ToolBoundary(h, i) = IF moved THEN start - 1 ELSE start
  BY DEF ToolBoundary
<1>1. /\ start \in 1..i
      /\ start > 1 /\ h[start].kind = "Call" => h[start - 1].kind # "Call"
      /\ start > 1 /\ h[start].kind = "Obs" => h[start - 1].kind \notin {"Call", "Obs"}
  <2>1. CASE h[i].kind = "Obs"
    <3> DEFINE a == WalkBack(h, i, "Obs")
               b == WalkBack(h, a, "Call")
    <3>1. /\ a \in 1..i /\ \A m \in a..(i - 1) : h[m].kind = "Obs"
          /\ a = 1 \/ h[a - 1].kind # "Obs"
      BY WalkBackProperties
    <3>2. a \in 1..Len(h)
      BY <3>1
    <3> HIDE DEF a
    <3>3. /\ b \in 1..a /\ \A m \in b..(a - 1) : h[m].kind = "Call"
          /\ b = 1 \/ h[b - 1].kind # "Call"
      BY <3>2, WalkBackProperties
    <3>4. start = b
      BY <2>1 DEF a
    <3> HIDE DEF b
    <3>5. CASE b = a
      <4>1. h[a].kind = "Obs"
        BY <2>1, <3>1
      <4>2. QED  BY <3>1, <3>3, <3>4, <3>5, <4>1
    <3>6. CASE b # a
      <4>1. b \in b..(a - 1)
        BY <3>1, <3>3, <3>6
      <4>2. h[b].kind = "Call"
        BY <3>3, <4>1
      <4>3. QED  BY <3>1, <3>3, <3>4, <4>2
    <3>7. QED  BY <3>5, <3>6
  <2>2. CASE h[i].kind = "Call"
    <3> DEFINE b == WalkBack(h, i, "Call")
    <3>1. /\ b \in 1..i /\ \A m \in b..(i - 1) : h[m].kind = "Call"
          /\ b = 1 \/ h[b - 1].kind # "Call"
      BY WalkBackProperties
    <3>2. start = b
      BY <2>2
    <3> HIDE DEF b
    <3>3. h[b].kind = "Call"
      BY <2>2, <3>1
    <3>4. QED  BY <3>1, <3>2, <3>3
  <2>3. CASE h[i].kind \notin {"Obs", "Call"}
    BY <2>3
  <2>4. QED  BY <2>1, <2>2, <2>3
<1> HIDE DEF start
<1>2. CASE moved
  <2>1. ToolBoundary(h, i) = start - 1 /\ start - 1 \in 1..i /\ h[start - 1].kind = "Reasoned"
    BY <1>0, <1>1, <1>2
  <2>2. QED  BY <2>1 DEF Edge
<1>3. CASE ~moved
  <2>1. ToolBoundary(h, i) = start
    BY <1>0, <1>3
  <2>2. start > 1 /\ h[start].kind = "Call" => h[start - 1].kind # "Reasoned"
    BY <1>3
  <2>3. Edge(h, start)
    BY <1>1, <2>2 DEF Edge
  <2>4. QED  BY <1>1, <2>1, <2>3
<1>4. QED  BY <1>2, <1>3

(* A compaction keeps at least the newest item, from an edge on.           *)
LEMMA FirstKeptProperties ==
    ASSUME NEW h \in Seq(Item), h # <<>>
    PROVE  FirstKept(h, KeepLast) \in 1..Len(h) /\ Edge(h, FirstKept(h, KeepLast))
<1>1. KeepLast \in Nat /\ Len(h) \in Nat /\ Len(h) > 0
  BY BoundAssumption
<1>2. CASE Len(h) <= 1
  BY <1>1, <1>2 DEF FirstKept, Edge
<1>3. CASE ~(Len(h) <= 1)
  <2> DEFINE atLeastOne == IF KeepLast < 1 THEN 1 ELSE KeepLast
             kept == IF atLeastOne > Len(h) - 1 THEN Len(h) - 1 ELSE atLeastOne
  <2>1. kept \in 1..(Len(h) - 1)
    BY <1>1, <1>3
  <2>2. FirstKept(h, KeepLast) = ToolBoundary(h, Len(h) - kept + 1)
    BY <1>3 DEF FirstKept
  <2> HIDE DEF kept
  <2>3. Len(h) - kept + 1 \in 1..Len(h)
    BY <1>1, <2>1
  <2>4. QED  BY <2>2, <2>3, BoundaryAtEdge
<1>4. QED  BY <1>2, <1>3

(* A compaction makes no history longer, and its newest item stays.        *)
LEMMA CompactProperties ==
    ASSUME NEW h \in Seq(Item)
    PROVE  LET after == CompactOldItems(h, KeepLast, SummaryItem)
           IN  /\ after \in Seq(Item) /\ Len(after) <= Len(h)
               /\ h = <<>> => after = <<>>
               /\ h # <<>> => after # <<>> /\ Newest(after) = Newest(h)
<1> DEFINE first == FirstKept(h, KeepLast)
<1>1. SummaryItem \in Item
  BY DEF SummaryItem, Say, Item, Kinds
<1>2. CASE h = <<>>
  BY <1>2 DEF CompactOldItems, FirstKept
<1>3. CASE h # <<>> /\ first = 1
  BY <1>3 DEF CompactOldItems
<1>4. CASE h # <<>> /\ first # 1
  <2> DEFINE suffix == SubSeq(h, first, Len(h))
             after == <<SummaryItem>> \o suffix
  <2>1. first \in 2..Len(h) /\ Len(h) \in Nat
    BY <1>4, FirstKeptProperties
  <2>2. suffix \in Seq(Item) /\ Len(suffix) = Len(h) - first + 1 /\ suffix[Len(suffix)] = h[Len(h)]
    BY <2>1
  <2>3. CompactOldItems(h, KeepLast, SummaryItem) = after
    BY <1>4 DEF CompactOldItems
  <2> HIDE DEF first, suffix
  <2>4. after \in Seq(Item) /\ Len(after) = Len(suffix) + 1
    BY <1>1, <2>2
  <2>5. after[Len(after)] = suffix[Len(suffix)] /\ after # <<>>
    BY <1>1, <2>1, <2>2, <2>4
  <2>6. QED  BY <1>4, <2>1, <2>2, <2>3, <2>4, <2>5 DEF Newest
<1>5. QED  BY <1>2, <1>3, <1>4

-----------------------------------------------------------------------------
(* A function on 1..n is a sequence.                                       *)
LEMMA FunctionIsSequence ==
    ASSUME NEW S, NEW n \in Nat, NEW f \in [1..n -> S]
    PROVE  f \in Seq(S) /\ Len(f) = n /\ DOMAIN f = 1..n
OBVIOUS

(* What the steps of a script are made of.                                 *)
LEMMA OpFields ==
    ASSUME NEW op \in Op
    PROVE  /\ op.do \in {"write", "run", "pause", "finish"}
           /\ op.do = "write" => op.item \in Item
           /\ op.do = "run" => op.call \in Call /\ op.joined \in BOOLEAN
           /\ op.do = "pause" => op.calls \in Seq(Call)
           /\ op.do = "finish" => op.result \in Results
BY DEF Op

(* What the constructors of steps make.                                    *)
LEMMA OpKinds ==
    /\ \A item \in Item : WriteOp(item) \in Op /\ WriteOp(item).do = "write"
    /\ \A c \in Call, joined \in BOOLEAN :
           /\ RunOp(c, joined) \in Op /\ RunOp(c, joined).do = "run"
           /\ RunOp(c, joined).call = c /\ RunOp(c, joined).joined = joined
    /\ \A calls \in Seq(Call) :
           /\ PauseOp(calls) \in Op /\ PauseOp(calls).do = "pause" /\ PauseOp(calls).calls = calls
    /\ \A result \in Results : FinishOp(result) \in Op /\ FinishOp(result).do = "finish"
BY DEF WriteOp, RunOp, PauseOp, FinishOp, Op

(* What the constructors of items make.                                    *)
LEMMA ItemKinds ==
    /\ \A u \in Task, kind \in Kinds : Say(u, kind) \in Item
    /\ \A u \in Task, c \in Call : CallItem(u, c) \in Item /\ ObsItem(u, c) \in Item
BY DEF Say, CallItem, ObsItem, Item, Kinds

(* The calls of a response are named once each.                            *)
LEMMA CallSeqsProperties ==
    ASSUME NEW S \in SUBSET Call, NEW s \in CallSeqs(S)
    PROVE  s \in Seq(Call) /\ Distinct(s) /\ Range(s) \subseteq S
<1>1. PICK n \in 0..MaxCalls : s \in [1..n -> S]
  BY DEF CallSeqs
<1>2. n \in Nat /\ s \in [1..n -> Call]
  BY <1>1, BoundAssumption
<1>3. s \in Seq(Call) /\ Distinct(s)
  BY <1>2, FunctionIsSequence DEF CallSeqs, Distinct
<1>4. QED  BY <1>1, <1>3 DEF Range

(* Where the steps of two scripts are in the one that joins them.          *)
LEMMA JoinedParts ==
    ASSUME NEW a \in Seq(Op), NEW b \in Seq(Op)
    PROVE  /\ a \o b \in Seq(Op) /\ Len(a) \in Nat /\ Len(b) \in Nat
           /\ Len(a \o b) = Len(a) + Len(b)
           /\ DOMAIN a = 1..Len(a) /\ DOMAIN b = 1..Len(b) /\ DOMAIN (a \o b) = 1..Len(a \o b)
           /\ \A i \in 1..Len(a) : (a \o b)[i] = a[i]
           /\ \A i \in (Len(a) + 1)..Len(a \o b) : (a \o b)[i] = b[i - Len(a)]
OBVIOUS

(* Writes before a script change nothing of what it runs.                  *)
LEMMA WritesFirst ==
    ASSUME NEW w \in Seq(Op), \A i \in DOMAIN w : w[i].do = "write",
           NEW s \in Seq(Op), WellFormed(s)
    PROVE  /\ w \o s \in Seq(Op) /\ WellFormed(w \o s)
           /\ \A i : Runs(w \o s, i) => \E j : Runs(s, j) /\ (w \o s)[i] = s[j]
<1> DEFINE all == w \o s
<1>1. /\ all \in Seq(Op) /\ Len(w) \in Nat /\ Len(s) \in Nat /\ Len(all) = Len(w) + Len(s)
      /\ DOMAIN w = 1..Len(w) /\ DOMAIN s = 1..Len(s) /\ DOMAIN all = 1..Len(all)
      /\ \A i \in 1..Len(w) : all[i] = w[i]
      /\ \A i \in (Len(w) + 1)..Len(all) : all[i] = s[i - Len(w)]
  BY JoinedParts
<1> HIDE DEF all
<1>2. \A i \in DOMAIN all :
          \/ all[i].do = "write"
          \/ i - Len(w) \in DOMAIN s /\ all[i] = s[i - Len(w)] /\ i > Len(w)
  BY <1>1
<1>3. \A i : Runs(all, i) => i \in Int /\ Runs(s, i - Len(w)) /\ all[i] = s[i - Len(w)]
  BY <1>1, <1>2 DEF Runs
<1>4. \A i, j \in DOMAIN all : Runs(all, i) /\ Runs(all, j) /\ all[i].call = all[j].call => i = j
  <2>1. SUFFICES ASSUME NEW i \in DOMAIN all, NEW j \in DOMAIN all, Runs(all, i), Runs(all, j),
                        all[i].call = all[j].call
                 PROVE  i = j
    OBVIOUS
  <2>2. i - Len(w) = j - Len(w)
    BY <1>3, <2>1 DEF WellFormed, Runs
  <2>3. QED  BY <1>1, <2>2
<1>5. \A i \in DOMAIN all : Runs(all, i) /\ all[i].joined => Runs(all, i + 1)
  <2>1. SUFFICES ASSUME NEW i \in DOMAIN all, Runs(all, i), all[i].joined PROVE Runs(all, i + 1)
    OBVIOUS
  <2>2. i - Len(w) \in DOMAIN s /\ Runs(s, i - Len(w)) /\ s[i - Len(w)].joined
    BY <1>3, <2>1 DEF Runs
  <2>3. Runs(s, (i - Len(w)) + 1)
    BY <2>2 DEF WellFormed
  <2>4. i + 1 \in (Len(w) + 1)..Len(all) /\ (i - Len(w)) + 1 = (i + 1) - Len(w)
    BY <1>1, <2>2, <2>3 DEF Runs
  <2>5. QED  BY <1>1, <2>3, <2>4 DEF Runs
<1>6. \A i \in DOMAIN all : all[i].do = "pause" => Distinct(all[i].calls)
  BY <1>2 DEF WellFormed
<1>7. QED  BY <1>1, <1>3, <1>4, <1>5, <1>6 DEF WellFormed, all

(* Runs of different calls, of which the last is not joined, are a script. *)
LEMMA RunsOfCalls ==
    ASSUME NEW c \in Seq(Call), Distinct(c), NEW s \in Seq(Op), Len(s) = Len(c),
           \A i \in 1..Len(c) : s[i].do = "run" /\ s[i].call = c[i] /\ (s[i].joined => i < Len(c))
    PROVE  WellFormed(s) /\ \A i : Runs(s, i) => s[i].call \in Range(c)
<1>1. DOMAIN s = 1..Len(c) /\ DOMAIN c = 1..Len(c) /\ Len(c) \in Nat
  OBVIOUS
<1>2. \A i \in DOMAIN s : s[i].do = "run" /\ s[i].call = c[i]
  BY <1>1
<1>3. \A i, j \in DOMAIN s : s[i].call = s[j].call => i = j
  BY <1>1, <1>2 DEF Distinct
<1>4. \A i \in DOMAIN s : s[i].joined => i + 1 \in DOMAIN s
  BY <1>1
<1>5. QED  BY <1>1, <1>2, <1>3, <1>4 DEF WellFormed, Runs, Range

(* A response runs only calls that need no approval, and asks for the      *)
(* others.                                                                 *)
LEMMA ResponseScriptRuns ==
    ASSUME NEW u \in Task, NEW m, NEW say \in Says,
           NEW refused \in CallSeqs(RefusedCalls(m)), NEW gated \in CallSeqs(GatedCalls(m)),
           NEW executable \in CallSeqs(ExecutableCalls(m)), NEW r,
           r = [refused |-> refused, gated |-> gated, executable |-> executable]
    PROVE  /\ ResponseScript(u, say, r) \in Seq(Op) /\ WellFormed(ResponseScript(u, say, r))
           /\ \A i : Runs(ResponseScript(u, say, r), i) =>
                         ResponseScript(u, say, r)[i].call \in ExecutableCalls(m)
<1> DEFINE n == Len(executable)
           text == IF say = "None" THEN <<>> ELSE <<WriteOp(Say(u, say))>>
           refusals == [i \in DOMAIN refused |-> WriteOp(ObsItem(u, refused[i]))]
           calls == [i \in DOMAIN executable |-> WriteOp(CallItem(u, executable[i]))]
           runs == [i \in DOMAIN executable |->
                       RunOp(executable[i], /\ i < n
                                            /\ executable[i] \in Parallel
                                            /\ executable[i + 1] \in Parallel)]
           rest == IF gated # <<>> THEN <<PauseOp(gated)>> ELSE calls \o runs
           script1 == text \o refusals \o rest
<1>1. /\ refused \in Seq(Call) /\ gated \in Seq(Call) /\ executable \in Seq(Call)
      /\ Distinct(gated) /\ Distinct(executable) /\ Range(executable) \subseteq ExecutableCalls(m)
  <2>1. RefusedCalls(m) \in SUBSET Call /\ GatedCalls(m) \in SUBSET Call
        /\ ExecutableCalls(m) \in SUBSET Call
    BY DEF RefusedCalls, GatedCalls, ExecutableCalls
  <2>2. QED  BY <2>1, CallSeqsProperties
<1>2. /\ n \in Nat /\ DOMAIN executable = 1..n
      /\ Len(refused) \in Nat /\ DOMAIN refused = 1..Len(refused)
      /\ \A i \in 1..n : executable[i] \in Call
      /\ \A i \in 1..Len(refused) : refused[i] \in Call
  BY <1>1
<1>3. text \in Seq(Op) /\ \A i \in DOMAIN text : text[i].do = "write"
  <2>1. CASE say = "None"
    BY <2>1
  <2>2. CASE say # "None"
    <3>1. WriteOp(Say(u, say)) \in Op /\ WriteOp(Say(u, say)).do = "write"
      BY <2>2, ItemKinds, OpKinds, ModeAssumption DEF Kinds
    <3> DEFINE first == WriteOp(Say(u, say))
    <3> HIDE DEF first
    <3>2. <<first>> \in Seq(Op) /\ DOMAIN <<first>> = {1} /\ <<first>>[1] = first
      BY <3>1 DEF first
    <3>3. QED  BY <2>2, <3>1, <3>2 DEF first
  <2>3. QED  BY <2>1, <2>2
<1>4. refusals \in Seq(Op) /\ \A i \in DOMAIN refusals : refusals[i].do = "write"
  <2>1. \A i \in 1..Len(refused) : WriteOp(ObsItem(u, refused[i])) \in Op
                                   /\ WriteOp(ObsItem(u, refused[i])).do = "write"
    BY <1>2, ItemKinds, OpKinds
  <2>2. refusals \in [1..Len(refused) -> Op]
    BY <1>2, <2>1
  <2>3. QED  BY <1>2, <2>1, <2>2, FunctionIsSequence
<1>5. calls \in Seq(Op) /\ \A i \in DOMAIN calls : calls[i].do = "write"
  <2>1. \A i \in 1..n : WriteOp(CallItem(u, executable[i])) \in Op
                        /\ WriteOp(CallItem(u, executable[i])).do = "write"
    BY <1>2, ItemKinds, OpKinds
  <2>2. calls \in [1..n -> Op]
    BY <1>2, <2>1
  <2>3. QED  BY <1>2, <2>1, <2>2, FunctionIsSequence
<1>6. runs \in Seq(Op) /\ WellFormed(runs) /\ \A i : Runs(runs, i) => runs[i].call \in Range(executable)
  <2> DEFINE J(i) == i < n /\ executable[i] \in Parallel /\ executable[i + 1] \in Parallel
  <2>1. \A i \in 1..n : /\ runs[i] = RunOp(executable[i], J(i)) /\ J(i) \in BOOLEAN
    BY <1>2
  <2>2. \A i \in 1..n : /\ runs[i] \in Op /\ runs[i].do = "run" /\ runs[i].call = executable[i]
                        /\ (runs[i].joined => i < n)
    BY <1>2, <2>1, OpKinds
  <2>3. runs \in [1..n -> Op]
    BY <1>2, <2>2
  <2>4. runs \in Seq(Op) /\ Len(runs) = n
    BY <1>2, <2>3, FunctionIsSequence
  <2> HIDE DEF runs
  <2>5. QED  BY <1>1, <2>2, <2>4, RunsOfCalls
<1>7. rest \in Seq(Op) /\ WellFormed(rest) /\ \A i : Runs(rest, i) => rest[i].call \in Range(executable)
  <2>1. CASE gated # <<>>
    <3> DEFINE pause == PauseOp(gated)
    <3>1. pause \in Op /\ pause.do = "pause" /\ pause.calls = gated
      BY <1>1, OpKinds
    <3> HIDE DEF pause
    <3>2. <<pause>> \in Seq(Op) /\ DOMAIN <<pause>> = {1} /\ <<pause>>[1] = pause
      BY <3>1
    <3>3. rest = <<pause>>
      BY <2>1 DEF pause
    <3> HIDE DEF rest
    <3>4. \A i : ~Runs(rest, i)
      BY <3>1, <3>2, <3>3 DEF Runs
    <3>5. QED  BY <1>1, <3>1, <3>2, <3>3, <3>4 DEF WellFormed
  <2>2. CASE gated = <<>>
    <3>1. rest = calls \o runs
      BY <2>2
    <3> HIDE DEF calls, runs, rest
    <3>2. /\ calls \o runs \in Seq(Op) /\ WellFormed(calls \o runs)
          /\ \A i : Runs(calls \o runs, i) => \E j : Runs(runs, j) /\ (calls \o runs)[i] = runs[j]
      BY <1>5, <1>6, WritesFirst
    <3>3. QED  BY <1>6, <3>1, <3>2
  <2>3. QED  BY <2>1, <2>2
<1>8. ResponseScript(u, say, r) = script1
  BY DEF ResponseScript
<1>9. text \o refusals \in Seq(Op) /\ \A i \in DOMAIN (text \o refusals) : (text \o refusals)[i].do = "write"
  <2> HIDE DEF text, refusals
  <2>1. QED  BY <1>3, <1>4
<1> DEFINE first == text \o refusals
<1>10. script1 = first \o rest
  OBVIOUS
<1> HIDE DEF first, rest, script1
<1>11. /\ first \o rest \in Seq(Op) /\ WellFormed(first \o rest)
       /\ \A i : Runs(first \o rest, i) => \E j : Runs(rest, j) /\ (first \o rest)[i] = rest[j]
  <2>1. first \in Seq(Op) /\ \A i \in DOMAIN first : first[i].do = "write"
    BY <1>9 DEF first
  <2>2. QED  BY <1>7, <2>1, WritesFirst
<1>12. QED  BY <1>1, <1>7, <1>8, <1>10, <1>11

(* A decision runs the calls it is about, and none if it is a rejection.   *)
LEMMA DecisionScriptRuns ==
    ASSUME NEW u \in Task, NEW decided \in Seq(Call), Distinct(decided), NEW approved \in BOOLEAN
    PROVE  /\ DecisionScript(u, decided, approved) \in Seq(Op)
           /\ WellFormed(DecisionScript(u, decided, approved))
           /\ \A i : Runs(DecisionScript(u, decided, approved), i) =>
                  approved /\ DecisionScript(u, decided, approved)[i].call \in Range(decided)
<1> DEFINE n == Len(decided)
           written == [i \in DOMAIN decided |-> WriteOp(CallItem(u, decided[i]))]
           runs == [i \in DOMAIN decided |-> RunOp(decided[i], FALSE)]
           rejections == [i \in DOMAIN decided |-> WriteOp(ObsItem(u, decided[i]))]
           rest == IF approved THEN runs ELSE rejections
<1>1. n \in Nat /\ DOMAIN decided = 1..n /\ \A i \in 1..n : decided[i] \in Call
  OBVIOUS
<1>2. written \in Seq(Op) /\ \A i \in DOMAIN written : written[i].do = "write"
  <2>1. \A i \in 1..n : WriteOp(CallItem(u, decided[i])) \in Op
                        /\ WriteOp(CallItem(u, decided[i])).do = "write"
    BY <1>1, ItemKinds, OpKinds
  <2>2. written \in [1..n -> Op]
    BY <1>1, <2>1
  <2>3. QED  BY <1>1, <2>1, <2>2, FunctionIsSequence
<1>3. rejections \in Seq(Op) /\ \A i \in DOMAIN rejections : rejections[i].do = "write"
  <2>1. \A i \in 1..n : WriteOp(ObsItem(u, decided[i])) \in Op
                        /\ WriteOp(ObsItem(u, decided[i])).do = "write"
    BY <1>1, ItemKinds, OpKinds
  <2>2. rejections \in [1..n -> Op]
    BY <1>1, <2>1
  <2>3. QED  BY <1>1, <2>1, <2>2, FunctionIsSequence
<1>4. runs \in Seq(Op) /\ WellFormed(runs) /\ \A i : Runs(runs, i) => runs[i].call \in Range(decided)
  <2>1. \A i \in 1..n : /\ runs[i] \in Op /\ runs[i].do = "run" /\ runs[i].call = decided[i]
                        /\ ~runs[i].joined
    BY <1>1, OpKinds
  <2>2. runs \in [1..n -> Op]
    BY <1>1, <2>1
  <2>3. runs \in Seq(Op) /\ Len(runs) = n
    BY <1>1, <2>2, FunctionIsSequence
  <2> HIDE DEF runs
  <2>4. QED  BY <2>1, <2>3, RunsOfCalls
<1>5. /\ rest \in Seq(Op) /\ WellFormed(rest)
      /\ \A i : Runs(rest, i) => approved /\ rest[i].call \in Range(decided)
  <2>1. CASE approved
    BY <1>4, <2>1
  <2>2. CASE ~approved
    <3>1. rest = rejections
      BY <2>2
    <3> HIDE DEF rest, rejections
    <3>2. \A i : ~Runs(rest, i)
      BY <1>3, <3>1 DEF Runs
    <3>3. QED  BY <1>3, <3>1, <3>2 DEF WellFormed
  <2>3. QED  BY <2>1, <2>2
<1>6. DecisionScript(u, decided, approved) = written \o rest
  BY DEF DecisionScript
<1> HIDE DEF written, rest
<1>7. /\ written \o rest \in Seq(Op) /\ WellFormed(written \o rest)
      /\ \A i : Runs(written \o rest, i) => \E j : Runs(rest, j) /\ (written \o rest)[i] = rest[j]
  BY <1>2, <1>5, WritesFirst
<1>8. QED  BY <1>5, <1>6, <1>7

-----------------------------------------------------------------------------
(* A batch ends where its runs are not joined, and it does end.            *)
LEMMA BatchProperties ==
    ASSUME NEW s \in Seq(Op), WellFormed(s), Runs(s, 1)
    PROVE  BatchLen(s) \in 1..Len(s) /\ \A i \in 1..BatchLen(s) : Runs(s, i)
<1> DEFINE Joins(i) == Runs(s, i) /\ s[i].joined
           Ends(n) == ~s[n].joined /\ \A i \in 1..(n - 1) : s[i].do = "run" /\ s[i].joined
           S == {n \in 1..Len(s) : ~Joins(n)}
<1>1. Len(s) \in Nat /\ DOMAIN s = 1..Len(s)
  OBVIOUS
<1>2. \A i \in 1..Len(s) : Joins(i) => i < Len(s) /\ Runs(s, i + 1)
  BY <1>1 DEF WellFormed, Runs
<1>3. S # {} /\ S \in SUBSET Nat
  <2>1. Len(s) \in 1..Len(s)
    BY <1>1 DEF Runs
  <2>2. ~Joins(Len(s))
    BY <1>1, <1>2, <2>1
  <2>3. QED  BY <2>1, <2>2
<1>4. PICK n \in S : \A m \in S : n <= m
  <2> HIDE DEF S
  <2>1. QED  BY <1>3, LeastNatural
<1>5. n \in 1..Len(s) /\ ~Joins(n) /\ \A i \in 1..(n - 1) : Joins(i)
  <2>1. n \in 1..Len(s) /\ ~Joins(n)
    OBVIOUS
  <2>2. ASSUME NEW i \in 1..(n - 1) PROVE Joins(i)
    <3>1. i \in 1..Len(s) /\ ~(n <= i)
      BY <1>1, <2>1
    <3>2. i \notin S
      BY <1>4, <3>1
    <3>3. QED  BY <3>1, <3>2
  <2>3. QED  BY <2>1, <2>2
<1>6. Runs(s, n)
  <2>1. CASE n = 1
    BY <2>1
  <2>2. CASE n # 1
    <3>1. n - 1 \in 1..(n - 1) /\ n - 1 \in 1..Len(s) /\ (n - 1) + 1 = n
      BY <1>1, <1>5, <2>2
    <3>2. Joins(n - 1)
      BY <1>5, <3>1
    <3>3. QED  BY <1>2, <3>1, <3>2
  <2>3. QED  BY <2>1, <2>2
<1>7. Ends(n)
  BY <1>5, <1>6 DEF Runs
<1>8. BatchLen(s) \in 1..Len(s) /\ Ends(BatchLen(s))
  <2>1. BatchLen(s) = CHOOSE k \in 1..Len(s) : Ends(k)
    BY DEF BatchLen
  <2> HIDE DEF Ends
  <2>2. QED  BY <1>5, <1>7, <2>1
<1> DEFINE b == BatchLen(s)
<1> HIDE DEF b
<1>9. b \in 1..Len(s) /\ \A i \in 1..(b - 1) : Joins(i)
  BY <1>1, <1>8 DEF Runs, b
<1>10. Runs(s, b)
  <2>1. CASE b = 1
    BY <2>1
  <2>2. CASE b # 1
    <3>1. b - 1 \in 1..(b - 1) /\ b - 1 \in 1..Len(s) /\ (b - 1) + 1 = b
      BY <1>1, <1>9, <2>2
    <3>2. Joins(b - 1)
      BY <1>9, <3>1
    <3>3. QED  BY <1>2, <3>1, <3>2
  <2>3. QED  BY <2>1, <2>2
<1>11. ASSUME NEW i \in 1..b PROVE Runs(s, i)
  <2>1. i = b \/ i \in 1..(b - 1)
    BY <1>1, <1>9
  <2>2. QED  BY <1>9, <1>10, <2>1
<1>12. QED  BY <1>9, <1>11 DEF b

(* What follows the first steps of a script.                               *)
LEMMA SuffixProperties ==
    ASSUME NEW s \in Seq(Op), NEW b \in 1..Len(s)
    PROVE  /\ SubSeq(s, b + 1, Len(s)) \in Seq(Op)
           /\ Len(SubSeq(s, b + 1, Len(s))) = Len(s) - b
           /\ \A i \in 1..(Len(s) - b) : SubSeq(s, b + 1, Len(s))[i] = s[b + i]
<1> DEFINE rest == SubSeq(s, b + 1, Len(s))
<1>1. Len(s) \in Nat /\ b \in Nat /\ \A i \in 1..Len(s) : s[i] \in Op
  OBVIOUS
<1>2. rest = [i \in 1..(Len(s) - b) |-> s[b + i]]
  BY <1>1
<1>3. rest \in [1..(Len(s) - b) -> Op] /\ Len(s) - b \in Nat
  <2>1. \A i \in 1..(Len(s) - b) : b + i \in 1..Len(s)
    BY <1>1
  <2>2. Len(s) - b \in Nat
    BY <1>1
  <2> HIDE DEF rest
  <2>3. QED  BY <1>1, <1>2, <2>1, <2>2
<1>4. QED  BY <1>2, <1>3, FunctionIsSequence

(* Where the batch was, its observations are written; the rest stays.      *)
LEMMA AfterBatchProperties ==
    ASSUME NEW u \in Task, NEW s \in Seq(Op), WellFormed(s), Runs(s, 1)
    PROVE  /\ AfterBatch(u, s) \in Seq(Op) /\ WellFormed(AfterBatch(u, s))
           /\ \A i : Runs(AfterBatch(u, s), i) =>
                  Runs(s, i) /\ i > BatchLen(s) /\ AfterBatch(u, s)[i] = s[i]
<1> DEFINE b == BatchLen(s)
           written == [i \in 1..b |-> WriteOp(ObsItem(u, s[i].call))]
           rest == SubSeq(s, b + 1, Len(s))
           after == written \o rest
<1>1. Len(s) \in Nat /\ DOMAIN s = 1..Len(s) /\ \A i \in 1..Len(s) : s[i] \in Op
  OBVIOUS
<1>2. b \in 1..Len(s) /\ \A i \in 1..b : Runs(s, i)
  BY BatchProperties
<1>3. AfterBatch(u, s) = after
  BY DEF AfterBatch
<1> HIDE DEF b
<1>4. \A i \in 1..b : WriteOp(ObsItem(u, s[i].call)) \in Op /\ WriteOp(ObsItem(u, s[i].call)).do = "write"
  <2>1. ASSUME NEW i \in 1..b PROVE s[i].call \in Call
    BY <1>1, <1>2, OpFields DEF Runs
  <2>2. QED  BY <2>1, ItemKinds, OpKinds
<1>5. written \in [1..b -> Op] /\ b \in Nat
  BY <1>1, <1>2, <1>4
<1>6. /\ written \in Seq(Op) /\ Len(written) = b
      /\ \A i \in 1..b : written[i].do = "write"
  BY <1>4, <1>5, FunctionIsSequence
<1>7. /\ rest \in Seq(Op) /\ Len(rest) = Len(s) - b
      /\ \A i \in 1..(Len(s) - b) : rest[i] = s[b + i]
  BY <1>2, SuffixProperties
<1> HIDE DEF written, rest
<1>8. /\ after \in Seq(Op) /\ Len(after) = Len(s)
      /\ \A i \in 1..b : after[i] = written[i]
      /\ \A i \in (b + 1)..Len(s) : after[i] = rest[i - b]
  <2>1. b + (Len(s) - b) = Len(s) /\ b \in Nat /\ Len(s) - b \in Nat
    BY <1>1, <1>2
  <2>2. after \in Seq(Op) /\ Len(after) = Len(written) + Len(rest)
    BY <1>6, <1>7
  <2>3. /\ \A i \in 1..Len(written) : after[i] = written[i]
        /\ \A i \in (Len(written) + 1)..Len(after) : after[i] = rest[i - Len(written)]
    BY <1>6, <1>7, JoinedParts
  <2> HIDE DEF after
  <2>4. QED  BY <1>1, <1>6, <1>7, <2>1, <2>2, <2>3
<1>9. ASSUME NEW i \in (b + 1)..Len(s) PROVE after[i] = s[i]
  <2>1. i - b \in 1..(Len(s) - b) /\ b + (i - b) = i
    BY <1>1, <1>2
  <2>2. QED  BY <1>7, <1>8, <2>1
<1> HIDE DEF after
<1>10. DOMAIN after = 1..Len(s) /\ \A i \in 1..b : after[i].do = "write"
  BY <1>6, <1>8
<1>11. ASSUME NEW i, Runs(after, i) PROVE Runs(s, i) /\ i > b /\ after[i] = s[i]
  <2>1. i \in 1..Len(s) /\ ~(i \in 1..b)
    BY <1>10, <1>11 DEF Runs
  <2>2. i \in (b + 1)..Len(s)
    BY <1>1, <1>2, <2>1
  <2>3. QED  BY <1>1, <1>2, <1>9, <1>11, <2>2 DEF Runs
<1>12. WellFormed(after)
  <2>1. ASSUME NEW i \in DOMAIN after, NEW j \in DOMAIN after, Runs(after, i), Runs(after, j),
               after[i].call = after[j].call
        PROVE  i = j
    BY <1>11, <2>1 DEF WellFormed, Runs
  <2>2. ASSUME NEW i \in DOMAIN after, Runs(after, i), after[i].joined PROVE Runs(after, i + 1)
    <3>1. Runs(s, i) /\ i > b /\ s[i].joined
      BY <1>11, <2>2
    <3>2. Runs(s, i + 1)
      BY <3>1 DEF WellFormed, Runs
    <3>3. i + 1 \in (b + 1)..Len(s)
      BY <1>1, <1>2, <3>1, <3>2 DEF Runs
    <3>4. after[i + 1] = s[i + 1]
      BY <1>9, <3>3
    <3>5. QED  BY <1>1, <1>10, <3>2, <3>4 DEF Runs
  <2>3. ASSUME NEW i \in DOMAIN after, after[i].do = "pause" PROVE Distinct(after[i].calls)
    <3>1. i \in (b + 1)..Len(s)
      BY <1>1, <1>2, <1>10, <2>3
    <3>2. i \in DOMAIN s /\ after[i] = s[i]
      BY <1>1, <1>9, <1>10, <3>1
    <3>3. QED  BY <2>3, <3>2 DEF WellFormed
  <2>4. QED  BY <2>1, <2>2, <2>3 DEF WellFormed
<1>13. QED  BY <1>3, <1>8, <1>11, <1>12 DEF b

(* What is left of a script is a script.                                   *)
LEMMA TailProperties ==
    ASSUME NEW s \in Seq(Op), WellFormed(s), s # <<>>
    PROVE  /\ Tail(s) \in Seq(Op) /\ WellFormed(Tail(s))
           /\ \A i : Runs(Tail(s), i) => i \in Nat /\ Runs(s, i + 1) /\ Tail(s)[i] = s[i + 1]
<1> DEFINE r == Tail(s)
<1>1. /\ Len(s) \in Nat /\ Len(s) > 0 /\ DOMAIN s = 1..Len(s)
      /\ r \in Seq(Op) /\ DOMAIN r = 1..(Len(s) - 1)
      /\ \A i \in 1..(Len(s) - 1) : r[i] = s[i + 1] /\ i + 1 \in 1..Len(s)
  OBVIOUS
<1> HIDE DEF r
<1>2. ASSUME NEW i, Runs(r, i) PROVE i \in Nat /\ Runs(s, i + 1) /\ r[i] = s[i + 1]
  BY <1>1, <1>2 DEF Runs
<1>3. WellFormed(r)
  <2>1. ASSUME NEW i \in DOMAIN r, NEW j \in DOMAIN r, Runs(r, i), Runs(r, j),
               r[i].call = r[j].call
        PROVE  i = j
    <3>1. i + 1 = j + 1
      BY <1>2, <2>1 DEF WellFormed, Runs
    <3>2. QED  BY <1>1, <3>1
  <2>2. ASSUME NEW i \in DOMAIN r, Runs(r, i), r[i].joined PROVE Runs(r, i + 1)
    <3>1. Runs(s, i + 1) /\ s[i + 1].joined
      BY <1>2, <2>2
    <3>2. Runs(s, (i + 1) + 1)
      BY <3>1 DEF WellFormed, Runs
    <3>3. i + 1 \in 1..(Len(s) - 1)
      BY <1>1, <3>2 DEF Runs
    <3>4. QED  BY <1>1, <3>2, <3>3 DEF Runs
  <2>3. ASSUME NEW i \in DOMAIN r, r[i].do = "pause" PROVE Distinct(r[i].calls)
    BY <1>1, <2>3 DEF WellFormed
  <2>4. QED  BY <2>1, <2>2, <2>3 DEF WellFormed
<1>4. QED  BY <1>1, <1>2, <1>3 DEF r

(* An answer is one message.                                               *)
LEMMA AnswerScript ==
    ASSUME NEW u \in Task, NEW kind \in Kinds
    PROVE  LET s == <<WriteOp(Say(u, kind)), FinishOp("Completed")>>
           IN  s \in Seq(Op) /\ WellFormed(s) /\ \A i : ~Runs(s, i)
<1> DEFINE w == WriteOp(Say(u, kind))
           f == FinishOp("Completed")
<1>1. w \in Op /\ w.do = "write" /\ f \in Op /\ f.do = "finish"
  BY ItemKinds, OpKinds DEF Results
<1> HIDE DEF w, f
<1>2. <<w, f>> \in Seq(Op) /\ DOMAIN <<w, f>> = 1..2 /\ \A i \in 1..2 : <<w, f>>[i].do \in {"write", "finish"}
  BY <1>1
<1>3. QED  BY <1>2 DEF WellFormed, Runs, w, f

-----------------------------------------------------------------------------
(* The types of all variables, and what makes them inductive.              *)
Typed == TurnsTypeOK /\ NamesInv /\ LoopInv /\ ScriptInv

(* A task that is on its way works for a turn.                             *)
LEMMA WorksForTurn ==
    ASSUME Typed, NEW t \in Task, pc[t] \notin {"idle", "found"}
    PROVE  turn[t] \in Task
BY DEF Typed, NamesInv, Begun

(* A task that returns leaves nothing to do.                               *)
LEMMA ReturnTypes ==
    ASSUME TurnsTypeOK, NEW t \in Task, NEW result \in Results, Return(t, result)
    PROVE  /\ pc' \in [Task -> Places] /\ outcome' \in [Task -> Results]
           /\ script' \in [Task -> Seq(Op)]
           /\ response' \in [Task -> [refused : Seq(Call), gated : Seq(Call), executable : Seq(Call)]]
<1>1. NoResponse \in [refused : Seq(Call), gated : Seq(Call), executable : Seq(Call)]
  BY DEF NoResponse
<1>2. <<>> \in Seq(Op) /\ "clear" \in Places
  BY DEF Places
<1>3. QED  BY <1>1, <1>2 DEF Return, Goto, TurnsTypeOK

(* A log grows by an event.                                                *)
LEMMA EmitTypes ==
    ASSUME TurnsTypeOK, NEW u \in Task,
           NEW event \in EndEvents \cup {"TurnStarted", "NeedUserInput", "ToolApprovalResolved"},
           Emit(u, event)
    PROVE  events' \in [Task -> Seq(EndEvents \cup {"TurnStarted", "NeedUserInput",
                                                    "ToolApprovalResolved"})]
<1> DEFINE Log == EndEvents \cup {"TurnStarted", "NeedUserInput", "ToolApprovalResolved"}
<1>1. events \in [Task -> Seq(Log)] /\ event \in Log
  BY DEF TurnsTypeOK
<1> HIDE DEF Log
<1>2. Append(events[u], event) \in Seq(Log)
  BY <1>1
<1>3. events' \in [Task -> Seq(Log)]
  BY <1>1, <1>2 DEF Emit
<1>4. QED  BY <1>3 DEF Log

(* What a model sends has the types of a script.                           *)
LEMMA ModelTypes ==
    ASSUME Typed, NEW t \in Task, Model(t)
    PROVE  TurnsTypeOK'
<1> USE DEF Typed
<1>1. CASE BreakStream(t)
  <2>1. \E result \in Results : Return(t, result)
    BY <1>1 DEF BreakStream, Results
  <2>2. QED
    BY <1>1, <2>1, ReturnTypes DEF BreakStream, TurnsTypeOK, sessionVars, consentVars
<1>2. CASE RespondInAsk(t)
  <2>1. \E result \in Results : Return(t, result)
    BY <1>2 DEF RespondInAsk, Results
  <2>2. QED
    BY <1>2, <2>1, ReturnTypes DEF RespondInAsk, TurnsTypeOK, sessionVars, consentVars
<1>3. ASSUME NEW kind \in {"Assistant"} \cup (Says \ {"None"}), Answer(t, kind) PROVE TurnsTypeOK'
  <2>1. kind \in Kinds
    BY ModeAssumption DEF Kinds
  <2>2. turn[t] \in Task
    BY <1>3, WorksForTurn DEF Answer
  <2>3. <<WriteOp(Say(turn[t], kind)), FinishOp("Completed")>> \in Seq(Op)
    BY <2>1, <2>2, AnswerScript
  <2>4. script' \in [Task -> Seq(Op)] /\ pc' \in [Task -> Places]
    BY <1>3, <2>3 DEF Answer, Goto, TurnsTypeOK, Places
  <2>5. QED
    BY <1>3, <2>4 DEF Answer, TurnsTypeOK, sessionVars, consentVars
<1>4. ASSUME NEW say \in Says, Respond(t, say) PROVE TurnsTypeOK'
  <2> DEFINE m == mode[turn[t]]
  <2>1. PICK refused \in CallSeqs(RefusedCalls(m)), gated \in CallSeqs(GatedCalls(m)),
             executable \in CallSeqs(ExecutableCalls(m)) :
                LET r == [refused |-> refused, gated |-> gated, executable |-> executable]
                IN  /\ response' = [response EXCEPT ![t] = r]
                    /\ script' = [script EXCEPT ![t] = ResponseScript(turn[t], say, r)]
    BY <1>4 DEF Respond
  <2> DEFINE r == [refused |-> refused, gated |-> gated, executable |-> executable]
  <2>2. turn[t] \in Task
    BY <1>4, WorksForTurn DEF Respond
  <2>3. ResponseScript(turn[t], say, r) \in Seq(Op)
    <3> HIDE DEF m
    <3>1. QED  BY <2>2, ResponseScriptRuns
  <2>4. RefusedCalls(m) \in SUBSET Call /\ GatedCalls(m) \in SUBSET Call /\ ExecutableCalls(m) \in SUBSET Call
    BY DEF RefusedCalls, GatedCalls, ExecutableCalls
  <2>5. refused \in Seq(Call) /\ gated \in Seq(Call) /\ executable \in Seq(Call)
    BY <2>4, CallSeqsProperties
  <2>6. r \in [refused : Seq(Call), gated : Seq(Call), executable : Seq(Call)]
    BY <2>5
  <2> HIDE DEF r, m
  <2>7. /\ response' = [response EXCEPT ![t] = r]
        /\ script' = [script EXCEPT ![t] = ResponseScript(turn[t], say, r)]
    BY <2>1 DEF r
  <2>8. /\ response' \in [Task -> [refused : Seq(Call), gated : Seq(Call), executable : Seq(Call)]]
        /\ script' \in [Task -> Seq(Op)] /\ pc' \in [Task -> Places]
    BY <1>4, <2>3, <2>6, <2>7 DEF Respond, Goto, TurnsTypeOK, Places
  <2>9. QED
    BY <1>4, <2>8 DEF Respond, TurnsTypeOK, sessionVars, consentVars
<1>5. QED  BY <1>1, <1>2, <1>3, <1>4 DEF Model

(* A script that is about to run a call, or runs one, runs one first.      *)
LEMMA RunsFirst ==
    ASSUME Typed, NEW t \in Task, NextOp(t, "run") \/ pc[t] = "tool"
    PROVE  script[t] \in Seq(Op) /\ WellFormed(script[t]) /\ Runs(script[t], 1)
<1>1. script[t] \in Seq(Op) /\ WellFormed(script[t])
  BY DEF Typed, ScriptInv, TurnsTypeOK
<1>2. CASE NextOp(t, "run")
  BY <1>1, <1>2 DEF NextOp, Runs
<1>3. CASE pc[t] = "tool"
  BY <1>1, <1>3 DEF Typed, ScriptInv
<1>4. QED  BY <1>1, <1>2, <1>3

(* The steps of a task keep all types.                                     *)
LEMMA RunTypes ==
    ASSUME Typed, NEW t \in Task, Run(t)
    PROVE  TurnsTypeOK'
<1> USE DEF Typed, sessionVars, consentVars
<1>0. pc[t] \notin {"idle", "found"} => turn[t] \in Task
  BY WorksForTurn
<1>1. CASE TryActivate(t)
  BY <1>1 DEF TryActivate, Goto, TurnsTypeOK, Places
<1>2. CASE AnnounceTurn(t)
  <2>1. events' \in [Task -> Seq(EndEvents \cup {"TurnStarted", "NeedUserInput", "ToolApprovalResolved"})]
    BY <1>0, <1>2, EmitTypes DEF AnnounceTurn
  <2>2. QED  BY <1>2, <2>1 DEF AnnounceTurn, Goto, TurnsTypeOK, Places
<1>3. CASE RecordInput(t)
  <2>1. Say(turn[t], "User") \in Item
    BY <1>0, <1>3, ItemKinds DEF RecordInput, Kinds
  <2>2. history' \in Seq(Item) /\ Len(history') <= MaxItems
    BY <1>3, <2>1, RecordProperties, BoundAssumption DEF RecordInput, TurnsTypeOK
  <2>3. QED  BY <1>3, <2>2 DEF RecordInput, Goto, TurnsTypeOK, Places
<1>4. CASE AnnounceDecision(t)
  <2>1. events' \in [Task -> Seq(EndEvents \cup {"TurnStarted", "NeedUserInput", "ToolApprovalResolved"})]
    BY <1>0, <1>4, EmitTypes DEF AnnounceDecision
  <2>2. QED  BY <1>4, <2>1 DEF AnnounceDecision, Goto, TurnsTypeOK, Places
<1>5. CASE EnterLoop(t)
  <2>1. CASE \E result \in Results : Return(t, result)
    BY <1>5, <2>1, ReturnTypes DEF EnterLoop, TurnsTypeOK
  <2>2. CASE UNCHANGED <<outcome, script, response>> /\ \E place \in Places : Goto(t, place)
    <3>1. pc' \in [Task -> Places]
      BY <2>2 DEF Goto, TurnsTypeOK
    <3>2. UNCHANGED <<sessionVars, history, turn, token, iteration, mode, notice, events, consentVars>>
      BY <1>5 DEF EnterLoop
    <3>3. QED  BY <2>2, <3>1, <3>2 DEF TurnsTypeOK
  <2>3. QED  BY <1>5, <2>1, <2>2 DEF EnterLoop, Results, Places
<1>6. CASE Summarize(t)
  <2>1. CASE \E result \in Results : Return(t, result)
    BY <1>6, <2>1, ReturnTypes DEF Summarize, TurnsTypeOK
  <2>2. CASE UNCHANGED <<outcome, script, response>> /\ \E place \in Places : Goto(t, place)
    <3>1. pc' \in [Task -> Places]
      BY <2>2 DEF Goto, TurnsTypeOK
    <3>2. UNCHANGED <<sessionVars, history, turn, token, iteration, mode, notice, events, consentVars>>
      BY <1>6 DEF Summarize
    <3>3. QED  BY <2>2, <3>1, <3>2 DEF TurnsTypeOK
  <2>3. QED  BY <1>6, <2>1, <2>2 DEF Summarize, Results, Places
<1>7. CASE Compact(t)
  <2>1. history' \in Seq(Item) /\ Len(history') <= Len(history)
    BY <1>7, CompactProperties DEF Compact, TurnsTypeOK
  <2>2. Len(history') <= MaxItems
    BY <2>1, BoundAssumption DEF TurnsTypeOK
  <2>3. QED  BY <1>7, <2>1, <2>2 DEF Compact, Goto, TurnsTypeOK, Places
<1>8. CASE OpenStream(t)
  <2>1. CASE \E result \in Results : Return(t, result)
    BY <1>8, <2>1, ReturnTypes DEF OpenStream, TurnsTypeOK
  <2>2. CASE UNCHANGED <<outcome, script, response>> /\ \E place \in Places : Goto(t, place)
    <3>1. pc' \in [Task -> Places]
      BY <2>2 DEF Goto, TurnsTypeOK
    <3>2. UNCHANGED <<sessionVars, history, turn, token, iteration, mode, notice, events, consentVars>>
      BY <1>8 DEF OpenStream
    <3>3. QED  BY <2>2, <3>1, <3>2 DEF TurnsTypeOK
  <2>3. QED  BY <1>8, <2>1, <2>2 DEF OpenStream, Results, Places
<1>9. CASE Write(t)
  <2>1. script[t] \in Seq(Op) /\ script[t] # <<>> /\ Head(script[t]).do = "write"
    BY <1>9 DEF Write, NextOp, TurnsTypeOK
  <2>2. Head(script[t]) \in Op /\ Tail(script[t]) \in Seq(Op)
    BY <2>1
  <2>3. Head(script[t]).item \in Item
    BY <2>1, <2>2, OpFields
  <2>4. history' \in Seq(Item) /\ Len(history') <= MaxItems
    BY <1>9, <2>3, RecordProperties, BoundAssumption DEF Write, TurnsTypeOK
  <2>5. script' \in [Task -> Seq(Op)]
    BY <1>9, <2>2 DEF Write, TurnsTypeOK
  <2>6. QED  BY <1>9, <2>4, <2>5 DEF Write, TurnsTypeOK
<1>10. CASE Dispatch(t)
  <2>1. turn[t] \in Task /\ AfterBatch(turn[t], script[t]) \in Seq(Op)
    BY <1>0, <1>10, RunsFirst, AfterBatchProperties DEF Dispatch, NextOp
  <2>2. script' \in [Task -> Seq(Op)] /\ pc' \in [Task -> Places]
    BY <1>10, <2>1 DEF Dispatch, Goto, TurnsTypeOK, Places
  <2>3. granted[turn[t]] \ Batch(script[t]) \subseteq Call
    BY <2>1 DEF TurnsTypeOK
  <2>4. granted' \in [Task -> SUBSET Call]
    <3>1. granted' \in {granted, [granted EXCEPT ![turn[t]] = granted[turn[t]] \ Batch(script[t])]}
      BY <1>10 DEF Dispatch
    <3>2. QED  BY <2>1, <2>3, <3>1 DEF TurnsTypeOK
  <2>5. QED  BY <1>10, <2>2, <2>4 DEF Dispatch, TurnsTypeOK
<1>11. CASE ToolsReturn(t)
  <2>1. AfterBatch(turn[t], script[t]) \in Seq(Op)
    BY <1>0, <1>11, RunsFirst, AfterBatchProperties DEF ToolsReturn
  <2>2. script' \in [Task -> Seq(Op)] /\ pc' \in [Task -> Places]
    BY <1>11, <2>1 DEF ToolsReturn, Goto, TurnsTypeOK, Places
  <2>3. QED  BY <1>11, <2>2 DEF ToolsReturn, TurnsTypeOK
<1>12. CASE Pause(t)
  <2>1. script[t] \in Seq(Op) /\ script[t] # <<>> /\ Head(script[t]).do = "pause"
    BY <1>12 DEF Pause, NextOp, TurnsTypeOK
  <2>2. Head(script[t]).calls \in Seq(Call) /\ turn[t] \in Task
    BY <1>0, <1>12, <2>1, OpFields DEF Pause, NextOp
  <2>3. Range(Head(script[t]).calls) \subseteq Call
    BY <2>2 DEF Range
  <2>4. pending' \in PendingApproval \cup {NoPending} /\ asked' \in [Task -> SUBSET Call]
    <3>1. [turn |-> turn[t], calls |-> Head(script[t]).calls] \in PendingApproval
      BY <2>2 DEF PendingApproval
    <3>2. asked[turn[t]] \cup Range(Head(script[t]).calls) \subseteq Call
      BY <2>2, <2>3 DEF TurnsTypeOK
    <3>3. CASE turn[t] \in cancelled
      BY <1>12, <3>3 DEF Pause, TurnsTypeOK
    <3>4. CASE turn[t] \notin cancelled
      <4>1. pending' \in PendingApproval
        BY <1>12, <3>1, <3>4 DEF Pause
      <4>2. asked' = [asked EXCEPT ![turn[t]] = asked[turn[t]] \cup Range(Head(script[t]).calls)]
        BY <1>12, <3>4 DEF Pause
      <4>3. asked' \in [Task -> SUBSET Call]
        BY <2>2, <3>2, <4>2 DEF TurnsTypeOK
      <4>4. QED  BY <4>1, <4>3
    <3>5. QED  BY <3>3, <3>4
  <2>5. Return(t, "NeedUserInput") /\ "NeedUserInput" \in Results
    BY <1>12 DEF Pause, Results
  <2>6. QED  BY <1>12, <2>4, <2>5, ReturnTypes DEF Pause, TurnsTypeOK
<1>13. CASE Finish(t)
  <2>1. script[t] \in Seq(Op) /\ script[t] # <<>> /\ Head(script[t]).do = "finish"
    BY <1>13 DEF Finish, NextOp, TurnsTypeOK
  <2>2. Head(script[t]).result \in Results
    BY <2>1, OpFields
  <2>3. QED  BY <1>13, <2>2, ReturnTypes DEF Finish, TurnsTypeOK
<1>14. CASE NextIteration(t)
  <2>1. iteration[t] \in 0..MaxIterations /\ MaxIterations \in Nat
    BY BoundAssumption DEF TurnsTypeOK
  <2>2. response[t] # NoResponse => iteration[t] + 1 \in 0..MaxIterations
    BY <2>1 DEF LoopInv
  <2>3. iteration' \in [Task -> 0..MaxIterations]
    BY <1>14, <2>2 DEF NextIteration, TurnsTypeOK
  <2>4. response' \in [Task -> [refused : Seq(Call), gated : Seq(Call), executable : Seq(Call)]]
    BY <1>14 DEF NextIteration, TurnsTypeOK, NoResponse
  <2>5. QED  BY <1>14, <2>3, <2>4 DEF NextIteration, Goto, TurnsTypeOK, Places
<1>15. CASE ClearActive(t)
  BY <1>15 DEF ClearActive, Goto, TurnsTypeOK, Places
<1>16. CASE EmitOutcome(t)
  <2>1. events' \in [Task -> Seq(EndEvents \cup {"TurnStarted", "NeedUserInput", "ToolApprovalResolved"})]
    BY <1>0, <1>16, EmitTypes DEF EmitOutcome, OutcomeEvent, EndEvents
  <2>2. QED  BY <1>16, <2>1 DEF EmitOutcome, Goto, TurnsTypeOK, Places
<1>17. QED
  BY <1>1, <1>2, <1>3, <1>4, <1>5, <1>6, <1>7, <1>8, <1>9, <1>10, <1>11, <1>12, <1>13,
     <1>14, <1>15, <1>16 DEF Run

(* So do the user's calls that begin a turn or go on with one.             *)
LEMMA UserTypes ==
    ASSUME Typed, NEW t \in Task, UserCalls(t),
           pending # NoPending => Distinct(pending.calls)
    PROVE  TurnsTypeOK'
<1> USE DEF Typed, sessionVars, consentVars
<1>1. ASSUME NEW m \in Modes, StartTurn(t, m) PROVE TurnsTypeOK'
  BY <1>1 DEF StartTurn, Goto, TurnsTypeOK, Places
<1>2. ASSUME NEW c \in Call, NEW approved \in BOOLEAN, BeginResolution(t, c, approved)
      PROVE  TurnsTypeOK'
  <2>1. pending \in PendingApproval /\ pending.turn \in Task /\ pending.calls \in Seq(Call)
    BY <1>2 DEF BeginResolution, TurnsTypeOK, PendingApproval
  <2>2. DecisionScript(pending.turn, pending.calls, approved) \in Seq(Op)
    BY <1>2, <2>1, DecisionScriptRuns DEF BeginResolution
  <2>3. script' \in [Task -> Seq(Op)] /\ turn' \in [Task -> Task \cup {NoTask}]
    BY <1>2, <2>1, <2>2 DEF BeginResolution, TurnsTypeOK
  <2>4. asked' \in [Task -> SUBSET Call] /\ granted' \in [Task -> SUBSET Call]
    <3>1. asked[pending.turn] \subseteq Call /\ granted[pending.turn] \subseteq Call
      BY <2>1 DEF TurnsTypeOK
    <3>2. QED  BY <1>2, <2>1, <3>1 DEF BeginResolution, TurnsTypeOK
  <2>5. QED  BY <1>2, <2>3, <2>4 DEF BeginResolution, Goto, TurnsTypeOK, Places
<1>3. QED  BY <1>1, <1>2 DEF UserCalls

(* So do the calls that stop one.                                          *)
LEMMA OutsideTypes ==
    ASSUME Typed,
           Interrupt \/ (\E u \in Task : AnnounceInterrupt(u)) \/ CloseSession \/ CancelClosed
    PROVE  TurnsTypeOK'
<1> USE DEF Typed, sessionVars, taskVars, consentVars
<1>1. ASSUME NEW u \in Task, DetachCurrent(u)
      PROVE  /\ active' \in Task \cup {NoTask} /\ pending' \in PendingApproval \cup {NoPending}
             /\ cancelled' \subseteq Task /\ token' \in [Task -> BOOLEAN]
             /\ cancelled \subseteq cancelled' /\ u \in cancelled'
  BY <1>1 DEF DetachCurrent, TurnsTypeOK
<1>2. CASE Interrupt
  <2>1. PICK u \in Task : DetachCurrent(u) /\ notice' = notice \cup {u}
    BY <1>2 DEF Interrupt
  <2>2. notice' \subseteq cancelled'
    BY <1>1, <2>1 DEF TurnsTypeOK
  <2>3. QED  BY <1>1, <1>2, <2>1, <2>2 DEF Interrupt, TurnsTypeOK
<1>3. ASSUME NEW u \in Task, AnnounceInterrupt(u) PROVE TurnsTypeOK'
  <2>1. events' \in [Task -> Seq(EndEvents \cup {"TurnStarted", "NeedUserInput", "ToolApprovalResolved"})]
    BY <1>3, EmitTypes DEF AnnounceInterrupt, EndEvents
  <2>2. QED  BY <1>3, <2>1 DEF AnnounceInterrupt, TurnsTypeOK
<1>4. CASE CloseSession
  BY <1>4 DEF CloseSession, TurnsTypeOK
<1>5. CASE CancelClosed
  <2>1. CASE IsBusy
    <3>1. PICK u \in Task : DetachCurrent(u)
      BY <1>5, <2>1 DEF CancelClosed
    <3>2. QED  BY <1>1, <1>5, <3>1 DEF CancelClosed, TurnsTypeOK
  <2>2. CASE ~IsBusy
    BY <1>5, <2>2 DEF CancelClosed, TurnsTypeOK
  <2>3. QED  BY <2>1, <2>2
<1>6. QED  BY <1>2, <1>3, <1>4, <1>5

-----------------------------------------------------------------------------
(* Scripts, grants and passes, step by step.                               *)

(* The steps of a task that neither ask nor grant nor start a tool: its    *)
(* script shrinks, or is replaced by one that runs nothing ungranted.      *)
LEMMA ScriptMove ==
    ASSUME Typed, ConsentInv, NEW t \in Task,
           \A s \in Task \ {t} : pc'[s] = pc[s] /\ script'[s] = script[s],
           UNCHANGED <<pending, turn, mode, asked, granted>>,
           WellFormed(script'[t]), pc'[t] # "tool",
           script'[t] # <<>> => pc'[t] \in {"resolved", "script"},
           \A i : Runs(script'[t], i) /\ script'[t][i].call \in Risky /\ mode[turn[t]] = "Manual"
                      => script'[t][i].call \in granted[turn[t]]
    PROVE  ScriptInv' /\ ConsentInv'
<1>1. ScriptInv'
  BY DEF Typed, ScriptInv
<1>2. ASSUME NEW s \in Task, NEW i \in Due(s)' PROVE script'[s][i].call \in granted'[turn'[s]]
  <2>1. CASE s = t
    BY <1>2, <2>1 DEF Due
  <2>2. CASE s # t
    <3>1. i \in Due(s)
      BY <1>2, <2>2 DEF Due
    <3>2. QED  BY <2>2, <3>1 DEF ConsentInv
  <2>3. QED  BY <2>1, <2>2
<1>3. pending' # NoPending => Distinct(pending'.calls) /\ Range(pending'.calls) \subseteq asked'[pending'.turn]
  BY DEF ConsentInv
<1>4. QED  BY <1>1, <1>2, <1>3 DEF ConsentInv

(* What a script runs later was granted.                                   *)
LEMMA DueGranted ==
    ASSUME Typed, ConsentInv, NEW t \in Task, NEW i, Runs(script[t], i),
           script[t][i].call \in Risky, mode[turn[t]] = "Manual",
           pc[t] = "tool" => i > BatchLen(script[t])
    PROVE  script[t][i].call \in granted[turn[t]]
BY DEF ConsentInv, Due, Runs

(* A task with a script is running, and its turn began.                    *)
LEMMA ScriptRunning ==
    ASSUME Typed, NEW s \in Task, script[s] # <<>>
    PROVE  Running(s) /\ Begun(turn[s]) /\ turn[s] \in Task
<1>1. pc[s] \in {"resolved", "script", "tool"}
  BY DEF Typed, ScriptInv
<1>2. QED  BY <1>1 DEF Typed, NamesInv, Running, Begun

(* No script runs nothing.                                                 *)
LEMMA EmptyScript == WellFormed(<<>>) /\ \A i : ~Runs(<<>>, i)
BY DEF WellFormed, Runs

(* A task that returns drops what it had not run.                          *)
LEMMA ReturnConsent ==
    ASSUME Typed, ConsentInv, NEW t \in Task, NEW result, Return(t, result),
           UNCHANGED <<pending, turn, mode, asked, granted>>
    PROVE  ScriptInv' /\ ConsentInv'
<1>1. /\ \A s \in Task \ {t} : pc'[s] = pc[s] /\ script'[s] = script[s]
      /\ script'[t] = <<>> /\ pc'[t] = "clear"
  BY DEF Return, Goto, Typed, TurnsTypeOK
<1>2. QED  BY <1>1, EmptyScript, ScriptMove

(* A task that has no script moves on without one.                         *)
LEMMA IdleConsent ==
    ASSUME Typed, ConsentInv, NEW t \in Task, NEW place, Goto(t, place), place # "tool",
           pc[t] \notin {"resolved", "script", "tool"} \/ script[t] = <<>>,
           UNCHANGED <<script, pending, turn, mode, asked, granted>>
    PROVE  ScriptInv' /\ ConsentInv'
<1>1. script[t] = <<>>
  BY DEF Typed, ScriptInv
<1>2. /\ \A s \in Task \ {t} : pc'[s] = pc[s] /\ script'[s] = script[s]
      /\ script'[t] = <<>> /\ pc'[t] = place
  BY <1>1 DEF Goto, Typed, TurnsTypeOK
<1>3. QED  BY <1>2, EmptyScript, ScriptMove

(* What a model asks for runs ungranted only if it needs no approval.      *)
LEMMA ModelConsent ==
    ASSUME Typed, ConsentInv, NEW t \in Task, Model(t)
    PROVE  ScriptInv' /\ ConsentInv'
<1> USE DEF sessionVars, consentVars
<1>1. CASE BreakStream(t)
  BY <1>1, ReturnConsent DEF BreakStream
<1>2. CASE RespondInAsk(t)
  BY <1>2, ReturnConsent DEF RespondInAsk
<1>3. ASSUME NEW kind \in {"Assistant"} \cup (Says \ {"None"}), Answer(t, kind)
      PROVE  ScriptInv' /\ ConsentInv'
  <2>1. kind \in Kinds
    BY ModeAssumption DEF Kinds
  <2>2. turn[t] \in Task
    BY <1>3, WorksForTurn DEF Answer
  <2> DEFINE s == <<WriteOp(Say(turn[t], kind)), FinishOp("Completed")>>
  <2>3. WellFormed(s) /\ \A i : ~Runs(s, i)
    BY <2>1, <2>2, AnswerScript
  <2>4. script'[t] = s
    BY <1>3 DEF Answer, Typed, TurnsTypeOK
  <2> HIDE DEF s
  <2>5. /\ \A q \in Task \ {t} : pc'[q] = pc[q] /\ script'[q] = script[q]
        /\ pc'[t] = "script"
    BY <1>3 DEF Answer, Goto, Typed, TurnsTypeOK
  <2>6. UNCHANGED <<pending, turn, mode, asked, granted>>
    BY <1>3 DEF Answer
  <2>7. QED  BY <2>3, <2>4, <2>5, <2>6, ScriptMove
<1>4. ASSUME NEW say \in Says, Respond(t, say) PROVE ScriptInv' /\ ConsentInv'
  <2> DEFINE m == mode[turn[t]]
  <2>1. PICK refused \in CallSeqs(RefusedCalls(m)), gated \in CallSeqs(GatedCalls(m)),
             executable \in CallSeqs(ExecutableCalls(m)) :
                LET r == [refused |-> refused, gated |-> gated, executable |-> executable]
                IN  script' = [script EXCEPT ![t] = ResponseScript(turn[t], say, r)]
    BY <1>4 DEF Respond
  <2> DEFINE r == [refused |-> refused, gated |-> gated, executable |-> executable]
             s == ResponseScript(turn[t], say, r)
  <2>2. turn[t] \in Task
    BY <1>4, WorksForTurn DEF Respond
  <2>3. WellFormed(s) /\ \A i : Runs(s, i) => s[i].call \in ExecutableCalls(m)
    <3> HIDE DEF m
    <3>1. QED  BY <2>2, ResponseScriptRuns
  <2>4. script'[t] = s /\ \A q \in Task \ {t} : script'[q] = script[q]
    BY <2>1 DEF Typed, TurnsTypeOK
  <2> HIDE DEF s
  <2>5. m = "Manual" => \A c \in ExecutableCalls(m) : c \notin Risky
    BY DEF ExecutableCalls, NeedsApproval
  <2>6. pc'[t] = "script" /\ \A q \in Task \ {t} : pc'[q] = pc[q]
    BY <1>4 DEF Respond, Goto, Typed, TurnsTypeOK
  <2>7. UNCHANGED <<pending, turn, mode, asked, granted>>
    BY <1>4 DEF Respond
  <2>8. \A i : Runs(script'[t], i) /\ script'[t][i].call \in Risky /\ mode[turn[t]] = "Manual"
                   => script'[t][i].call \in granted[turn[t]]
    BY <2>3, <2>4, <2>5
  <2> HIDE DEF m
  <2>9. QED  BY <2>3, <2>4, <2>6, <2>7, <2>8, ScriptMove
<1>5. QED  BY <1>1, <1>2, <1>3, <1>4 DEF Model

(* A batch starts with a grant for each of its risky calls, and uses it up.*)
LEMMA DispatchConsent ==
    ASSUME Typed, OneRunner, ConsentInv, NEW t \in Task, Dispatch(t)
    PROVE  ScriptInv' /\ ConsentInv'
<1> USE DEF sessionVars, consentVars
<1>1. NextOp(t, "run") /\ pc[t] = "script" /\ script[t] # <<>>
  BY DEF Dispatch, NextOp
<1>2. script[t] \in Seq(Op) /\ WellFormed(script[t]) /\ Runs(script[t], 1)
  BY <1>1, RunsFirst
<1>3. turn[t] \in Task /\ Running(t)
  BY <1>1, ScriptRunning
<1>4. UNCHANGED <<pending, turn, mode, asked>>
  BY DEF Dispatch
<1>5. CASE token[t]
  <2> DEFINE s == AfterBatch(turn[t], script[t])
  <2>1. /\ WellFormed(s)
        /\ \A i : Runs(s, i) => Runs(script[t], i) /\ s[i] = script[t][i]
    BY <1>2, <1>3, AfterBatchProperties
  <2>2. /\ script' = [script EXCEPT ![t] = s] /\ UNCHANGED <<pc, granted>>
    BY <1>5 DEF Dispatch
  <2>3. script'[t] = s /\ \A q \in Task \ {t} : script'[q] = script[q]
    BY <2>2 DEF Typed, TurnsTypeOK
  <2> HIDE DEF s
  <2>4. \A i : Runs(script'[t], i) /\ script'[t][i].call \in Risky /\ mode[turn[t]] = "Manual"
                   => script'[t][i].call \in granted[turn[t]]
    BY <1>1, <2>1, <2>3, DueGranted
  <2>5. QED  BY <1>1, <1>4, <2>1, <2>2, <2>3, <2>4, ScriptMove
<1>6. CASE ~token[t]
  <2> DEFINE b == BatchLen(script[t])
  <2>1. /\ script' = script
        /\ pc' = [pc EXCEPT ![t] = "tool"]
        /\ granted' = [granted EXCEPT ![turn[t]] = granted[turn[t]] \ Batch(script[t])]
    BY <1>6 DEF Dispatch, Goto
  <2>2. /\ pc'[t] = "tool" /\ \A q \in Task \ {t} : pc'[q] = pc[q]
        /\ granted'[turn[t]] = granted[turn[t]] \ Batch(script[t])
        /\ \A u \in Task \ {turn[t]} : granted'[u] = granted[u]
    BY <1>3, <2>1 DEF Typed, TurnsTypeOK
  <2>3. ScriptInv'
    BY <1>2, <2>1, <2>2 DEF Typed, ScriptInv
  <2>4. ASSUME NEW i \in Due(t)' PROVE script[t][i].call \in granted'[turn[t]]
    <3>1. /\ Runs(script[t], i) /\ i > b /\ script[t][i].call \in Risky /\ mode[turn[t]] = "Manual"
      BY <1>4, <2>1, <2>2, <2>4 DEF Due
    <3>2. script[t][i].call \in granted[turn[t]]
      BY <1>1, <3>1, DueGranted
    <3>3. b \in 1..Len(script[t]) /\ \A j \in 1..b : Runs(script[t], j)
      BY <1>2, BatchProperties
    <3> HIDE DEF b
    <3>4. \A j \in 1..b : script[t][j].call # script[t][i].call
      <4>1. ASSUME NEW j \in 1..b, script[t][j].call = script[t][i].call PROVE FALSE
        <5>1. j = i
          BY <1>2, <3>1, <3>3, <4>1 DEF WellFormed, Runs
        <5>2. QED  BY <3>1, <3>3, <5>1
      <4>2. QED  BY <4>1
    <3>5. script[t][i].call \notin Batch(script[t])
      BY <3>4 DEF Batch, b
    <3>6. QED  BY <2>2, <3>2, <3>5
  <2>5. ASSUME NEW q \in Task \ {t}, NEW i \in Due(q)' PROVE script[q][i].call \in granted'[turn[q]]
    <3>1. i \in Due(q)
      BY <1>4, <2>1, <2>2, <2>5 DEF Due
    <3>2. script[q] # <<>>
      BY <3>1 DEF Due
    <3>3. turn[q] \in Task \ {turn[t]}
      BY <1>3, <3>2, ScriptRunning DEF OneRunner
    <3>4. QED  BY <2>2, <3>1, <3>3 DEF ConsentInv
  <2>6. ConsentInv'
    BY <1>4, <2>1, <2>4, <2>5 DEF ConsentInv
  <2>7. QED  BY <2>3, <2>6
<1>7. QED  BY <1>5, <1>6

(* What is waited for was asked.                                           *)
LEMMA PauseConsent ==
    ASSUME Typed, ConsentInv, NEW t \in Task, Pause(t)
    PROVE  ScriptInv' /\ ConsentInv'
<1> USE DEF sessionVars, consentVars
<1>1. pc[t] = "script" /\ script[t] \in Seq(Op) /\ script[t] # <<>> /\ Head(script[t]).do = "pause"
  BY DEF Pause, NextOp, Typed, TurnsTypeOK
<1>2. turn[t] \in Task
  BY <1>1, WorksForTurn
<1>3. Return(t, "NeedUserInput") /\ UNCHANGED <<turn, mode, granted>>
  BY DEF Pause
<1>4. /\ script'[t] = <<>> /\ pc'[t] = "clear"
      /\ \A q \in Task \ {t} : pc'[q] = pc[q] /\ script'[q] = script[q]
  BY <1>3 DEF Return, Goto, Typed, TurnsTypeOK
<1>5. ScriptInv'
  BY <1>4, EmptyScript DEF Typed, ScriptInv
<1>6. ASSUME NEW q \in Task, NEW i \in Due(q)' PROVE script'[q][i].call \in granted'[turn'[q]]
  <2>1. q # t
    BY <1>4, <1>6 DEF Due
  <2>2. i \in Due(q)
    BY <1>3, <1>4, <1>6, <2>1 DEF Due
  <2>3. QED  BY <1>3, <1>4, <2>1, <2>2 DEF ConsentInv
<1>7. pending' # NoPending => Distinct(pending'.calls) /\ Range(pending'.calls) \subseteq asked'[pending'.turn]
  <2>1. CASE turn[t] \in cancelled
    BY <2>1 DEF Pause, ConsentInv
  <2>2. CASE turn[t] \notin cancelled
    <3> DEFINE calls == Head(script[t]).calls
    <3>1. /\ pending' = [turn |-> turn[t], calls |-> calls]
          /\ asked' = [asked EXCEPT ![turn[t]] = asked[turn[t]] \cup Range(calls)]
      BY <2>2 DEF Pause
    <3>2. 1 \in DOMAIN script[t] /\ Head(script[t]) = script[t][1]
      BY <1>1
    <3>3. Distinct(calls)
      BY <1>1, <3>2 DEF Typed, ScriptInv, WellFormed
    <3>4. Range(calls) \subseteq asked'[turn[t]]
      BY <1>2, <3>1 DEF Typed, TurnsTypeOK
    <3> HIDE DEF calls
    <3>5. QED  BY <3>1, <3>3, <3>4
  <2>3. QED  BY <2>1, <2>2
<1>8. QED  BY <1>5, <1>6, <1>7 DEF ConsentInv

(* No step of a task runs what was not granted.                            *)
LEMMA RunConsent ==
    ASSUME Typed, OneRunner, ConsentInv, NEW t \in Task, Run(t)
    PROVE  ScriptInv' /\ ConsentInv'
<1> USE DEF sessionVars, consentVars
<1>1. CASE TryActivate(t)
  BY <1>1, IdleConsent DEF TryActivate
<1>2. CASE AnnounceTurn(t)
  BY <1>2, IdleConsent DEF AnnounceTurn
<1>3. CASE RecordInput(t)
  BY <1>3, IdleConsent DEF RecordInput
<1>4. CASE AnnounceDecision(t)
  <2>1. /\ pc[t] = "resolved" /\ script' = script /\ pc'[t] = "script"
        /\ \A q \in Task \ {t} : pc'[q] = pc[q]
        /\ UNCHANGED <<pending, turn, mode, asked, granted>>
    BY <1>4 DEF AnnounceDecision, Goto, Typed, TurnsTypeOK
  <2>2. WellFormed(script[t])
    BY DEF Typed, ScriptInv
  <2>3. \A i : Runs(script'[t], i) /\ script'[t][i].call \in Risky /\ mode[turn[t]] = "Manual"
                   => script'[t][i].call \in granted[turn[t]]
    BY <2>1, DueGranted
  <2>4. QED  BY <2>1, <2>2, <2>3, ScriptMove
<1>5. CASE EnterLoop(t)
  <2>1. UNCHANGED <<pending, turn, mode, asked, granted>> /\ pc[t] = "loop"
    BY <1>5 DEF EnterLoop
  <2>2. \/ \E result : Return(t, result)
        \/ UNCHANGED script /\ \E place \in Places \ {"tool"} : Goto(t, place)
    BY <1>5 DEF EnterLoop, Places
  <2>3. QED  BY <2>1, <2>2, ReturnConsent, IdleConsent
<1>6. CASE Summarize(t)
  <2>1. UNCHANGED <<pending, turn, mode, asked, granted>> /\ pc[t] = "summarize"
    BY <1>6 DEF Summarize
  <2>2. \/ \E result : Return(t, result)
        \/ UNCHANGED script /\ \E place \in Places \ {"tool"} : Goto(t, place)
    BY <1>6 DEF Summarize, Places
  <2>3. QED  BY <2>1, <2>2, ReturnConsent, IdleConsent
<1>7. CASE Compact(t)
  BY <1>7, IdleConsent DEF Compact
<1>8. CASE OpenStream(t)
  <2>1. UNCHANGED <<pending, turn, mode, asked, granted>> /\ pc[t] = "sample"
    BY <1>8 DEF OpenStream
  <2>2. \/ \E result : Return(t, result)
        \/ UNCHANGED script /\ \E place \in Places \ {"tool"} : Goto(t, place)
    BY <1>8 DEF OpenStream, Places
  <2>3. QED  BY <2>1, <2>2, ReturnConsent, IdleConsent
<1>9. CASE Write(t)
  <2>1. pc[t] = "script" /\ script[t] # <<>> /\ script[t] \in Seq(Op) /\ WellFormed(script[t])
    BY <1>9 DEF Write, NextOp, Typed, TurnsTypeOK, ScriptInv
  <2> DEFINE s == Tail(script[t])
  <2>2. WellFormed(s) /\ \A i : Runs(s, i) => Runs(script[t], i + 1) /\ s[i] = script[t][i + 1]
    BY <2>1, TailProperties
  <2>3. /\ script'[t] = s /\ \A q \in Task \ {t} : script'[q] = script[q]
        /\ UNCHANGED <<pc, pending, turn, mode, asked, granted>>
    BY <1>9 DEF Write, Typed, TurnsTypeOK
  <2> HIDE DEF s
  <2>4. \A i : Runs(script'[t], i) /\ script'[t][i].call \in Risky /\ mode[turn[t]] = "Manual"
                   => script'[t][i].call \in granted[turn[t]]
    BY <2>1, <2>2, <2>3, DueGranted
  <2>5. QED  BY <2>1, <2>2, <2>3, <2>4, ScriptMove
<1>10. CASE Dispatch(t)
  BY <1>10, DispatchConsent
<1>11. CASE ToolsReturn(t)
  <2>1. pc[t] = "tool" /\ turn[t] \in Task
    BY <1>11, WorksForTurn DEF ToolsReturn
  <2> DEFINE s == AfterBatch(turn[t], script[t])
  <2>2. /\ WellFormed(s)
        /\ \A i : Runs(s, i) => Runs(script[t], i) /\ i > BatchLen(script[t]) /\ s[i] = script[t][i]
    BY <2>1, RunsFirst, AfterBatchProperties
  <2>3. /\ script'[t] = s /\ \A q \in Task \ {t} : script'[q] = script[q] /\ pc'[q] = pc[q]
        /\ pc'[t] = "script" /\ UNCHANGED <<pending, turn, mode, asked, granted>>
    BY <1>11 DEF ToolsReturn, Goto, Typed, TurnsTypeOK
  <2> HIDE DEF s
  <2>4. \A i : Runs(script'[t], i) /\ script'[t][i].call \in Risky /\ mode[turn[t]] = "Manual"
                   => script'[t][i].call \in granted[turn[t]]
    BY <2>2, <2>3, DueGranted
  <2>5. QED  BY <2>2, <2>3, <2>4, ScriptMove
<1>12. CASE Pause(t)
  BY <1>12, PauseConsent
<1>13. CASE Finish(t)
  BY <1>13, ReturnConsent DEF Finish
<1>14. CASE NextIteration(t)
  BY <1>14, IdleConsent DEF NextIteration
<1>15. CASE ClearActive(t)
  <2>1. UNCHANGED <<script, pending, turn, mode, asked, granted>> /\ pc[t] = "clear"
    BY <1>15 DEF ClearActive
  <2>2. \E place \in {"emit", "done"} : Goto(t, place)
    BY <1>15 DEF ClearActive
  <2>3. QED  BY <2>1, <2>2, IdleConsent
<1>16. CASE EmitOutcome(t)
  BY <1>16, IdleConsent DEF EmitOutcome
<1>17. QED
  BY <1>1, <1>2, <1>3, <1>4, <1>5, <1>6, <1>7, <1>8, <1>9, <1>10, <1>11, <1>12, <1>13,
     <1>14, <1>15, <1>16 DEF Run

(* An approval grants what was asked and runs no more.                     *)
LEMMA UserConsent ==
    ASSUME Typed, ConsentInv, NEW t \in Task, UserCalls(t)
    PROVE  ScriptInv' /\ ConsentInv'
<1> USE DEF sessionVars, consentVars
<1>1. ASSUME NEW m \in Modes, StartTurn(t, m) PROVE ScriptInv' /\ ConsentInv'
  <2>1. /\ pc[t] = "idle" /\ pc'[t] = "found" /\ UNCHANGED <<script, pending, asked, granted>>
        /\ \A q \in Task \ {t} : pc'[q] = pc[q] /\ turn'[q] = turn[q] /\ mode'[q] = mode[q]
    BY <1>1 DEF StartTurn, Goto, Typed, TurnsTypeOK
  <2>2. script[t] = <<>>
    BY <2>1 DEF Typed, ScriptInv
  <2>3. ScriptInv'
    BY <2>1, <2>2 DEF Typed, ScriptInv
  <2>4. ASSUME NEW q \in Task, NEW i \in Due(q)' PROVE script'[q][i].call \in granted'[turn'[q]]
    <3>1. q # t /\ script[q] # <<>>
      BY <2>1, <2>2, <2>4 DEF Due
    <3>2. turn[q] \in Task \ {t}
      BY <2>1, <3>1, ScriptRunning DEF Begun
    <3>3. i \in Due(q)
      BY <2>1, <2>4, <3>1, <3>2 DEF Due
    <3>4. QED  BY <2>1, <3>1, <3>3 DEF ConsentInv
  <2>5. ConsentInv'
    BY <2>1, <2>4 DEF ConsentInv
  <2>6. QED  BY <2>3, <2>5
<1>2. ASSUME NEW c \in Call, NEW approved \in BOOLEAN, BeginResolution(t, c, approved)
      PROVE  ScriptInv' /\ ConsentInv'
  <2> DEFINE u == pending.turn
             s == DecisionScript(u, pending.calls, approved)
  <2>1. pending # NoPending /\ u \in Task /\ pending.calls \in Seq(Call)
    BY <1>2 DEF BeginResolution, Typed, TurnsTypeOK, PendingApproval
  <2>2. Distinct(pending.calls) /\ Range(pending.calls) \subseteq asked[u]
    BY <2>1 DEF ConsentInv
  <2>3. WellFormed(s) /\ \A i : Runs(s, i) => approved /\ s[i].call \in Range(pending.calls)
    BY <2>1, <2>2, DecisionScriptRuns
  <2>4. /\ turn'[t] = u /\ script'[t] = s /\ pc'[t] = "resolved" /\ pending' = NoPending
        /\ \A q \in Task \ {t} : pc'[q] = pc[q] /\ turn'[q] = turn[q] /\ script'[q] = script[q]
        /\ mode' = mode
    BY <1>2 DEF BeginResolution, Goto, Typed, TurnsTypeOK
  <2>5. /\ approved => granted'[u] = granted[u] \cup (Range(pending.calls) \cap asked[u])
        /\ \A v \in Task : granted[v] \subseteq granted'[v]
    BY <1>2, <2>1 DEF BeginResolution, Typed, TurnsTypeOK
  <2> HIDE DEF s, u
  <2>6. ScriptInv'
    BY <2>3, <2>4 DEF Typed, ScriptInv
  <2>7. ASSUME NEW q \in Task, NEW i \in Due(q)' PROVE script'[q][i].call \in granted'[turn'[q]]
    <3>1. CASE q = t
      <4>1. approved /\ script'[t][i].call \in Range(pending.calls)
        BY <2>3, <2>4, <2>7, <3>1 DEF Due
      <4>2. QED  BY <2>2, <2>4, <2>5, <3>1, <4>1
    <3>2. CASE q # t
      <4>1. i \in Due(q)
        BY <2>4, <2>7, <3>2 DEF Due
      <4>2. script[q] # <<>>
        BY <4>1 DEF Due
      <4>3. turn[q] \in Task
        BY <4>2, ScriptRunning
      <4>4. QED  BY <2>4, <2>5, <3>2, <4>1, <4>3 DEF ConsentInv
    <3>3. QED  BY <3>1, <3>2
  <2>8. ConsentInv'
    BY <2>4, <2>7 DEF ConsentInv
  <2>9. QED  BY <2>6, <2>8
<1>3. QED  BY <1>1, <1>2 DEF UserCalls

(* Who interrupts or closes grants nothing; what is waited for may go.     *)
LEMMA OutsideConsent ==
    ASSUME Typed, ConsentInv,
           Interrupt \/ (\E u \in Task : AnnounceInterrupt(u)) \/ CloseSession \/ CancelClosed
    PROVE  ScriptInv' /\ ConsentInv' /\ LoopInv'
<1> USE DEF sessionVars, taskVars, consentVars
<1>1. UNCHANGED <<pc, turn, script, response, iteration, mode, asked, granted>>
  BY DEF Interrupt, AnnounceInterrupt, CloseSession, CancelClosed
<1>2. pending' = pending \/ pending' = NoPending
  BY DEF Interrupt, AnnounceInterrupt, CloseSession, CancelClosed, DetachCurrent
<1>3. ScriptInv' /\ LoopInv'
  BY <1>1 DEF Typed, ScriptInv, LoopInv
<1>4. \A s \in Task : Due(s)' = Due(s)
  BY <1>1 DEF Due
<1>5. QED  BY <1>1, <1>2, <1>3, <1>4 DEF ConsentInv

(* Only a task that has passes left samples.                               *)
LEMMA TaskLoop ==
    ASSUME Typed, NEW t \in Task, UserCalls(t) \/ Model(t) \/ Run(t)
    PROVE  LoopInv'
<1> USE DEF sessionVars, consentVars
<1> DEFINE Samples == {"summarize", "compact", "sample", "stream"}
<1>1. SUFFICES /\ \A s \in Task \ {t} : /\ pc'[s] = pc[s] /\ response'[s] = response[s]
                                        /\ iteration'[s] = iteration[s]
               /\ pc'[t] \in Samples \/ response'[t] # NoResponse => iteration'[t] < MaxIterations
  BY DEF Typed, LoopInv
<1>2. ASSUME NEW result, Return(t, result), UNCHANGED iteration
      PROVE  /\ \A s \in Task \ {t} : /\ pc'[s] = pc[s] /\ response'[s] = response[s]
                                      /\ iteration'[s] = iteration[s]
             /\ pc'[t] \in Samples \/ response'[t] # NoResponse => iteration'[t] < MaxIterations
  BY <1>2 DEF Return, Goto, Typed, TurnsTypeOK
<1>3. ASSUME NEW place, Goto(t, place), UNCHANGED <<response, iteration>>,
             place \notin Samples \/ iteration[t] < MaxIterations
      PROVE  /\ \A s \in Task \ {t} : /\ pc'[s] = pc[s] /\ response'[s] = response[s]
                                      /\ iteration'[s] = iteration[s]
             /\ pc'[t] \in Samples \/ response'[t] # NoResponse => iteration'[t] < MaxIterations
  BY <1>3 DEF Goto, Typed, TurnsTypeOK, LoopInv
<1>4. CASE UserCalls(t)
  <2>1. UNCHANGED <<response, iteration>> /\ \E place \in {"found", "resolved"} : Goto(t, place)
    BY <1>4 DEF UserCalls, StartTurn, BeginResolution
  <2>2. QED  BY <1>3, <2>1
<1>5. CASE Model(t)
  <2>1. pc[t] = "stream" /\ UNCHANGED iteration
    BY <1>5 DEF Model, BreakStream, RespondInAsk, Answer, Respond
  <2>2. iteration[t] < MaxIterations
    BY <2>1 DEF Typed, LoopInv
  <2>3. CASE \E result : Return(t, result)
    BY <1>2, <2>1, <2>3
  <2>4. CASE Goto(t, "script") /\ \A s \in Task \ {t} : response'[s] = response[s]
    BY <2>1, <2>2, <2>4 DEF Goto, Typed, TurnsTypeOK
  <2>5. CASE \E say \in Says : Respond(t, say)
    <3>1. Goto(t, "script") /\ \A s \in Task \ {t} : response'[s] = response[s]
      BY <2>5 DEF Respond, Typed, TurnsTypeOK
    <3>2. QED  BY <2>4, <3>1
  <2>6. QED
    BY <1>5, <2>3, <2>4, <2>5 DEF Model, BreakStream, RespondInAsk, Answer
<1>6. CASE Run(t)
  <2>1. CASE \E result : Return(t, result) /\ UNCHANGED iteration
    BY <1>2, <2>1
  <2>2. CASE /\ \E place : Goto(t, place) /\ (place \notin Samples \/ iteration[t] < MaxIterations)
             /\ UNCHANGED <<response, iteration>>
    BY <1>3, <2>2
  <2>3. CASE NextIteration(t)
    BY <2>3 DEF NextIteration, Goto, Typed, TurnsTypeOK
  <2>4. CASE UNCHANGED <<pc, response, iteration>>
    BY <2>4 DEF Typed, LoopInv
  <2>5. CASE TryActivate(t) \/ AnnounceTurn(t) \/ RecordInput(t) \/ AnnounceDecision(t)
    BY <2>2, <2>5 DEF TryActivate, AnnounceTurn, RecordInput, AnnounceDecision
  <2>6. CASE EnterLoop(t)
    BY <2>1, <2>2, <2>6 DEF EnterLoop
  <2>7. pc[t] \in Samples => iteration[t] < MaxIterations
    BY DEF Typed, LoopInv
  <2>8. CASE Summarize(t)
    BY <2>1, <2>2, <2>7, <2>8 DEF Summarize
  <2>9. CASE Compact(t)
    BY <2>2, <2>7, <2>9 DEF Compact
  <2>10. CASE OpenStream(t)
    BY <2>1, <2>2, <2>7, <2>10 DEF OpenStream
  <2>11. CASE Write(t) \/ Dispatch(t)
    <3>1. UNCHANGED <<response, iteration>> /\ (UNCHANGED pc \/ Goto(t, "tool"))
      BY <2>11 DEF Write, Dispatch
    <3>2. QED  BY <2>2, <2>4, <3>1
  <2>12. CASE ToolsReturn(t)
    BY <2>2, <2>12 DEF ToolsReturn
  <2>13. CASE Pause(t) \/ Finish(t)
    BY <2>1, <2>13 DEF Pause, Finish
  <2>14. CASE ClearActive(t)
    BY <2>2, <2>14 DEF ClearActive
  <2>15. CASE EmitOutcome(t)
    BY <2>2, <2>15 DEF EmitOutcome
  <2>16. QED
    BY <1>6, <2>3, <2>5, <2>6, <2>8, <2>9, <2>10, <2>11, <2>12, <2>13, <2>14, <2>15 DEF Run
<1>7. QED  BY <1>4, <1>5, <1>6

-----------------------------------------------------------------------------
(* Every script writes for the turn of its task.                           *)

(* Items name the turn they were made for.                                 *)
LEMMA WritesOfTurn ==
    /\ \A u \in Task, kind \in Kinds :
           WriteOp(Say(u, kind)).do = "write" /\ WriteOp(Say(u, kind)).item.turn = u
    /\ \A u \in Task, c \in Call :
           /\ WriteOp(CallItem(u, c)).do = "write" /\ WriteOp(CallItem(u, c)).item.turn = u
           /\ WriteOp(ObsItem(u, c)).do = "write" /\ WriteOp(ObsItem(u, c)).item.turn = u
BY DEF WriteOp, Say, CallItem, ObsItem

(* Joined scripts write for the same turn.                                 *)
LEMMA WritesJoined ==
    ASSUME NEW u, NEW a \in Seq(Op), NEW b \in Seq(Op), Writes(a, u), Writes(b, u)
    PROVE  Writes(a \o b, u)
<1> DEFINE all == a \o b
<1>1. /\ Len(a) \in Nat /\ Len(b) \in Nat /\ Len(all) = Len(a) + Len(b)
      /\ DOMAIN a = 1..Len(a) /\ DOMAIN b = 1..Len(b) /\ DOMAIN all = 1..Len(all)
      /\ \A i \in 1..Len(a) : all[i] = a[i]
      /\ \A i \in (Len(a) + 1)..Len(all) : all[i] = b[i - Len(a)]
  BY JoinedParts
<1> HIDE DEF all
<1>2. ASSUME NEW i \in DOMAIN all, all[i].do = "write" PROVE all[i].item.turn = u
  <2>1. CASE i \in 1..Len(a)
    BY <1>1, <1>2, <2>1 DEF Writes
  <2>2. CASE i \notin 1..Len(a)
    <3>1. i \in (Len(a) + 1)..Len(all) /\ i - Len(a) \in DOMAIN b
      BY <1>1, <2>2
    <3>2. QED  BY <1>1, <1>2, <3>1 DEF Writes
  <2>3. QED  BY <2>1, <2>2
<1>3. QED  BY <1>2 DEF Writes, all

(* An answer is of its turn.                                               *)
LEMMA AnswerWrites ==
    ASSUME NEW u \in Task, NEW kind \in Kinds
    PROVE  Writes(<<WriteOp(Say(u, kind)), FinishOp("Completed")>>, u)
<1> DEFINE w == WriteOp(Say(u, kind))
           f == FinishOp("Completed")
<1>1. w.item.turn = u /\ f.do = "finish"
  BY WritesOfTurn, OpKinds DEF Results
<1> HIDE DEF w, f
<1>2. Writes(<<w, f>>, u)
  BY <1>1 DEF Writes
<1>3. QED  BY <1>2 DEF w, f

(* A response is of its turn.                                              *)
LEMMA ResponseWrites ==
    ASSUME NEW u \in Task, NEW m, NEW say \in Says,
           NEW refused \in CallSeqs(RefusedCalls(m)), NEW gated \in CallSeqs(GatedCalls(m)),
           NEW executable \in CallSeqs(ExecutableCalls(m)), NEW r,
           r = [refused |-> refused, gated |-> gated, executable |-> executable]
    PROVE  Writes(ResponseScript(u, say, r), u)
<1> DEFINE n == Len(executable)
           text == IF say = "None" THEN <<>> ELSE <<WriteOp(Say(u, say))>>
           refusals == [i \in DOMAIN refused |-> WriteOp(ObsItem(u, refused[i]))]
           calls == [i \in DOMAIN executable |-> WriteOp(CallItem(u, executable[i]))]
           J(i) == i < n /\ executable[i] \in Parallel /\ executable[i + 1] \in Parallel
           runs == [i \in DOMAIN executable |-> RunOp(executable[i], J(i))]
           rest == IF gated # <<>> THEN <<PauseOp(gated)>> ELSE calls \o runs
<1>1. refused \in Seq(Call) /\ gated \in Seq(Call) /\ executable \in Seq(Call)
  <2>1. RefusedCalls(m) \in SUBSET Call /\ GatedCalls(m) \in SUBSET Call
        /\ ExecutableCalls(m) \in SUBSET Call
    BY DEF RefusedCalls, GatedCalls, ExecutableCalls
  <2>2. QED  BY <2>1, CallSeqsProperties
<1>2. /\ n \in Nat /\ DOMAIN executable = 1..n
      /\ Len(refused) \in Nat /\ DOMAIN refused = 1..Len(refused)
      /\ \A i \in 1..n : executable[i] \in Call
      /\ \A i \in 1..Len(refused) : refused[i] \in Call
  BY <1>1
<1>3. text \in Seq(Op) /\ Writes(text, u)
  <2>1. CASE say = "None"
    BY <2>1 DEF Writes
  <2>2. CASE say # "None"
    <3> DEFINE first == WriteOp(Say(u, say))
    <3>1. first \in Op /\ first.item.turn = u
      BY <2>2, ItemKinds, OpKinds, WritesOfTurn, ModeAssumption DEF Kinds
    <3>2. text = <<first>>
      BY <2>2
    <3> HIDE DEF first, text
    <3>3. QED  BY <3>1, <3>2 DEF Writes
  <2>3. QED  BY <2>1, <2>2
<1>4. refusals \in Seq(Op) /\ Writes(refusals, u)
  <2>1. \A i \in 1..Len(refused) : /\ WriteOp(ObsItem(u, refused[i])) \in Op
                                   /\ WriteOp(ObsItem(u, refused[i])).item.turn = u
    BY <1>2, ItemKinds, OpKinds, WritesOfTurn
  <2>2. refusals \in [1..Len(refused) -> Op]
    BY <1>2, <2>1
  <2>3. QED  BY <1>2, <2>1, <2>2, FunctionIsSequence DEF Writes
<1>5. calls \in Seq(Op) /\ Writes(calls, u)
  <2>1. \A i \in 1..n : /\ WriteOp(CallItem(u, executable[i])) \in Op
                        /\ WriteOp(CallItem(u, executable[i])).item.turn = u
    BY <1>2, ItemKinds, OpKinds, WritesOfTurn
  <2>2. calls \in [1..n -> Op]
    BY <1>2, <2>1
  <2>3. QED  BY <1>2, <2>1, <2>2, FunctionIsSequence DEF Writes
<1>6. runs \in Seq(Op) /\ Writes(runs, u)
  <2>1. \A i \in 1..n : runs[i] = RunOp(executable[i], J(i)) /\ J(i) \in BOOLEAN
    BY <1>2
  <2>2. \A i \in 1..n : runs[i] \in Op /\ runs[i].do = "run"
    BY <1>2, <2>1, OpKinds
  <2>3. runs \in [1..n -> Op]
    BY <1>2, <2>2
  <2>4. runs \in Seq(Op) /\ DOMAIN runs = 1..n
    BY <1>2, <2>3, FunctionIsSequence
  <2> HIDE DEF runs
  <2>5. QED  BY <2>2, <2>4 DEF Writes
<1>7. rest \in Seq(Op) /\ Writes(rest, u)
  <2>1. CASE gated # <<>>
    <3> DEFINE pause == PauseOp(gated)
    <3>1. pause \in Op /\ pause.do = "pause"
      BY <1>1, OpKinds
    <3>2. rest = <<pause>>
      BY <2>1
    <3> HIDE DEF pause, rest
    <3>3. QED  BY <3>1, <3>2 DEF Writes
  <2>2. CASE gated = <<>>
    <3>1. rest = calls \o runs
      BY <2>2
    <3> HIDE DEF calls, runs, rest
    <3>2. Writes(calls \o runs, u) /\ calls \o runs \in Seq(Op)
      BY <1>5, <1>6, WritesJoined
    <3>3. QED  BY <3>1, <3>2
  <2>3. QED  BY <2>1, <2>2
<1>8. ResponseScript(u, say, r) = (text \o refusals) \o rest
  BY DEF ResponseScript
<1> HIDE DEF text, refusals, rest
<1>9. text \o refusals \in Seq(Op) /\ Writes(text \o refusals, u)
  BY <1>3, <1>4, WritesJoined
<1>10. Writes((text \o refusals) \o rest, u)
  BY <1>7, <1>9, WritesJoined
<1>11. QED  BY <1>8, <1>10

(* The calls of a decision are of the turn that was paused.                *)
LEMMA DecisionWrites ==
    ASSUME NEW u \in Task, NEW decided \in Seq(Call), NEW approved \in BOOLEAN
    PROVE  Writes(DecisionScript(u, decided, approved), u)
<1> DEFINE n == Len(decided)
           written == [i \in DOMAIN decided |-> WriteOp(CallItem(u, decided[i]))]
           runs == [i \in DOMAIN decided |-> RunOp(decided[i], FALSE)]
           rejections == [i \in DOMAIN decided |-> WriteOp(ObsItem(u, decided[i]))]
           rest == IF approved THEN runs ELSE rejections
<1>1. n \in Nat /\ DOMAIN decided = 1..n /\ \A i \in 1..n : decided[i] \in Call
  OBVIOUS
<1>2. /\ \A i \in 1..n : /\ WriteOp(CallItem(u, decided[i])) \in Op
                         /\ WriteOp(CallItem(u, decided[i])).item.turn = u
      /\ \A i \in 1..n : /\ WriteOp(ObsItem(u, decided[i])) \in Op
                         /\ WriteOp(ObsItem(u, decided[i])).item.turn = u
      /\ \A i \in 1..n : RunOp(decided[i], FALSE) \in Op /\ RunOp(decided[i], FALSE).do = "run"
  <2>1. ASSUME NEW i \in 1..n
        PROVE  /\ WriteOp(CallItem(u, decided[i])) \in Op
               /\ WriteOp(CallItem(u, decided[i])).item.turn = u
               /\ WriteOp(ObsItem(u, decided[i])) \in Op
               /\ WriteOp(ObsItem(u, decided[i])).item.turn = u
    BY <1>1, ItemKinds, OpKinds, WritesOfTurn
  <2>2. ASSUME NEW i \in 1..n
        PROVE  RunOp(decided[i], FALSE) \in Op /\ RunOp(decided[i], FALSE).do = "run"
    BY <1>1, OpKinds
  <2>3. QED  BY <2>1, <2>2
<1>3. written \in [1..n -> Op] /\ rejections \in [1..n -> Op] /\ runs \in [1..n -> Op]
  BY <1>1, <1>2
<1>4. written \in Seq(Op) /\ Writes(written, u)
  BY <1>1, <1>2, <1>3, FunctionIsSequence DEF Writes
<1>5. rejections \in Seq(Op) /\ Writes(rejections, u)
  BY <1>1, <1>2, <1>3, FunctionIsSequence DEF Writes
<1>6. runs \in Seq(Op) /\ Writes(runs, u)
  BY <1>1, <1>2, <1>3, FunctionIsSequence DEF Writes
<1>7. rest \in Seq(Op) /\ Writes(rest, u)
  BY <1>5, <1>6
<1>8. DecisionScript(u, decided, approved) = written \o rest
  BY DEF DecisionScript
<1> HIDE DEF written, rest
<1>9. Writes(written \o rest, u)
  BY <1>4, <1>7, WritesJoined
<1>10. QED  BY <1>8, <1>9

(* So are the observations of a batch.                                     *)
LEMMA AfterBatchWrites ==
    ASSUME NEW u \in Task, NEW s \in Seq(Op), WellFormed(s), Runs(s, 1), Writes(s, u)
    PROVE  Writes(AfterBatch(u, s), u)
<1> DEFINE b == BatchLen(s)
           written == [i \in 1..b |-> WriteOp(ObsItem(u, s[i].call))]
           rest == SubSeq(s, b + 1, Len(s))
<1>1. Len(s) \in Nat /\ DOMAIN s = 1..Len(s) /\ \A i \in 1..Len(s) : s[i] \in Op
  OBVIOUS
<1>2. b \in 1..Len(s) /\ \A i \in 1..b : Runs(s, i)
  BY BatchProperties
<1>3. AfterBatch(u, s) = written \o rest
  BY DEF AfterBatch
<1> HIDE DEF b
<1>4. written \in Seq(Op) /\ Writes(written, u)
  <2>1. ASSUME NEW i \in 1..b PROVE s[i].call \in Call
    BY <1>1, <1>2, OpFields DEF Runs
  <2>2. \A i \in 1..b : /\ WriteOp(ObsItem(u, s[i].call)) \in Op
                        /\ WriteOp(ObsItem(u, s[i].call)).item.turn = u
    BY <2>1, ItemKinds, OpKinds, WritesOfTurn
  <2>3. written \in [1..b -> Op] /\ b \in Nat
    BY <1>1, <1>2, <2>2
  <2>4. QED  BY <2>2, <2>3, FunctionIsSequence DEF Writes
<1>5. rest \in Seq(Op) /\ Writes(rest, u)
  <2>1. /\ rest \in Seq(Op) /\ Len(rest) = Len(s) - b
        /\ \A i \in 1..(Len(s) - b) : rest[i] = s[b + i]
    BY <1>2, SuffixProperties
  <2> HIDE DEF rest
  <2>2. \A i \in DOMAIN rest : b + i \in DOMAIN s /\ rest[i] = s[b + i]
    BY <1>1, <1>2, <2>1
  <2>3. QED  BY <2>1, <2>2 DEF Writes
<1> HIDE DEF written, rest
<1>6. QED  BY <1>3, <1>4, <1>5, WritesJoined

(* What is left of a script writes for the same turn.                      *)
LEMMA TailWrites ==
    ASSUME NEW u, NEW s \in Seq(Op), s # <<>>, Writes(s, u)
    PROVE  Writes(Tail(s), u)
<1>1. \A i \in DOMAIN Tail(s) : i + 1 \in DOMAIN s /\ Tail(s)[i] = s[i + 1]
  OBVIOUS
<1>2. QED  BY <1>1 DEF Writes

(* A step of a task, by what becomes of its script.                        *)
LEMMA TaskWrites ==
    ASSUME Typed, WritesInv, NEW t \in Task, UserCalls(t) \/ Model(t) \/ Run(t),
           pending # NoPending => Distinct(pending.calls)
    PROVE  WritesInv'
<1> USE DEF sessionVars, consentVars
<1>1. SUFFICES /\ \A s \in Task \ {t} : script'[s] = script[s] /\ turn'[s] = turn[s]
               /\ Writes(script'[t], turn'[t])
  BY DEF WritesInv
<1>2. Writes(script[t], turn[t]) /\ \A u : Writes(<<>>, u)
  BY DEF WritesInv, Writes
<1>3. CASE UNCHANGED <<script, turn>>
  BY <1>2, <1>3
<1>4. ASSUME NEW s, script' = [script EXCEPT ![t] = s], Writes(s, turn[t]), turn' = turn
      PROVE  /\ \A q \in Task \ {t} : script'[q] = script[q] /\ turn'[q] = turn[q]
             /\ Writes(script'[t], turn'[t])
  BY <1>4 DEF Typed, TurnsTypeOK
<1>5. CASE \E result : Return(t, result) /\ turn' = turn
  BY <1>2, <1>4, <1>5 DEF Return
<1>6. CASE \E m \in Modes : StartTurn(t, m)
  <2>1. pc[t] = "idle" /\ script' = script /\ \A q \in Task \ {t} : turn'[q] = turn[q]
    BY <1>6 DEF StartTurn, Typed, TurnsTypeOK
  <2>2. script[t] = <<>>
    BY <2>1 DEF Typed, ScriptInv
  <2>3. QED  BY <1>2, <2>1, <2>2
<1>7. CASE \E c \in Call, approved \in BOOLEAN : BeginResolution(t, c, approved)
  <2>1. PICK c \in Call, approved \in BOOLEAN : BeginResolution(t, c, approved)
    BY <1>7
  <2> DEFINE u == pending.turn
             s == DecisionScript(u, pending.calls, approved)
  <2>2. pending \in PendingApproval
    BY <2>1 DEF BeginResolution, Typed, TurnsTypeOK
  <2>3. Writes(s, u)
    BY <2>2, DecisionWrites DEF PendingApproval
  <2>4. turn' = [turn EXCEPT ![t] = u] /\ script' = [script EXCEPT ![t] = s]
    BY <2>1 DEF BeginResolution
  <2> HIDE DEF u, s
  <2>5. QED  BY <2>3, <2>4 DEF Typed, TurnsTypeOK
<1>8. ASSUME NEW kind \in {"Assistant"} \cup (Says \ {"None"}), Answer(t, kind)
      PROVE  /\ \A q \in Task \ {t} : script'[q] = script[q] /\ turn'[q] = turn[q]
             /\ Writes(script'[t], turn'[t])
  <2>1. kind \in Kinds
    BY ModeAssumption DEF Kinds
  <2>2. turn[t] \in Task
    BY <1>8, WorksForTurn DEF Answer
  <2>3. Writes(<<WriteOp(Say(turn[t], kind)), FinishOp("Completed")>>, turn[t])
    BY <2>1, <2>2, AnswerWrites
  <2>4. QED  BY <1>4, <1>8, <2>3 DEF Answer
<1>9. ASSUME NEW say \in Says, Respond(t, say)
      PROVE  /\ \A q \in Task \ {t} : script'[q] = script[q] /\ turn'[q] = turn[q]
             /\ Writes(script'[t], turn'[t])
  <2> DEFINE m == mode[turn[t]]
  <2>1. PICK refused \in CallSeqs(RefusedCalls(m)), gated \in CallSeqs(GatedCalls(m)),
             executable \in CallSeqs(ExecutableCalls(m)) :
                LET r == [refused |-> refused, gated |-> gated, executable |-> executable]
                IN  script' = [script EXCEPT ![t] = ResponseScript(turn[t], say, r)]
    BY <1>9 DEF Respond
  <2> DEFINE r == [refused |-> refused, gated |-> gated, executable |-> executable]
             s == ResponseScript(turn[t], say, r)
  <2>2. turn[t] \in Task
    BY <1>9, WorksForTurn DEF Respond
  <2>3. Writes(s, turn[t])
    <3> HIDE DEF m
    <3>1. QED  BY <2>2, ResponseWrites
  <2>4. script' = [script EXCEPT ![t] = s] /\ turn' = turn
    BY <1>9, <2>1 DEF Respond
  <2> HIDE DEF s
  <2>5. QED  BY <1>4, <2>3, <2>4
<1>10. CASE Write(t)
  <2>1. script[t] \in Seq(Op) /\ script[t] # <<>>
    BY <1>10 DEF Write, NextOp, Typed, TurnsTypeOK
  <2>2. Writes(Tail(script[t]), turn[t])
    BY <1>2, <2>1, TailWrites
  <2>3. QED  BY <1>4, <1>10, <2>2 DEF Write
<1>11. CASE Dispatch(t) \/ ToolsReturn(t)
  <2>1. turn[t] \in Task /\ (NextOp(t, "run") \/ pc[t] = "tool")
    BY <1>11, WorksForTurn DEF Dispatch, ToolsReturn, NextOp
  <2>2. Writes(AfterBatch(turn[t], script[t]), turn[t])
    BY <1>2, <2>1, RunsFirst, AfterBatchWrites
  <2>3. turn' = turn /\ (script' = script \/ script' = [script EXCEPT ![t] = AfterBatch(turn[t], script[t])])
    BY <1>11 DEF Dispatch, ToolsReturn
  <2>4. QED  BY <1>3, <1>4, <2>2, <2>3
<1>12. CASE Run(t) /\ ~Write(t) /\ ~Dispatch(t) /\ ~ToolsReturn(t)
  <2>1. UNCHANGED <<script, turn>> \/ \E result : Return(t, result) /\ turn' = turn
    BY <1>12 DEF Run, TryActivate, AnnounceTurn, RecordInput, AnnounceDecision, EnterLoop, Summarize,
                 Compact, OpenStream, Pause, Finish, NextIteration, ClearActive, EmitOutcome
  <2>2. QED  BY <1>3, <1>5, <2>1
<1>13. CASE BreakStream(t) \/ RespondInAsk(t)
  BY <1>5, <1>13 DEF BreakStream, RespondInAsk
<1>14. QED
  BY <1>6, <1>7, <1>8, <1>9, <1>10, <1>11, <1>12, <1>13 DEF UserCalls, Model

-----------------------------------------------------------------------------
(* The invariant holds at the start and after every step.                  *)

(* A session that is new has no turns.                                     *)
LEMMA InitTurns == Init => TurnInv
<1> SUFFICES ASSUME Init PROVE TurnInv
  OBVIOUS
<1> USE DEF Init
<1>1. TurnsTypeOK
  <2>1. NoResponse \in [refused : Seq(Call), gated : Seq(Call), executable : Seq(Call)]
    BY DEF NoResponse
  <2>2. script \in [Task -> Seq(Op)] /\ history \in Seq(Item) /\ Len(history) <= MaxItems
    BY BoundAssumption
  <2>3. events \in [Task -> Seq(EndEvents \cup {"TurnStarted", "NeedUserInput", "ToolApprovalResolved"})]
    OBVIOUS
  <2>4. iteration \in [Task -> 0..MaxIterations]
    BY BoundAssumption
  <2>5. response \in [Task -> [refused : Seq(Call), gated : Seq(Call), executable : Seq(Call)]]
    BY <2>1
  <2>6. outcome \in [Task -> Results] /\ pc \in [Task -> Places]
    BY DEF Results, Places
  <2>7. QED  BY <2>2, <2>3, <2>4, <2>5, <2>6 DEF TurnsTypeOK
<1>2. BusyInv
  BY TaskAssumption DEF BusyInv, NamesInv, TokenInv, OneRunner, ActiveIsTheRunner, PausedTurnKept, Running
<1>3. VerdictInv /\ OneVerdict
  BY DEF VerdictInv, OneVerdict, Ended, Ending, Alive
<1>4. LoopInv
  BY DEF LoopInv
<1>5. ScriptInv /\ WritesInv
  BY EmptyScript DEF ScriptInv, WritesInv, Writes
<1>6. ConsentInv
  BY DEF ConsentInv, Due
<1>7. QED  BY <1>1, <1>2, <1>3, <1>4, <1>5, <1>6 DEF TurnInv

(* Who is busy and who was told, for each kind of step.                    *)
LEMMA TaskVerdict ==
    ASSUME TurnInv, NEW t \in Task, UserCalls(t) \/ Model(t) \/ Run(t)
    PROVE  BusyInv' /\ VerdictInv' /\ OneVerdict'
<1>0. Shape /\ Logs /\ BusyInv /\ VerdictInv /\ OneVerdict
  BY TypesShape, TypesLogs DEF TurnInv
<1>1. CASE Progress(t)
  BY <1>0, <1>1, ProgressBusy, ProgressVerdict
<1>2. ASSUME NEW m, StartTurn(t, m) PROVE BusyInv' /\ VerdictInv' /\ OneVerdict'
  BY <1>0, <1>2, StartBusy, StartVerdict
<1>3. ASSUME NEW c, NEW approved, BeginResolution(t, c, approved)
      PROVE  BusyInv' /\ VerdictInv' /\ OneVerdict'
  BY <1>0, <1>3, ResolutionBusy, ResolutionVerdict
<1>4. CASE TryActivate(t)
  BY <1>0, <1>4, ActivateBusy, ActivateVerdict
<1>5. CASE Pause(t)
  BY <1>0, <1>5, PauseBusy, PauseVerdict
<1>6. CASE ClearActive(t)
  BY <1>0, <1>6, ClearBusy, ClearVerdict
<1>7. CASE EmitOutcome(t)
  BY <1>0, <1>7, EmitBusy, EmitVerdict
<1>8. QED
  BY <1>0, <1>1, <1>2, <1>3, <1>4, <1>5, <1>6, <1>7, ModelProgress, RunProgress DEF UserCalls

(* The same for the calls that stop a turn.                                *)
LEMMA OutsideVerdict ==
    ASSUME TurnInv,
           Interrupt \/ (\E u \in Task : AnnounceInterrupt(u)) \/ CloseSession \/ CancelClosed
    PROVE  BusyInv' /\ VerdictInv' /\ OneVerdict'
<1>0. Shape /\ Logs /\ BusyInv /\ VerdictInv /\ OneVerdict
  BY TypesShape, TypesLogs DEF TurnInv
<1>1. ASSUME UNCHANGED <<active, pending, cancelled, pc, turn, token, outcome>> PROVE BusyInv'
  BY <1>0, <1>1 DEF BusyInv, NamesInv, Begun, TokenInv, OneRunner, ActiveIsTheRunner, Running,
                    PausedTurnKept
<1>2. ASSUME UNCHANGED <<active, pending, cancelled, pc, turn, outcome, notice, events>>
      PROVE  VerdictInv' /\ OneVerdict'
  BY <1>0, <1>2 DEF VerdictInv, OneVerdict, Begun, Alive, Ending, Ended
<1>3. ASSUME NEW u \in Task, DetachCurrent(u), UNCHANGED <<pc, turn, outcome, events>>,
             notice' \in {notice, notice \cup {u}}
      PROVE  BusyInv' /\ VerdictInv' /\ OneVerdict'
  BY <1>0, <1>3, DetachBusy, DetachVerdict
<1>4. CASE Interrupt
  <2>1. PICK u \in Task : DetachCurrent(u) /\ notice' = notice \cup {u}
    BY <1>4 DEF Interrupt
  <2>2. UNCHANGED <<pc, turn, outcome, events>>
    BY <1>4 DEF Interrupt
  <2>3. QED  BY <1>3, <2>1, <2>2
<1>5. ASSUME NEW u \in Task, AnnounceInterrupt(u) PROVE BusyInv' /\ VerdictInv' /\ OneVerdict'
  <2>1. BusyInv'
    BY <1>1, <1>5 DEF AnnounceInterrupt, sessionVars, taskVars
  <2>2. QED  BY <1>0, <1>5, <2>1, AnnounceVerdict
<1>6. CASE CloseSession
  BY <1>1, <1>2, <1>6 DEF CloseSession, taskVars
<1>7. CASE CancelClosed
  <2>1. UNCHANGED <<pc, turn, outcome, notice, events>>
    BY <1>7 DEF CancelClosed
  <2>2. CASE IsBusy
    <3>1. PICK u \in Task : DetachCurrent(u)
      BY <1>7, <2>2 DEF CancelClosed
    <3>2. QED  BY <1>3, <2>1, <3>1
  <2>3. CASE ~IsBusy
    <3>1. UNCHANGED <<active, pending, cancelled, token>>
      BY <1>7, <2>3 DEF CancelClosed
    <3>2. QED  BY <1>1, <1>2, <2>1, <3>1
  <2>4. QED  BY <2>2, <2>3
<1>8. QED  BY <1>4, <1>5, <1>6, <1>7

(* Every step of the session keeps the invariant.                          *)
LEMMA NextTurns == TurnInv /\ [Next]_vars => TurnInv'
<1> SUFFICES ASSUME TurnInv, [Next]_vars PROVE TurnInv'
  OBVIOUS
<1>0. /\ Typed /\ OneRunner /\ ConsentInv /\ WritesInv
      /\ pending # NoPending => Distinct(pending.calls)
  BY DEF TurnInv, BusyInv, Typed, ConsentInv
<1>1. ASSUME NEW t \in Task, UserCalls(t) \/ Model(t) \/ Run(t) PROVE TurnInv'
  <2>1. TurnsTypeOK'
    BY <1>0, <1>1, UserTypes, ModelTypes, RunTypes
  <2>2. BusyInv' /\ VerdictInv' /\ OneVerdict'
    BY <1>1, TaskVerdict
  <2>3. ScriptInv' /\ ConsentInv'
    BY <1>0, <1>1, UserConsent, ModelConsent, RunConsent
  <2>4. LoopInv' /\ WritesInv'
    BY <1>0, <1>1, TaskLoop, TaskWrites
  <2>5. QED  BY <2>1, <2>2, <2>3, <2>4 DEF TurnInv
<1>2. CASE Interrupt \/ (\E u \in Task : AnnounceInterrupt(u)) \/ CloseSession \/ CancelClosed
  <2>1. TurnsTypeOK' /\ ScriptInv' /\ ConsentInv' /\ LoopInv'
    BY <1>0, <1>2, OutsideTypes, OutsideConsent
  <2>2. BusyInv' /\ VerdictInv' /\ OneVerdict'
    BY <1>2, OutsideVerdict
  <2>3. UNCHANGED <<script, turn>>
    BY <1>2 DEF Interrupt, AnnounceInterrupt, CloseSession, CancelClosed, taskVars
  <2>4. WritesInv'
    BY <1>0, <2>3 DEF WritesInv
  <2>5. QED  BY <2>1, <2>2, <2>4 DEF TurnInv
<1>3. CASE UNCHANGED vars
  <2>1. UNCHANGED <<registered, active, pending, cancelled, history, pc, turn, token, script,
                    response, iteration, outcome, mode, notice, events, asked, granted>>
    BY <1>3 DEF vars
  <2>2. TurnsTypeOK'
    BY <2>1 DEF TurnInv, TurnsTypeOK
  <2>3. BusyInv'
    BY <2>1 DEF TurnInv, BusyInv, NamesInv, Begun, TokenInv, OneRunner, ActiveIsTheRunner, Running,
                PausedTurnKept
  <2>4. VerdictInv' /\ OneVerdict'
    BY <2>1 DEF TurnInv, VerdictInv, OneVerdict, Begun, Alive, Ending, Ended
  <2>5. LoopInv' /\ ScriptInv' /\ WritesInv'
    BY <2>1 DEF TurnInv, LoopInv, ScriptInv, WritesInv
  <2>6. ConsentInv'
    BY <2>1 DEF TurnInv, ConsentInv, Due
  <2>7. QED  BY <2>2, <2>3, <2>4, <2>5, <2>6 DEF TurnInv
<1>4. QED  BY <1>1, <1>2, <1>3 DEF Next

-----------------------------------------------------------------------------
(* The session's turns keep their invariant: who is active, who was told   *)
(* how a turn ended, what scripts still do and what was granted for it.    *)
THEOREM TurnInvariant == TurnsSpec => []TurnInv
<1>1. Init => TurnInv
  BY InitTurns
<1>2. TurnInv /\ [Next]_vars => TurnInv'
  BY NextTurns
<1>3. QED  BY <1>1, <1>2, PTL DEF TurnsSpec

(* Every variable keeps its type, no history outgrows its limit            *)
(* (RuntimeHistory::record), no task passes that of run_agent_loop.        *)
THEOREM TurnsTypeCorrect == TurnsSpec => []TurnsTypeOK
<1>1. TurnInv => TurnsTypeOK
  BY DEF TurnInv
<1>2. QED  BY <1>1, TurnInvariant, PTL

(* A session that is busy has a task that runs uncancelled or an approval  *)
(* of a turn nobody stopped, and no other task of it runs uncancelled      *)
(* (try_set_active_turn, clear_active_turn_if, set_pending_tool_approval,  *)
(* cancel_and_detach_current_turn, begin_pending_tool_resolution).         *)
THEOREM SessionBusyForAReason == TurnsSpec => []BusyForAReason
<1>1. TurnInv => BusyForAReason
  BY DEF TurnInv, BusyInv, BusyForAReason
<1>2. QED  BY <1>1, TurnInvariant, PTL

(* The subscribers of a turn are told once how it ended, and not that a    *)
(* turn that was stopped completed or failed, whoever comes first of the   *)
(* task's emit_outcome and interrupt.                                      *)
THEOREM VerdictGivenOnce == TurnsSpec => []OneVerdict
<1>1. TurnInv => OneVerdict
  BY DEF TurnInv
<1>2. QED  BY <1>1, TurnInvariant, PTL

(* A tool starts in Dispatch only, under a live token.                     *)
LEMMA ToolStart ==
    ASSUME TurnInv, [Next]_vars, NEW s \in Task, pc[s] # "tool", pc'[s] = "tool"
    PROVE  Dispatch(s) /\ ~token[s]
<1> USE DEF sessionVars, taskVars, consentVars
<1>0. pc \in [Task -> Places]
  BY DEF TurnInv, TurnsTypeOK
<1>1. PICK t \in Task : UserCalls(t) \/ Model(t) \/ Run(t)
  BY DEF Next, Interrupt, AnnounceInterrupt, CloseSession, CancelClosed, vars
<1>2. ASSUME NEW place, Goto(t, place), place # "tool" PROVE FALSE
  BY <1>0, <1>2 DEF Goto
<1>3. ASSUME NEW result, Return(t, result) PROVE FALSE
  BY <1>2, <1>3 DEF Return
<1>4. ~UserCalls(t)
  BY <1>2 DEF UserCalls, StartTurn, BeginResolution
<1>5. ~Model(t)
  BY <1>2, <1>3 DEF Model, BreakStream, RespondInAsk, Answer, Respond
<1>6. Dispatch(t)
  BY <1>1, <1>2, <1>3, <1>4, <1>5
     DEF Run, TryActivate, AnnounceTurn, RecordInput, AnnounceDecision, EnterLoop, Summarize,
         Compact, OpenStream, Write, ToolsReturn, Pause, Finish, NextIteration, ClearActive,
         EmitOutcome
<1>7. ~token[t] /\ pc' = [pc EXCEPT ![t] = "tool"]
  BY <1>6 DEF Dispatch, Goto
<1>8. s = t
  BY <1>0, <1>7
<1>9. QED  BY <1>6, <1>7, <1>8

(* What is newest in the history was written by one of three steps.        *)
LEMMA HistoryStep ==
    ASSUME TurnInv, [Next]_vars, history' # history
    PROVE  \E t \in Task : RecordInput(t) \/ Write(t) \/ Compact(t)
BY DEF Next, UserCalls, StartTurn, BeginResolution, Model, BreakStream, RespondInAsk, Answer, Respond,
       Run, TryActivate, AnnounceTurn, AnnounceDecision, EnterLoop, Summarize, OpenStream,
       Dispatch, ToolsReturn, Pause, Finish, NextIteration, ClearActive, EmitOutcome,
       Interrupt, AnnounceInterrupt, CloseSession, CancelClosed, vars

(* What a step of a stopped turn does not do.                              *)
LEMMA StoppedStep ==
    ASSUME TurnInv, [Next]_vars
    PROVE  /\ history' # <<>> /\ (history = <<>> \/ Newest(history') # Newest(history))
               => Newest(history').kind = "User" \/ Newest(history').turn \notin cancelled
           /\ \A t \in Task :
                  pc[t] # "tool" /\ pc'[t] = "tool" => turn[t] \notin cancelled
<1> DEFINE Renewed == history' # <<>> /\ (history = <<>> \/ Newest(history') # Newest(history))
           Allowed == Newest(history').kind = "User" \/ Newest(history').turn \notin cancelled
           Starts(s) == pc[s] # "tool" /\ pc'[s] = "tool"
<1>1. ASSUME Renewed PROVE Allowed
  <2>1. history \in Seq(Item) /\ Len(history) <= MaxItems /\ Typed
    BY <1>1 DEF TurnInv, Typed, BusyInv, TurnsTypeOK
  <2>2. PICK t \in Task : RecordInput(t) \/ Write(t) \/ Compact(t)
    BY <1>1, HistoryStep
  <2>3. CASE RecordInput(t)
    <3>1. turn[t] \in Task
      BY <2>1, <2>3, WorksForTurn DEF RecordInput
    <3>2. Say(turn[t], "User") \in Item
      BY <3>1, ItemKinds DEF Kinds
    <3>3. Newest(history') = Say(turn[t], "User")
      BY <2>1, <2>3, <3>2, RecordProperties DEF RecordInput
    <3>4. QED  BY <3>3 DEF Say
  <2>4. CASE Write(t)
    <3>1. turn[t] \notin cancelled
      BY <1>1, <2>4 DEF Write
    <3>2. script[t] \in Seq(Op) /\ script[t] # <<>> /\ Head(script[t]).do = "write"
      BY <1>1, <2>4 DEF Write, NextOp, TurnInv, TurnsTypeOK
    <3>3. 1 \in DOMAIN script[t] /\ Head(script[t]) = script[t][1] /\ script[t][1] \in Op
      BY <3>2
    <3>4. Head(script[t]).item \in Item
      BY <3>2, <3>3, OpFields
    <3>5. Head(script[t]).item.turn = turn[t]
      BY <1>1, <3>2, <3>3 DEF TurnInv, WritesInv, Writes
    <3>6. Newest(history') = Head(script[t]).item
      BY <2>1, <2>4, <3>1, <3>4, RecordProperties DEF Write
    <3>7. QED  BY <3>1, <3>5, <3>6
  <2>5. CASE Compact(t)
    <3>1. history' = CompactOldItems(history, KeepLast, SummaryItem)
      BY <2>5 DEF Compact
    <3>2. /\ history = <<>> => history' = <<>>
          /\ history # <<>> => Newest(history') = Newest(history)
      BY <2>1, <3>1, CompactProperties
    <3>3. QED  BY <1>1, <3>2
  <2>6. QED  BY <2>2, <2>3, <2>4, <2>5
<1>2. ASSUME NEW s \in Task, Starts(s) PROVE turn[s] \notin cancelled
  <2>1. Dispatch(s) /\ ~token[s]
    BY <1>2, ToolStart
  <2>2. Running(s)
    BY <2>1 DEF Dispatch, NextOp, Running
  <2>3. active = s
    BY <1>2, <2>1, <2>2 DEF TurnInv, BusyInv, ActiveIsTheRunner
  <2>4. QED  BY <1>2, <2>3, TaskAssumption DEF TurnInv, BusyInv, TokenInv
<1>3. QED  BY <1>1, <1>2

(* A turn that was cancelled writes nothing but its user's input           *)
(* (with_writable_turn) and starts no tool (ToolRouter::dispatch).         *)
THEOREM StoppedTurnsStayStopped == TurnsSpec => StoppedStaysStopped
<1>1. TurnInv /\ [Next]_vars =>
        [ /\ history' # <<>> /\ (history = <<>> \/ Newest(history') # Newest(history))
               => Newest(history').kind = "User" \/ Newest(history').turn \notin cancelled
          /\ \A t \in Task :
                 pc[t] # "tool" /\ pc'[t] = "tool" => turn[t] \notin cancelled ]_vars
  BY StoppedStep
<1>2. QED  BY <1>1, TurnInvariant, PTL DEF TurnsSpec, StoppedStaysStopped

(* What a risky call needs when it starts.                                 *)
LEMMA ApprovedStep ==
    ASSUME TurnInv, [Next]_vars, NEW s \in Task, pc[s] # "tool", pc'[s] = "tool",
           mode[turn[s]] = "Manual"
    PROVE  Batch(script[s]) \cap Risky \subseteq granted[turn[s]]
<1>1. NextOp(s, "run") /\ pc[s] = "script"
  BY ToolStart DEF Dispatch, NextOp
<1>2. Typed /\ ConsentInv
  BY DEF TurnInv, Typed, BusyInv
<1>3. \A i \in 1..BatchLen(script[s]) : Runs(script[s], i)
  BY <1>1, <1>2, RunsFirst, BatchProperties
<1>4. ASSUME NEW i \in 1..BatchLen(script[s]), script[s][i].call \in Risky
      PROVE  script[s][i].call \in granted[turn[s]]
  BY <1>1, <1>2, <1>3, <1>4, DueGranted
<1>5. QED  BY <1>4 DEF Batch

(* In Manual mode no risky tool starts without a grant of that very call   *)
(* (requires_tool_approval, continue_after_tool_decision).                 *)
THEOREM RiskyCallsApproved == TurnsSpec => ApprovedOnly
<1>1. TurnInv /\ [Next]_vars =>
        [ \A t \in Task : pc[t] # "tool" /\ pc'[t] = "tool" /\ mode[turn[t]] = "Manual"
            => Batch(script[t]) \cap Risky \subseteq granted[turn[t]] ]_vars
  BY ApprovedStep
<1>2. QED  BY <1>1, TurnInvariant, PTL DEF TurnsSpec, ApprovedOnly

-----------------------------------------------------------------------------
(* What one item becomes.                                                  *)
Msg == [role : {"user", "assistant", "system", "tool"},
        calls : Seq(Call \cup {NoCall}), reasoned : BOOLEAN]

(* The calls of the exchange that starts at s, and where it ends.          *)
FirstObs(h, s) == WalkOn(h, s, "Call")
Beyond(h, s) == WalkOn(h, FirstObs(h, s), "Obs")
Complete(h, s) == ExchangeStarts(h, s) /\ ExchangeComplete(h, s)
CallsMessage(h, s) ==
    Message("assistant", [m \in 1..(FirstObs(h, s) - s) |-> h[s + m - 1].call],
            s > 1 /\ h[s - 1].kind = "Reasoned")

LEMMA ExchangeShape ==
    ASSUME NEW h \in Seq(Item), NEW s \in 1..Len(h), h[s].kind = "Call"
    PROVE  /\ FirstObs(h, s) \in (s + 1)..(Len(h) + 1)
           /\ Beyond(h, s) \in FirstObs(h, s)..(Len(h) + 1)
           /\ \A i \in s..(FirstObs(h, s) - 1) : h[i].kind = "Call"
           /\ \A i \in FirstObs(h, s)..(Beyond(h, s) - 1) : h[i].kind = "Obs"
           /\ CallsOf(h, s) = s..(FirstObs(h, s) - 1)
           /\ ObservationsOf(h, s) = FirstObs(h, s)..(Beyond(h, s) - 1)
<1> DEFINE first == FirstObs(h, s)
           beyond == Beyond(h, s)
<1>0. s \in 1..(Len(h) + 1) /\ Len(h) \in Nat
  OBVIOUS
<1>1. /\ first \in s..(Len(h) + 1)
      /\ \A i \in s..(first - 1) : h[i].kind = "Call"
      /\ first = Len(h) + 1 \/ h[first].kind # "Call"
  BY <1>0, WalkOnProperties DEF FirstObs
<1>2. CallsOf(h, s) = s..(first - 1)
  BY DEF CallsOf, FirstObs
<1>3. ObservationsOf(h, s) = first..(beyond - 1)
  BY DEF ObservationsOf, FirstObs, Beyond
<1>4. first # s
  BY <1>0, <1>1
<1> HIDE DEF first
<1>5. first \in (s + 1)..(Len(h) + 1) /\ first \in 1..(Len(h) + 1)
  BY <1>0, <1>1, <1>4
<1>6. beyond \in first..(Len(h) + 1) /\ \A i \in first..(beyond - 1) : h[i].kind = "Obs"
  BY <1>5, WalkOnProperties DEF Beyond, first
<1>7. QED  BY <1>1, <1>2, <1>3, <1>5, <1>6 DEF first

LEMMA ItemFields ==
    ASSUME NEW h \in Seq(Item), NEW i \in 1..Len(h)
    PROVE  h[i].kind \in Kinds /\ h[i].call \in Call \cup {NoCall}
<1>1. h[i] \in Item
  OBVIOUS
<1>2. QED  BY <1>1 DEF Item

LEMMA PlainMessage ==
    ASSUME NEW role \in {"user", "assistant", "system"}, NEW reasoned \in BOOLEAN
    PROVE  /\ Message(role, <<>>, reasoned) \in Msg
           /\ Message(role, <<>>, reasoned).role = role
           /\ Message(role, <<>>, reasoned).calls = <<>>
<1>1. <<>> \in Seq(Call \cup {NoCall})
  OBVIOUS
<1>2. QED  BY <1>1 DEF Message, Msg

(* A silent item, a plain message, the calls of a complete exchange or the *)
(* answer to one of them.                                                  *)
LEMMA ItemMessage ==
    ASSUME NEW h \in Seq(Item), NEW i \in 1..Len(h)
    PROVE  \/ MessagesAt(h, i) = <<>> /\ ~Complete(h, i)
              /\ ~(h[i].kind = "Obs" /\ InCompleteExchange(h, i))
           \/ \E x \in Msg : /\ MessagesAt(h, i) = <<x>>
                             /\ ~Complete(h, i)
                             /\ ~(h[i].kind = "Obs" /\ InCompleteExchange(h, i))
                             /\ x.calls = <<>> /\ x.role # "tool"
           \/ /\ MessagesAt(h, i) = <<CallsMessage(h, i)>> /\ Complete(h, i)
              /\ CallsMessage(h, i) \in Msg
           \/ /\ MessagesAt(h, i) = <<Message("tool", <<h[i].call>>, FALSE)>>
              /\ h[i].kind = "Obs" /\ InCompleteExchange(h, i)
              /\ Message("tool", <<h[i].call>>, FALSE) \in Msg
<1> DEFINE Plain == \E x \in Msg : MessagesAt(h, i) = <<x>> /\ x.calls = <<>> /\ x.role # "tool"
           tool == Message("tool", <<h[i].call>>, FALSE)
<1>0. h[i].kind \in Kinds /\ h[i].call \in Call \cup {NoCall}
  BY ItemFields
<1>1. ASSUME NEW role \in {"user", "assistant", "system"}, NEW reasoned \in BOOLEAN,
             MessagesAt(h, i) = <<Message(role, <<>>, reasoned)>>
      PROVE  Plain
  BY <1>1, PlainMessage
<1>2. h[i].kind # "Call" => ~Complete(h, i)
  BY DEF Complete, ExchangeStarts
<1>3. CASE h[i].kind \in {"User", "Assistant", "Summary"}
  <2>1. \E role \in {"user", "assistant", "system"} : MessagesAt(h, i) = <<Message(role, <<>>, FALSE)>>
    BY <1>3 DEF MessagesAt
  <2>2. Plain
    BY <1>1, <2>1
  <2>3. QED  BY <1>2, <1>3, <2>2
<1>4. CASE h[i].kind = "Reasoned"
  <2>1. MessagesAt(h, i) = <<>> \/ MessagesAt(h, i) = <<Message("assistant", <<>>, TRUE)>>
    BY <1>4 DEF MessagesAt
  <2>2. MessagesAt(h, i) = <<>> \/ Plain
    BY <1>1, <2>1
  <2>3. QED  BY <1>2, <1>4, <2>2
<1>5. CASE h[i].kind = "Call"
  <2>1. CASE Complete(h, i)
    <3>1. MessagesAt(h, i) = <<CallsMessage(h, i)>>
      BY <1>5, <2>1 DEF MessagesAt, Complete, CallsMessage, FirstObs
    <3>2. FirstObs(h, i) \in (i + 1)..(Len(h) + 1)
          /\ \A m \in i..(FirstObs(h, i) - 1) : m \in 1..Len(h)
      BY <1>5, ExchangeShape
    <3> DEFINE n == FirstObs(h, i) - i
               calls == [m \in 1..n |-> h[i + m - 1].call]
    <3>3. n \in Nat /\ \A m \in 1..n : i + m - 1 \in 1..Len(h)
      BY <3>2
    <3>4. \A m \in 1..n : h[i + m - 1].call \in Call \cup {NoCall}
      BY <3>3, ItemFields
    <3> HIDE DEF n
    <3>5. calls \in Seq(Call \cup {NoCall})
      BY <3>3, <3>4
    <3>6. CallsMessage(h, i) \in Msg
      BY <3>5 DEF CallsMessage, Message, Msg, n
    <3>7. QED  BY <2>1, <3>1, <3>6
  <2>2. CASE ~Complete(h, i)
    <3>1. MessagesAt(h, i) = <<>> \/ MessagesAt(h, i) = <<Message("system", <<>>, FALSE)>>
      BY <1>5, <2>2 DEF MessagesAt, Complete
    <3>2. MessagesAt(h, i) = <<>> \/ Plain
      BY <1>1, <3>1
    <3>3. QED  BY <1>5, <2>2, <3>2
  <2>3. QED  BY <2>1, <2>2
<1>6. CASE h[i].kind = "Obs"
  <2>1. CASE InCompleteExchange(h, i)
    <3>1. MessagesAt(h, i) = <<tool>>
      BY <1>6, <2>1 DEF MessagesAt
    <3>2. <<h[i].call>> \in Seq(Call \cup {NoCall})
      BY <1>0
    <3>3. tool \in Msg
      BY <3>2 DEF Message, Msg
    <3>4. QED  BY <1>6, <2>1, <3>1, <3>3
  <2>2. CASE ~InCompleteExchange(h, i)
    <3>1. MessagesAt(h, i) = <<>> \/ MessagesAt(h, i) = <<Message("system", <<>>, FALSE)>>
      BY <1>6, <2>2 DEF MessagesAt
    <3>2. MessagesAt(h, i) = <<>> \/ Plain
      BY <1>1, <3>1
    <3>3. QED  BY <1>2, <1>6, <2>2, <3>2
  <2>3. QED  BY <2>1, <2>2
<1>7. QED  BY <1>0, <1>3, <1>4, <1>5, <1>6 DEF Kinds

LEMMA AnswerMessage ==
    ASSUME NEW h \in Seq(Item), NEW i \in 1..Len(h), h[i].kind = "Obs", InCompleteExchange(h, i)
    PROVE  /\ MessagesAt(h, i) = <<Message("tool", <<h[i].call>>, FALSE)>>
           /\ Message("tool", <<h[i].call>>, FALSE) \in Msg
<1>1. ~Complete(h, i)
  BY DEF Complete, ExchangeStarts
<1>2. QED  BY <1>1, ItemMessage

-----------------------------------------------------------------------------
(* The messages of a prefix of the history, u[i] of the first i items.     *)
Collects(u, h, n) ==
    /\ u \in [0..n -> Seq(Msg)]
    /\ u[0] = <<>>
    /\ \A i \in 1..n : u[i] = u[i - 1] \o MessagesAt(h, i)

LEMMA MessageTypes ==
    ASSUME NEW h \in Seq(Item), NEW i \in 1..Len(h)
    PROVE  MessagesAt(h, i) \in Seq(Msg) /\ Len(MessagesAt(h, i)) \in {0, 1}
<1>1. \A x \in Msg : <<x>> \in Seq(Msg) /\ Len(<<x>>) = 1
  OBVIOUS
<1>2. <<>> \in Seq(Msg) /\ Len(<<>>) = 0
  OBVIOUS
<1>3. MessagesAt(h, i) = <<>> \/ \E x \in Msg : MessagesAt(h, i) = <<x>>
  BY ItemMessage
<1>4. QED  BY <1>1, <1>2, <1>3

LEMMA CollectionExists ==
    ASSUME NEW h \in Seq(Item)
    PROVE  \E u : Collects(u, h, Len(h))
<1> DEFINE Bad == {n \in 0..Len(h) : ~\E u : Collects(u, h, n)}
<1>0. Len(h) \in Nat /\ Bad \in SUBSET Nat
  OBVIOUS
<1>1. SUFFICES ASSUME Bad # {} PROVE FALSE
  BY <1>0
<1>2. PICK n \in Bad : \A m \in Bad : n <= m
  <2> HIDE DEF Bad
  <2>1. QED  BY <1>0, <1>1, LeastNatural
<1>3. n \in 0..Len(h) /\ ~\E u : Collects(u, h, n)
  BY <1>2
<1>4. n # 0
  <2> DEFINE u == [i \in 0..0 |-> <<>>]
  <2>1. u \in [0..0 -> Seq(Msg)] /\ u[0] = <<>>
    OBVIOUS
  <2> HIDE DEF u
  <2>2. Collects(u, h, 0)
    BY <2>1 DEF Collects
  <2>3. QED  BY <1>3, <2>2
<1>5. n \in 1..Len(h) /\ n - 1 \in 0..Len(h) /\ n - 1 \notin Bad
  <2>1. n \in 1..Len(h) /\ n - 1 \in 0..Len(h) /\ ~(n <= n - 1)
    BY <1>0, <1>3, <1>4
  <2> HIDE DEF Bad
  <2>2. QED  BY <1>2, <2>1
<1>6. PICK u : Collects(u, h, n - 1)
  BY <1>5
<1>7. MessagesAt(h, n) \in Seq(Msg)
  BY <1>5, MessageTypes
<1> HIDE DEF Bad
<1> DEFINE w == [i \in 0..n |-> IF i = n THEN u[n - 1] \o MessagesAt(h, n) ELSE u[i]]
<1>8. u \in [0..(n - 1) -> Seq(Msg)] /\ u[0] = <<>> /\ n \in Nat /\ n > 0
  BY <1>0, <1>5, <1>6 DEF Collects
<1>9. u[n - 1] \in Seq(Msg)
  BY <1>8
<1>10. u[n - 1] \o MessagesAt(h, n) \in Seq(Msg)
  BY <1>7, <1>9
<1>11. \A i \in 0..n : i = n \/ i \in 0..(n - 1)
  BY <1>8
<1>12. w \in [0..n -> Seq(Msg)] /\ w[0] = <<>>
  BY <1>8, <1>10, <1>11
<1>13. ASSUME NEW i \in 1..n PROVE w[i] = w[i - 1] \o MessagesAt(h, i)
  <2>1. CASE i = n
    <3>1. n \in 0..n /\ n - 1 \in 0..n /\ n - 1 # n
      BY <1>8
    <3>2. w[n] = u[n - 1] \o MessagesAt(h, n) /\ w[n - 1] = u[n - 1]
      BY <3>1
    <3> HIDE DEF w
    <3>3. QED  BY <2>1, <3>2
  <2>2. CASE i # n
    <3>1. i \in 1..(n - 1) /\ i \in 0..n /\ i - 1 \in 0..n /\ i - 1 # n
      BY <1>8, <2>2
    <3>2. u[i] = u[i - 1] \o MessagesAt(h, i)
      BY <1>6, <3>1 DEF Collects
    <3>3. w[i] = u[i] /\ w[i - 1] = u[i - 1]
      BY <2>2, <3>1
    <3>4. QED  BY <3>2, <3>3
  <2>3. QED  BY <2>1, <2>2
<1> HIDE DEF w
<1>14. Collects(w, h, n)
  BY <1>12, <1>13 DEF Collects
<1>15. QED  BY <1>3, <1>14

(* history_to_messages collects what each item becomes.                    *)
LEMMA MessagesCollected ==
    ASSUME NEW h \in Seq(Item)
    PROVE  \E u : Collects(u, h, Len(h)) /\ Messages(h) = u[Len(h)]
<1> DEFINE Rule(w) == [i \in 0..Len(h) |-> IF i = 0 THEN <<>> ELSE w[i - 1] \o MessagesAt(h, i)]
           upTo == CHOOSE w : w = Rule(w)
           Bad == {i \in 0..Len(h) : upTo[i] \notin Seq(Msg)}
<1>0. Len(h) \in Nat
  OBVIOUS
<1>1. PICK u : Collects(u, h, Len(h))
  BY CollectionExists
<1>2. u = Rule(u)
  <2>1. \A i \in 0..Len(h) : u[i] = IF i = 0 THEN <<>> ELSE u[i - 1] \o MessagesAt(h, i)
    BY <1>0, <1>1 DEF Collects
  <2>2. u = [i \in 0..Len(h) |-> u[i]]
    BY <1>1 DEF Collects
  <2>3. QED  BY <2>1, <2>2
<1>3. Messages(h) = upTo[Len(h)]
  BY DEF Messages
<1>4. upTo = Rule(upTo)
  <2> HIDE DEF Rule
  <2>1. QED  BY <1>2
<1> HIDE DEF upTo
<1>5. upTo[0] = <<>> /\ DOMAIN upTo = 0..Len(h)
  BY <1>0, <1>4
<1>6. \A i \in 1..Len(h) : upTo[i] = upTo[i - 1] \o MessagesAt(h, i)
  <2>1. SUFFICES ASSUME NEW i \in 1..Len(h) PROVE upTo[i] = upTo[i - 1] \o MessagesAt(h, i)
    OBVIOUS
  <2>2. i \in 0..Len(h) /\ i # 0
    BY <1>0
  <2>3. Rule(upTo)[i] = upTo[i - 1] \o MessagesAt(h, i)
    BY <2>2
  <2>4. QED  BY <1>4, <2>3
<1>7. Bad = {}
  <2>1. SUFFICES ASSUME Bad # {} PROVE FALSE
    OBVIOUS
  <2>2. Bad \in SUBSET Nat
    OBVIOUS
  <2>3. PICK i \in Bad : \A m \in Bad : i <= m
    <3> HIDE DEF Bad
    <3>1. QED  BY <2>1, <2>2, LeastNatural
  <2>4. i \in 0..Len(h) /\ upTo[i] \notin Seq(Msg) /\ i # 0
    BY <1>5, <2>3
  <2>5. i \in 1..Len(h) /\ i - 1 \in 0..Len(h) /\ ~(i <= i - 1)
    BY <1>0, <2>4
  <2>6. upTo[i - 1] \in Seq(Msg)
    BY <2>3, <2>5
  <2>7. MessagesAt(h, i) \in Seq(Msg)
    BY <2>5, MessageTypes
  <2>8. \A a, b \in Seq(Msg) : a \o b \in Seq(Msg)
    OBVIOUS
  <2>9. upTo[i] = upTo[i - 1] \o MessagesAt(h, i)
    BY <1>6, <2>5
  <2>10. QED  BY <2>4, <2>6, <2>7, <2>8, <2>9
<1>8. upTo \in [0..Len(h) -> Seq(Msg)]
  <2>1. upTo = [i \in 0..Len(h) |-> upTo[i]]
    BY <1>4
  <2>2. QED  BY <1>7, <2>1
<1>9. Collects(upTo, h, Len(h))
  BY <1>5, <1>6, <1>8 DEF Collects
<1>10. QED  BY <1>3, <1>9

(* Later items only add messages.                                          *)
Begins(a, b) == Len(a) <= Len(b) /\ \A k \in 1..Len(a) : b[k] = a[k]

LEMMA Grows ==
    ASSUME NEW h \in Seq(Item), NEW u, Collects(u, h, Len(h)), NEW i \in 0..Len(h)
    PROVE  \A j \in i..Len(h) : Begins(u[i], u[j])
<1> DEFINE Extends(j) == Len(u[i]) <= Len(u[j]) /\ \A k \in 1..Len(u[i]) : u[j][k] = u[i][k]
           Bad == {j \in i..Len(h) : ~Extends(j)}
<1>0. Len(h) \in Nat /\ Bad \in SUBSET Nat
  OBVIOUS
<1>1. SUFFICES ASSUME Bad # {} PROVE FALSE
  BY <1>0 DEF Begins
<1>2. PICK j \in Bad : \A m \in Bad : j <= m
  <2> HIDE DEF Bad
  <2>1. QED  BY <1>0, <1>1, LeastNatural
<1>3. j \in i..Len(h) /\ ~Extends(j)
  BY <1>2
<1>4. \A m \in 0..Len(h) : u[m] \in Seq(Msg)
  BY DEF Collects
<1>5. Extends(i)
  BY <1>4
<1>6. j \in 1..Len(h) /\ j - 1 \in i..Len(h) /\ j - 1 \in 0..Len(h) /\ ~(j <= j - 1)
  <2>1. j # i
    <3> HIDE DEF Extends
    <3>1. QED  BY <1>3, <1>5
  <2>2. QED  BY <1>0, <1>3, <2>1
<1>7. Extends(j - 1)
  <2> HIDE DEF Extends
  <2>1. QED  BY <1>2, <1>6
<1>8. u[j] = u[j - 1] \o MessagesAt(h, j)
  BY <1>6 DEF Collects
<1>9. MessagesAt(h, j) \in Seq(Msg) /\ u[j - 1] \in Seq(Msg) /\ u[i] \in Seq(Msg)
  BY <1>4, <1>6, MessageTypes
<1>10. /\ Len(u[j - 1]) <= Len(u[j])
       /\ \A k \in 1..Len(u[j - 1]) : u[j][k] = u[j - 1][k]
  BY <1>8, <1>9
<1>11. Extends(j)
  <2>1. Len(u[i]) \in Nat /\ Len(u[j - 1]) \in Nat /\ u[j] \in Seq(Msg)
    BY <1>4, <1>6, <1>9
  <2>2. Len(u[j]) \in Nat
    BY <2>1
  <2>3. Len(u[i]) <= Len(u[j]) /\ 1..Len(u[i]) \subseteq 1..Len(u[j - 1])
    BY <1>7, <1>10, <2>1, <2>2
  <2>4. QED  BY <1>7, <1>10, <2>3
<1>12. QED  BY <1>3, <1>11

(* What one item adds.                                                     *)
LEMMA OneMore ==
    ASSUME NEW h \in Seq(Item), NEW u, Collects(u, h, Len(h)), NEW i \in 1..Len(h)
    PROVE  /\ u[i] \in Seq(Msg) /\ u[i - 1] \in Seq(Msg)
           /\ Len(u[i]) \in Nat /\ Len(u[i - 1]) \in Nat
           /\ Len(u[i]) = Len(u[i - 1]) + Len(MessagesAt(h, i))
           /\ MessagesAt(h, i) = <<>> => u[i] = u[i - 1]
           /\ \A x \in Msg : MessagesAt(h, i) = <<x>> =>
                 Len(u[i]) = Len(u[i - 1]) + 1 /\ u[i][Len(u[i])] = x
<1>1. u[i] = u[i - 1] \o MessagesAt(h, i)
  BY DEF Collects
<1>2. i \in 0..Len(h) /\ i - 1 \in 0..Len(h)
  OBVIOUS
<1>3. u[i] \in Seq(Msg) /\ u[i - 1] \in Seq(Msg)
  BY <1>2 DEF Collects
<1>4. MessagesAt(h, i) \in Seq(Msg)
  BY MessageTypes
<1>5. Len(u[i]) = Len(u[i - 1]) + Len(MessagesAt(h, i))
  BY <1>1, <1>3, <1>4
<1>6. MessagesAt(h, i) = <<>> => u[i] = u[i - 1]
  BY <1>1, <1>3
<1>7. ASSUME NEW x \in Msg, MessagesAt(h, i) = <<x>>
      PROVE  Len(u[i]) = Len(u[i - 1]) + 1 /\ u[i][Len(u[i])] = x
  BY <1>1, <1>3, <1>7
<1>8. QED  BY <1>3, <1>5, <1>6, <1>7

(* Every message was added by an item.                                     *)
LEMMA AddedBy ==
    ASSUME NEW h \in Seq(Item), NEW u, Collects(u, h, Len(h)),
           NEW k \in 1..Len(u[Len(h)])
    PROVE  \E i \in 1..Len(h) : /\ Len(u[i]) = k /\ Len(u[i - 1]) = k - 1
                                /\ MessagesAt(h, i) = <<u[Len(h)][k]>>
<1> DEFINE S == {i \in 0..Len(h) : k <= Len(u[i])}
<1>0. Len(h) \in Nat /\ \A i \in 0..Len(h) : u[i] \in Seq(Msg)
  <2>1. \A i \in 0..Len(h) : u[i] \in Seq(Msg)
    BY DEF Collects
  <2>2. QED  BY <2>1
<1>1. S \in SUBSET Nat /\ Len(h) \in S
  <2>1. Len(h) \in 0..Len(h)
    BY <1>0
  <2>2. Len(u[Len(h)]) \in Nat
    BY <1>0, <2>1
  <2>3. QED  BY <2>1, <2>2
<1>2. PICK i \in S : \A m \in S : i <= m
  <2> HIDE DEF S
  <2>1. QED  BY <1>1, LeastNatural
<1>3. i \in 0..Len(h) /\ k <= Len(u[i]) /\ i # 0
  <2>1. u[0] = <<>> /\ Len(<<>>) = 0
    BY DEF Collects
  <2>2. k \in Nat /\ k >= 1
    OBVIOUS
  <2>3. QED  BY <1>2, <2>1, <2>2
<1>4. i \in 1..Len(h) /\ i - 1 \in 0..Len(h) /\ ~(i <= i - 1)
  BY <1>0, <1>3
<1>5. ~(k <= Len(u[i - 1]))
  <2>1. i - 1 \notin S
    <3> HIDE DEF S
    <3>1. QED  BY <1>2, <1>4
  <2>2. QED  BY <1>4, <2>1
<1>6. MessagesAt(h, i) = <<>> \/ \E x \in Msg : MessagesAt(h, i) = <<x>>
  BY <1>4, ItemMessage
<1>7. Len(u[i]) \in Nat /\ Len(u[i - 1]) \in Nat /\ (MessagesAt(h, i) = <<>> => u[i] = u[i - 1])
  BY <1>4, OneMore
<1>8. PICK x \in Msg : MessagesAt(h, i) = <<x>>
  BY <1>3, <1>5, <1>6, <1>7
<1>9. Len(u[i]) = Len(u[i - 1]) + 1 /\ u[i][Len(u[i])] = x
  BY <1>4, <1>8, OneMore
<1>10. Len(u[i]) = k /\ Len(u[i - 1]) = k - 1
  BY <1>3, <1>5, <1>7, <1>9
<1>11. Len(h) \in i..Len(h) /\ i \in 0..Len(h) /\ k \in 1..Len(u[i])
  BY <1>0, <1>4, <1>10
<1>12. u[Len(h)][k] = u[i][k]
  BY <1>11, Grows DEF Begins
<1>13. QED  BY <1>4, <1>8, <1>9, <1>10, <1>12

-----------------------------------------------------------------------------
(* The calls of a complete exchange make one message and each observation  *)
(* one, which follow each other.                                           *)
LEMMA ExchangeMessages ==
    ASSUME NEW h \in Seq(Item), NEW u, Collects(u, h, Len(h)),
           NEW s \in 1..Len(h), Complete(h, s)
    PROVE  /\ Len(u[s]) \in 1..Len(u[Len(h)])
           /\ u[Len(h)][Len(u[s])] = CallsMessage(h, s)
           /\ \A i \in FirstObs(h, s)..(Beyond(h, s) - 1) :
                 /\ Len(u[i]) = Len(u[s]) + (i - FirstObs(h, s) + 1)
                 /\ Len(u[i]) \in 1..Len(u[Len(h)])
                 /\ u[Len(h)][Len(u[i])] = Message("tool", <<h[i].call>>, FALSE)
           /\ Len(u[Beyond(h, s) - 1]) = Len(u[s]) + (Beyond(h, s) - FirstObs(h, s))
<1> DEFINE first == FirstObs(h, s)
           beyond == Beyond(h, s)
           n == Len(h)
           k == Len(u[s])
           Quiet(i) == Len(u[i]) = k
           Counts(i) == Len(u[i]) = k + (i - first + 1)
           Silent == {i \in s..(first - 1) : ~Quiet(i)}
           Wrong == {i \in (first - 1)..(beyond - 1) : ~Counts(i)}
<1>0. n \in Nat /\ h[s].kind = "Call"
  BY DEF Complete, ExchangeStarts
<1>1. /\ first \in (s + 1)..(n + 1) /\ beyond \in first..(n + 1)
      /\ \A i \in s..(first - 1) : h[i].kind = "Call"
      /\ \A i \in first..(beyond - 1) : h[i].kind = "Obs"
      /\ CallsOf(h, s) = s..(first - 1) /\ ObservationsOf(h, s) = first..(beyond - 1)
  BY <1>0, ExchangeShape
<1>2. MessagesAt(h, s) = <<CallsMessage(h, s)>> /\ CallsMessage(h, s) \in Msg
  BY <1>0, ItemMessage
<1>3. /\ k = Len(u[s - 1]) + 1 /\ u[s][k] = CallsMessage(h, s)
      /\ k \in Nat /\ Len(u[s - 1]) \in Nat
  BY <1>2, OneMore
<1>4. ASSUME NEW i \in 1..n, NEW p \in 1..Len(u[i])
      PROVE  p \in 1..Len(u[n]) /\ u[n][p] = u[i][p]
  <2>1. i \in 0..n /\ n \in i..n /\ n \in 1..n
    BY <1>0
  <2>2. Len(u[i]) <= Len(u[n]) /\ u[n][p] = u[i][p]
    BY <2>1, Grows DEF Begins
  <2>3. Len(u[i]) \in Nat /\ Len(u[n]) \in Nat
    BY <2>1, OneMore
  <2>4. QED  BY <2>2, <2>3
<1> HIDE DEF first, beyond
<1>5. ASSUME NEW i \in s..(first - 1) PROVE Quiet(i)
  <2>1. SUFFICES ASSUME Silent # {} PROVE FALSE
    BY <1>5
  <2>2. Silent \in SUBSET Nat
    OBVIOUS
  <2>3. PICK j \in Silent : \A m \in Silent : j <= m
    <3> HIDE DEF Silent
    <3>1. QED  BY <2>1, <2>2, LeastNatural
  <2>4. j \in s..(first - 1) /\ ~Quiet(j) /\ j # s
    BY <1>3, <2>3
  <2>5. j \in (s + 1)..(first - 1) /\ j - 1 \in s..(first - 1) /\ ~(j <= j - 1) /\ j \in 1..n
    BY <1>0, <1>1, <2>4
  <2>6. Quiet(j - 1)
    <3>1. j - 1 \notin Silent
      <4> HIDE DEF Silent
      <4>1. QED  BY <2>3, <2>5
    <3>2. QED  BY <2>5, <3>1
  <2>7. h[j].kind = "Call" /\ h[j - 1].kind = "Call" /\ j # 1
    BY <1>1, <2>4, <2>5
  <2>8. MessagesAt(h, j) = <<>>
    BY <2>7 DEF MessagesAt, ExchangeStarts
  <2>9. u[j] = u[j - 1]
    BY <2>5, <2>8, OneMore
  <2>10. QED  BY <2>4, <2>6, <2>9
<1>6. ASSUME NEW i \in first..(beyond - 1)
      PROVE  /\ i \in 1..n /\ Len(u[i]) = Len(u[i - 1]) + 1 /\ Len(u[i - 1]) \in Nat
             /\ u[i][Len(u[i])] = Message("tool", <<h[i].call>>, FALSE)
  <2>1. i \in 1..n /\ s \in 1..i /\ h[i].kind = "Obs"
    BY <1>0, <1>1
  <2>2. InCompleteExchange(h, i)
    BY <1>1, <2>1 DEF InCompleteExchange, Complete
  <2>3. /\ MessagesAt(h, i) = <<Message("tool", <<h[i].call>>, FALSE)>>
        /\ Message("tool", <<h[i].call>>, FALSE) \in Msg
    BY <2>1, <2>2, AnswerMessage
  <2>4. \A x \in Msg : MessagesAt(h, i) = <<x>> => /\ Len(u[i]) = Len(u[i - 1]) + 1
                                                  /\ u[i][Len(u[i])] = x
    BY <2>1, OneMore
  <2>5. Len(u[i - 1]) \in Nat
    BY <2>1, OneMore
  <2>6. QED  BY <2>1, <2>3, <2>4, <2>5
<1>7. ASSUME NEW i \in (first - 1)..(beyond - 1) PROVE Counts(i)
  <2>1. SUFFICES ASSUME Wrong # {} PROVE FALSE
    BY <1>7
  <2>2. Wrong \in SUBSET Nat
    BY <1>1
  <2>3. PICK j \in Wrong : \A m \in Wrong : j <= m
    <3> HIDE DEF Wrong
    <3>1. QED  BY <2>1, <2>2, LeastNatural
  <2>4. j \in (first - 1)..(beyond - 1) /\ ~Counts(j)
    BY <2>3
  <2>5. Counts(first - 1)
    <3>1. first - 1 \in s..(first - 1) /\ (first - 1) - first + 1 = 0
      BY <1>1
    <3>2. QED  BY <1>3, <1>5, <3>1
  <2>6. j \in first..(beyond - 1) /\ j - 1 \in (first - 1)..(beyond - 1) /\ ~(j <= j - 1)
    <3>1. j # first - 1
      <4> HIDE DEF Counts
      <4>1. QED  BY <2>4, <2>5
    <3>2. QED  BY <1>1, <2>4, <3>1
  <2>7. Counts(j - 1)
    <3>1. j - 1 \notin Wrong
      <4> HIDE DEF Wrong
      <4>1. QED  BY <2>3, <2>6
    <3>2. QED  BY <2>6, <3>1
  <2>8. Len(u[j]) = Len(u[j - 1]) + 1
    BY <1>6, <2>6
  <2>9. j \in Int /\ first \in Int /\ k \in Int
    BY <1>1, <1>3, <2>6
  <2>10. Len(u[j - 1]) = k + ((j - 1) - first + 1)
    BY <2>7
  <2>11. Len(u[j]) = k + (j - first + 1)
    <3> HIDE DEF k, Wrong, Silent
    <3>1. QED  BY <2>8, <2>9, <2>10
  <2>12. QED  BY <2>4, <2>11
<1>8. k \in 1..Len(u[s])
  BY <1>3
<1>9. k \in 1..Len(u[n]) /\ u[n][k] = CallsMessage(h, s)
  BY <1>3, <1>4, <1>8
<1>10. ASSUME NEW i \in first..(beyond - 1)
       PROVE  /\ Len(u[i]) = k + (i - first + 1) /\ Len(u[i]) \in 1..Len(u[n])
              /\ u[n][Len(u[i])] = Message("tool", <<h[i].call>>, FALSE)
  <2>1. i \in (first - 1)..(beyond - 1)
    BY <1>1
  <2>2. Len(u[i]) = k + (i - first + 1)
    BY <1>7, <2>1
  <2>3. i \in 1..n /\ Len(u[i]) = Len(u[i - 1]) + 1 /\ Len(u[i - 1]) \in Nat
    BY <1>6
  <2>4. Len(u[i]) \in 1..Len(u[i])
    BY <2>3
  <2>5. u[i][Len(u[i])] = Message("tool", <<h[i].call>>, FALSE)
    BY <1>6
  <2>6. QED  BY <1>4, <2>2, <2>3, <2>4, <2>5
<1>11. Len(u[beyond - 1]) = k + (beyond - first)
  <2>1. beyond - 1 \in (first - 1)..(beyond - 1) /\ (beyond - 1) - first + 1 = beyond - first
    BY <1>1
  <2>2. QED  BY <1>7, <2>1
<1>12. QED  BY <1>9, <1>10, <1>11 DEF first, beyond

(* After the last answer comes no other.                                   *)
LEMMA ExchangeEnds ==
    ASSUME NEW h \in Seq(Item), NEW u, Collects(u, h, Len(h)),
           NEW s \in 1..Len(h), Complete(h, s),
           NEW k \in 1..Len(u[Len(h)]),
           k = Len(u[s]) + (Beyond(h, s) - FirstObs(h, s)) + 1
    PROVE  u[Len(h)][k].role # "tool"
<1> DEFINE first == FirstObs(h, s)
           beyond == Beyond(h, s)
           n == Len(h)
<1>0. n \in Nat /\ h[s].kind = "Call" /\ (s = 1 \/ h[s - 1].kind # "Call")
  BY DEF Complete, ExchangeStarts
<1>1. /\ first \in (s + 1)..(n + 1) /\ beyond \in first..(n + 1)
      /\ \A i \in s..(first - 1) : h[i].kind = "Call"
      /\ \A i \in first..(beyond - 1) : h[i].kind = "Obs"
  BY <1>0, ExchangeShape
<1>2. Len(u[beyond - 1]) = k - 1
  <2>1. Len(u[s]) \in Nat
    BY ExchangeMessages
  <2>2. Len(u[beyond - 1]) = Len(u[s]) + (beyond - first)
    BY ExchangeMessages
  <2> HIDE DEF first, beyond
  <2>3. QED  BY <1>1, <2>1, <2>2 DEF first, beyond
<1>3. SUFFICES ASSUME u[n][k].role = "tool" PROVE FALSE
  OBVIOUS
<1>4. PICK i \in 1..n : Len(u[i]) = k /\ Len(u[i - 1]) = k - 1 /\ MessagesAt(h, i) = <<u[n][k]>>
  BY AddedBy
<1>5. h[i].kind = "Obs" /\ InCompleteExchange(h, i)
  <2>1. \A x, y : <<x>> = <<y>> => x = y
    OBVIOUS
  <2>2. CallsMessage(h, i).role = "assistant"
    BY DEF CallsMessage, Message
  <2>3. MessagesAt(h, i) # <<>>
    BY <1>4
  <2>4. QED  BY <1>3, <1>4, <2>1, <2>2, <2>3, ItemMessage
<1>6. PICK r \in 1..i : Complete(h, r) /\ i \in CallsOf(h, r) \cup ObservationsOf(h, r)
  BY <1>5 DEF InCompleteExchange, Complete
<1>7. r \in 1..n /\ h[r].kind = "Call" /\ (r = 1 \/ h[r - 1].kind # "Call")
  BY <1>0, <1>6 DEF Complete, ExchangeStarts
<1>8. /\ FirstObs(h, r) \in (r + 1)..(n + 1) /\ Beyond(h, r) \in FirstObs(h, r)..(n + 1)
      /\ \A j \in r..(FirstObs(h, r) - 1) : h[j].kind = "Call"
      /\ \A j \in FirstObs(h, r)..(Beyond(h, r) - 1) : h[j].kind = "Obs"
      /\ i \in r..(FirstObs(h, r) - 1) \/ i \in FirstObs(h, r)..(Beyond(h, r) - 1)
  BY <1>6, <1>7, ExchangeShape
<1> HIDE DEF first, beyond
<1>9. i \in beyond..n
  <2>1. SUFFICES ASSUME i < beyond PROVE FALSE
    BY <1>0, <1>1
  <2>2. i \in 0..n /\ beyond - 1 \in i..n
    BY <1>0, <1>1, <2>1
  <2>3. Len(u[i]) <= Len(u[beyond - 1])
    BY <2>2, Grows DEF Begins
  <2>4. QED  BY <1>2, <1>4, <2>3
<1>10. r >= beyond
  <2>1. SUFFICES ASSUME r < beyond PROVE FALSE
    BY <1>0, <1>1
  <2>2. CASE r < s
    <3>1. i \in FirstObs(h, r)..(Beyond(h, r) - 1)
      BY <1>5, <1>8
    <3>2. s \in r..(Beyond(h, r) - 1) /\ s - 1 \in r..(Beyond(h, r) - 1) /\ s # 1
      <4>1. s < beyond /\ beyond <= i /\ beyond \in Int /\ i \in Int /\ r \in Int
        BY <1>0, <1>1, <1>7, <1>9
      <4>2. i < Beyond(h, r) /\ Beyond(h, r) \in Int
        BY <1>0, <1>7, <1>8, <3>1
      <4>3. QED  BY <1>7, <2>2, <4>1, <4>2
    <3>3. s \in r..(FirstObs(h, r) - 1)
      <4>1. s \in r..(FirstObs(h, r) - 1) \/ s \in FirstObs(h, r)..(Beyond(h, r) - 1)
        BY <1>7, <1>8, <3>2
      <4>2. s \notin FirstObs(h, r)..(Beyond(h, r) - 1)
        BY <1>0, <1>8
      <4>3. QED  BY <4>1, <4>2
    <3>4. s - 1 \in r..(FirstObs(h, r) - 1)
      BY <1>8, <3>2, <3>3
    <3>5. QED  BY <1>0, <1>8, <3>2, <3>4
  <2>3. CASE r = s
    <3>1. i \in s..(first - 1) \/ i \in first..(beyond - 1)
      BY <1>8, <2>3 DEF first, beyond
    <3>2. QED  BY <1>1, <1>9, <3>1
  <2>4. CASE r > s /\ r < first
    <3>1. r - 1 \in s..(first - 1) /\ r # 1
      BY <1>1, <2>4
    <3>2. QED  BY <1>1, <1>7, <3>1
  <2>5. CASE r >= first
    <3>1. r \in first..(beyond - 1)
      BY <1>1, <2>1, <2>5
    <3>2. QED  BY <1>1, <1>7, <3>1
  <2>6. QED  BY <1>1, <2>2, <2>3, <2>4, <2>5
<1>11. MessagesAt(h, r) = <<CallsMessage(h, r)>> /\ CallsMessage(h, r) \in Msg
  BY <1>6, <1>7, ItemMessage
<1>12. Len(u[r]) = Len(u[r - 1]) + 1 /\ Len(u[r - 1]) \in Nat
  <2>1. \A x \in Msg : MessagesAt(h, r) = <<x>> => Len(u[r]) = Len(u[r - 1]) + 1
    BY <1>7, OneMore
  <2>2. Len(u[r - 1]) \in Nat
    BY <1>7, OneMore
  <2>3. QED  BY <1>11, <2>1, <2>2
<1>13. Len(u[beyond - 1]) <= Len(u[r - 1])
  <2>1. beyond - 1 \in 0..n /\ r - 1 \in (beyond - 1)..n
    BY <1>0, <1>1, <1>7, <1>10
  <2>2. QED  BY <2>1, Grows DEF Begins
<1>14. Len(u[r]) <= Len(u[i - 1])
  <2>1. r # i
    BY <1>5, <1>7
  <2>2. r \in 0..n /\ i - 1 \in r..n
    BY <1>6, <1>7, <2>1
  <2>3. QED  BY <2>2, Grows DEF Begins
<1>15. QED  BY <1>2, <1>4, <1>12, <1>13, <1>14

-----------------------------------------------------------------------------
(* The messages of any history are legal.                                  *)
LEMMA LegalMessages ==
    ASSUME NEW h \in Seq(Item)
    PROVE  LET m == Messages(h)
               Answers(i) == {j \in (i + 1)..Len(m) : \A k \in (i + 1)..j : m[k].role = "tool"}
               Callers == {i \in DOMAIN m : m[i].role = "assistant" /\ m[i].calls # <<>>}
           IN  /\ \A j \in DOMAIN m : m[j].role = "tool" => \E i \in Callers : j \in Answers(i)
               /\ \A i \in Callers :
                      /\ Cardinality(Answers(i)) = Len(m[i].calls)
                      /\ \A c \in Range(m[i].calls) : \E j \in Answers(i) : m[j].calls = <<c>>
<1> DEFINE m == Messages(h)
           Answers(i) == {j \in (i + 1)..Len(m) : \A k \in (i + 1)..j : m[k].role = "tool"}
           Callers == {i \in DOMAIN m : m[i].role = "assistant" /\ m[i].calls # <<>>}
<1>1. PICK u : Collects(u, h, Len(h)) /\ m = u[Len(h)]
  BY MessagesCollected
<1>2. Len(h) \in Nat /\ m \in Seq(Msg) /\ Len(m) \in Nat /\ DOMAIN m = 1..Len(m)
  <2>1. Len(h) \in Nat /\ Len(h) \in 0..Len(h)
    OBVIOUS
  <2>2. m \in Seq(Msg)
    BY <1>1, <2>1 DEF Collects
  <2> HIDE DEF m
  <2>3. QED  BY <2>1, <2>2
<1> HIDE DEF m
\* An exchange: its caller, and its answers.
<1>3. ASSUME NEW s \in 1..Len(h), Complete(h, s)
      PROVE  /\ Len(u[s]) \in Callers
             /\ m[Len(u[s])] = CallsMessage(h, s)
             /\ Beyond(h, s) - FirstObs(h, s) \in Nat
             /\ Beyond(h, s) - FirstObs(h, s) = FirstObs(h, s) - s
             /\ Answers(Len(u[s])) = (Len(u[s]) + 1)..(Len(u[s]) + (Beyond(h, s) - FirstObs(h, s)))
             /\ \A i \in FirstObs(h, s)..(Beyond(h, s) - 1) :
                   /\ Len(u[i]) \in Answers(Len(u[s]))
                   /\ m[Len(u[i])].calls = <<h[i].call>>
  <2> DEFINE first == FirstObs(h, s)
             beyond == Beyond(h, s)
             k == Len(u[s])
             n == beyond - first
  <2>1. h[s].kind = "Call"
    BY <1>3 DEF Complete, ExchangeStarts
  <2>2. first \in (s + 1)..(Len(h) + 1) /\ beyond \in first..(Len(h) + 1)
    BY <2>1, ExchangeShape
  <2>3. n \in Nat /\ n = first - s /\ n > 0
    <3>1. first - s = beyond - first
      BY <1>3 DEF Complete, ExchangeComplete, FirstObs, Beyond
    <3> HIDE DEF first, beyond
    <3>2. QED  BY <1>2, <2>2, <3>1
  <2>4. /\ k \in 1..Len(m) /\ m[k] = CallsMessage(h, s)
        /\ \A i \in first..(beyond - 1) : /\ Len(u[i]) = k + (i - first + 1)
                                          /\ Len(u[i]) \in 1..Len(m)
                                          /\ m[Len(u[i])] = Message("tool", <<h[i].call>>, FALSE)
    BY <1>1, <1>3, ExchangeMessages
  <2>5. \A p \in 1..Len(m) : p = k + n + 1 => m[p].role # "tool"
    BY <1>1, <1>3, ExchangeEnds
  <2>6. k \in Callers
    <3>1. m[k].role = "assistant" /\ m[k].calls = [c \in 1..(first - s) |-> h[s + c - 1].call]
      BY <2>4 DEF CallsMessage, Message
    <3>2. 1 \in 1..(first - s)
      BY <2>3
    <3>3. m[k].calls # <<>>
      <4>1. DOMAIN m[k].calls = 1..(first - s)
        BY <3>1
      <4>2. DOMAIN <<>> = {}
        OBVIOUS
      <4>3. QED  BY <3>2, <4>1, <4>2
    <3>4. QED  BY <1>2, <2>4, <3>1, <3>3
  <2> HIDE DEF first, beyond, k
  <2>7. ASSUME NEW p \in (k + 1)..(k + n) PROVE p \in 1..Len(m) /\ m[p].role = "tool"
    <3> DEFINE i == first + (p - k) - 1
    <3>1. i \in first..(beyond - 1) /\ k + (i - first + 1) = p
      BY <1>2, <2>2, <2>3, <2>4
    <3> HIDE DEF i
    <3>2. Len(u[i]) = p /\ Len(u[i]) \in 1..Len(m) /\ m[Len(u[i])] = Message("tool", <<h[i].call>>, FALSE)
      BY <2>4, <3>1
    <3>3. QED  BY <3>2 DEF Message
  <2>8. k \in Nat /\ k + n <= Len(m)
    <3>1. k + n \in (k + 1)..(k + n)
      BY <2>3, <2>4
    <3>2. QED  BY <1>2, <2>4, <2>7, <3>1
  <2>9. Answers(k) = (k + 1)..(k + n)
    <3>1. ASSUME NEW j \in (k + 1)..(k + n) PROVE j \in Answers(k)
      <4>1. j \in (k + 1)..Len(m)
        BY <1>2, <2>3, <2>8
      <4>2. \A q \in (k + 1)..j : q \in (k + 1)..(k + n)
        BY <2>3, <2>8
      <4>3. QED  BY <2>7, <4>1, <4>2
    <3>2. ASSUME NEW j \in Answers(k) PROVE j \in (k + 1)..(k + n)
      <4>1. j \in (k + 1)..Len(m) /\ \A q \in (k + 1)..j : m[q].role = "tool"
        OBVIOUS
      <4>2. SUFFICES ASSUME j > k + n PROVE FALSE
        BY <2>3, <2>8, <4>1
      <4>3. k + n + 1 \in (k + 1)..j /\ k + n + 1 \in 1..Len(m)
        BY <1>2, <2>3, <2>8, <4>1, <4>2
      <4>4. QED  BY <2>5, <4>1, <4>3
    <3> HIDE DEF Answers
    <3>3. QED  BY <3>1, <3>2
  <2>10. ASSUME NEW i \in first..(beyond - 1)
         PROVE  Len(u[i]) \in Answers(k) /\ m[Len(u[i])].calls = <<h[i].call>>
    <3>1. Len(u[i]) = k + (i - first + 1) /\ m[Len(u[i])] = Message("tool", <<h[i].call>>, FALSE)
      BY <2>4
    <3>2. k + (i - first + 1) \in (k + 1)..(k + n)
      BY <1>2, <2>2, <2>8
    <3> HIDE DEF Answers
    <3>3. QED  BY <2>9, <3>1, <3>2 DEF Message
  <2> HIDE DEF Answers, Callers
  <2>11. QED  BY <2>3, <2>4, <2>6, <2>9, <2>10 DEF first, beyond, k
\* Who adds a message.
<1>4. ASSUME NEW j \in 1..Len(m)
      PROVE  \E i \in 1..Len(h) : Len(u[i]) = j /\ MessagesAt(h, i) = <<m[j]>>
  BY <1>1, AddedBy
<1>5. \A x, y : <<x>> = <<y>> => x = y
  OBVIOUS
<1>6. \A x : <<x>> # <<>>
  OBVIOUS
<1>7. ASSUME NEW j \in DOMAIN m, m[j].role = "tool" PROVE \E i \in Callers : j \in Answers(i)
  <2>1. PICK i \in 1..Len(h) : Len(u[i]) = j /\ MessagesAt(h, i) = <<m[j]>>
    BY <1>2, <1>4
  <2>2. CallsMessage(h, i).role = "assistant"
    BY DEF CallsMessage, Message
  <2>3. h[i].kind = "Obs" /\ InCompleteExchange(h, i)
    BY <1>5, <1>6, <1>7, <2>1, <2>2, ItemMessage
  <2>4. PICK s \in 1..i : Complete(h, s) /\ i \in CallsOf(h, s) \cup ObservationsOf(h, s)
    BY <2>3 DEF InCompleteExchange, Complete
  <2>5. s \in 1..Len(h) /\ h[s].kind = "Call"
    BY <1>2, <2>4 DEF Complete, ExchangeStarts
  <2>6. i \in FirstObs(h, s)..(Beyond(h, s) - 1)
    <3>1. /\ \A r \in s..(FirstObs(h, s) - 1) : h[r].kind = "Call"
          /\ CallsOf(h, s) = s..(FirstObs(h, s) - 1)
          /\ ObservationsOf(h, s) = FirstObs(h, s)..(Beyond(h, s) - 1)
      BY <2>5, ExchangeShape
    <3>2. i \notin s..(FirstObs(h, s) - 1)
      BY <2>3, <3>1
    <3>3. QED  BY <2>4, <3>1, <3>2
  <2> HIDE DEF Answers, Callers
  <2>7. Len(u[s]) \in Callers /\ j \in Answers(Len(u[s]))
    BY <1>3, <2>1, <2>4, <2>5, <2>6
  <2>8. QED  BY <2>7
<1>8. ASSUME NEW j \in Callers
      PROVE  /\ Cardinality(Answers(j)) = Len(m[j].calls)
             /\ \A c \in Range(m[j].calls) : \E k \in Answers(j) : m[k].calls = <<c>>
  <2>1. j \in 1..Len(m) /\ m[j].role = "assistant" /\ m[j].calls # <<>>
    BY <1>2
  <2>2. PICK s \in 1..Len(h) : Len(u[s]) = j /\ MessagesAt(h, s) = <<m[j]>>
    BY <1>4, <2>1
  <2>3. Complete(h, s)
    <3>1. Message("tool", <<h[s].call>>, FALSE).role = "tool"
      BY DEF Message
    <3>2. QED  BY <1>5, <1>6, <2>1, <2>2, <3>1, ItemMessage
  <2> DEFINE first == FirstObs(h, s)
             beyond == Beyond(h, s)
             n == beyond - first
  <2>4. /\ m[j] = CallsMessage(h, s) /\ n \in Nat /\ n = first - s
        /\ Answers(j) = (j + 1)..(j + n)
        /\ \A i \in first..(beyond - 1) : Len(u[i]) \in Answers(j) /\ m[Len(u[i])].calls = <<h[i].call>>
    BY <1>3, <2>2, <2>3
  <2>5. m[j].calls = [c \in 1..n |-> h[s + c - 1].call]
    BY <2>4 DEF CallsMessage, Message
  <2>6. /\ CallsOf(h, s) = s..(first - 1) /\ ObservationsOf(h, s) = first..(beyond - 1)
        /\ first \in (s + 1)..(Len(h) + 1)
    BY <2>3, ExchangeShape DEF Complete, ExchangeStarts
  <2>7. \A c \in s..(first - 1) : \E o \in first..(beyond - 1) : h[o].call = h[c].call
    BY <2>3, <2>6 DEF Complete, ExchangeComplete
  <2> HIDE DEF Answers, Callers, first, beyond, n
  <2>8. Len(m[j].calls) = n
    BY <2>4, <2>5
  <2>9. Cardinality((j + 1)..(j + n)) = n
    <3>1. j + 1 \in Int /\ j + n \in Int
      BY <2>1, <2>4
    <3>2. Cardinality((j + 1)..(j + n)) = IF j + 1 > j + n THEN 0 ELSE (j + n) - (j + 1) + 1
      BY <3>1, FS_Interval
    <3>3. QED  BY <2>1, <2>4, <3>2
  <2>10. ASSUME NEW c \in Range(m[j].calls) PROVE \E k \in Answers(j) : m[k].calls = <<c>>
    <3>1. PICK x \in 1..n : c = h[s + x - 1].call
      BY <2>5 DEF Range
    <3>2. s + x - 1 \in s..(first - 1)
      BY <2>4, <2>6
    <3>3. PICK o \in first..(beyond - 1) : h[o].call = c
      BY <2>7, <3>1, <3>2
    <3>4. QED  BY <2>4, <3>3
  <2>11. QED  BY <2>4, <2>8, <2>9, <2>10
<1> HIDE DEF Answers, Callers
<1>9. QED  BY <1>7, <1>8 DEF Answers, Callers, m

-----------------------------------------------------------------------------
(* What a compaction leaves: item i of it was item i + f - 2.              *)
Cut(h, f) == <<SummaryItem>> \o SubSeq(h, f, Len(h))

LEMMA CutItems ==
    ASSUME NEW h \in Seq(Item), NEW f \in 2..Len(h)
    PROVE  /\ Cut(h, f) \in Seq(Item)
           /\ Len(Cut(h, f)) = Len(h) - f + 2
           /\ Cut(h, f)[1] = SummaryItem /\ SummaryItem.kind = "Summary"
           /\ \A i \in 2..(Len(h) - f + 2) : Cut(h, f)[i] = h[i + f - 2]
<1> DEFINE rest == SubSeq(h, f, Len(h))
<1>1. SummaryItem \in Item /\ SummaryItem.kind = "Summary"
  BY DEF SummaryItem, Say, Item, Kinds
<1>2. Len(h) \in Nat /\ f \in Nat /\ f - 1 \in Nat
  OBVIOUS
<1>3. /\ rest \in Seq(Item) /\ Len(rest) = Len(h) - f + 1
      /\ \A i \in 1..(Len(h) - f + 1) : rest[i] = h[f + i - 1]
  BY <1>2
<1> HIDE DEF rest
<1>4. <<SummaryItem>> \in Seq(Item) /\ Len(<<SummaryItem>>) = 1 /\ <<SummaryItem>>[1] = SummaryItem
  BY <1>1
<1>5. Cut(h, f) = <<SummaryItem>> \o rest
  BY DEF Cut, rest
<1>6. Cut(h, f) \in Seq(Item) /\ Len(Cut(h, f)) = 1 + Len(rest)
  <2>1. \A a, b \in Seq(Item) : a \o b \in Seq(Item) /\ Len(a \o b) = Len(a) + Len(b)
    BY ConcatProperties
  <2>2. QED  BY <1>3, <1>4, <1>5, <2>1
<1>7. /\ Cut(h, f)[1] = SummaryItem
      /\ \A i \in 2..(1 + Len(rest)) : Cut(h, f)[i] = rest[i - 1]
  BY <1>3, <1>4, <1>5, <1>6
<1>8. ASSUME NEW i \in 2..(Len(h) - f + 2) PROVE Cut(h, f)[i] = h[i + f - 2]
  <2>1. i \in 2..(1 + Len(rest)) /\ i - 1 \in 1..(Len(h) - f + 1) /\ f + (i - 1) - 1 = i + f - 2
    BY <1>2, <1>3
  <2>2. QED  BY <1>3, <1>7, <2>1
<1>9. QED  BY <1>1, <1>2, <1>3, <1>6, <1>7, <1>8

LEMMA CutWalkOn ==
    ASSUME NEW h \in Seq(Item), NEW f \in 2..Len(h),
           NEW i \in 2..(Len(h) - f + 3), NEW kind
    PROVE  /\ WalkOn(h, i + f - 2, kind) = WalkOn(Cut(h, f), i, kind) + f - 2
           /\ WalkOn(Cut(h, f), i, kind) \in i..(Len(h) - f + 3)
<1> DEFINE g == Cut(h, f)
           j == WalkOn(g, i, kind)
<1>1. /\ g \in Seq(Item) /\ Len(g) = Len(h) - f + 2
      /\ \A m \in 2..(Len(h) - f + 2) : g[m] = h[m + f - 2]
  BY CutItems
<1>2. Len(h) \in Nat /\ f \in Nat /\ i \in Nat /\ i \in 1..(Len(g) + 1)
  BY <1>1
<1> HIDE DEF g
<1>3. /\ j \in i..(Len(g) + 1)
      /\ \A m \in i..(j - 1) : g[m].kind = kind
      /\ j = Len(g) + 1 \/ g[j].kind # kind
  <2>1. g \in Seq(Item) /\ i \in 1..(Len(g) + 1)
    BY <1>1, <1>2
  <2>2. QED  BY <2>1, WalkOnProperties
<1> HIDE DEF j
<1>4. /\ i + f - 2 \in 1..(Len(h) + 1) /\ j \in i..(Len(h) - f + 3)
      /\ j + f - 2 \in (i + f - 2)..(Len(h) + 1)
  BY <1>1, <1>2, <1>3
<1>5. ASSUME NEW m \in (i + f - 2)..(j + f - 3) PROVE h[m].kind = kind
  <2>1. m - f + 2 \in i..(j - 1) /\ m - f + 2 \in 2..(Len(h) - f + 2) /\ (m - f + 2) + f - 2 = m
    BY <1>2, <1>4
  <2>2. QED  BY <1>1, <1>3, <2>1
<1>6. j + f - 2 = Len(h) + 1 \/ h[j + f - 2].kind # kind
  <2>1. CASE j = Len(g) + 1
    BY <1>1, <1>2, <2>1
  <2>2. CASE j # Len(g) + 1
    <3>1. j # Len(h) - f + 3 /\ i >= 2
      BY <1>1, <1>2, <2>2
    <3>2. j \in 2..(Len(h) - f + 2)
      BY <1>2, <1>4, <3>1
    <3>3. QED  BY <1>1, <1>3, <2>2, <3>2
  <2>3. QED  BY <2>1, <2>2
<1>7. (j + f - 2) - 1 = j + f - 3
  BY <1>2, <1>4
<1>8. WalkOn(h, i + f - 2, kind) = j + f - 2
  BY <1>4, <1>5, <1>6, <1>7, WalkOnUnique
<1>9. QED  BY <1>4, <1>8 DEF j, g

LEMMA CutStarts ==
    ASSUME NEW h \in Seq(Item), NEW f \in 2..Len(h), Edge(h, f), NEW i \in 2..(Len(h) - f + 3)
    PROVE  ExchangeStarts(Cut(h, f), i) <=> ExchangeStarts(h, i + f - 2)
<1> DEFINE g == Cut(h, f)
<1>1. /\ Len(g) = Len(h) - f + 2
      /\ g[1] = SummaryItem /\ SummaryItem.kind = "Summary"
      /\ \A m \in 2..(Len(h) - f + 2) : g[m] = h[m + f - 2]
  BY CutItems
<1>2. Len(h) \in Nat /\ f \in Nat /\ i \in Nat
  OBVIOUS
<1> HIDE DEF g
<1>3. CASE i = Len(h) - f + 3
  BY <1>1, <1>2, <1>3 DEF ExchangeStarts, g
<1>4. CASE i = 2
  <2>1. 2 + f - 2 = f /\ (2 + f - 2) - 1 = f - 1 /\ 2 - 1 = 1 /\ f # 1 /\ f > 1
    BY <1>2
  <2>2. 2 \in 1..Len(g) /\ f \in 1..Len(h) /\ g[2] = h[f]
    BY <1>1, <1>2, <2>1
  <2>3. h[f].kind = "Call" => h[f - 1].kind # "Call"
    BY <2>1 DEF Edge
  <2>4. ExchangeStarts(g, 2) <=> h[f].kind = "Call"
    BY <1>1, <2>1, <2>2 DEF ExchangeStarts
  <2>5. ExchangeStarts(h, f) <=> h[f].kind = "Call"
    BY <2>1, <2>2, <2>3 DEF ExchangeStarts
  <2>6. QED  BY <1>4, <2>1, <2>4, <2>5 DEF g
<1>5. CASE i \in 3..(Len(h) - f + 2)
  <2>1. /\ i \in 1..Len(g) /\ i + f - 2 \in 1..Len(h) /\ i # 1 /\ i + f - 2 # 1
        /\ g[i] = h[i + f - 2] /\ g[i - 1] = h[(i + f - 2) - 1]
    <3>1. /\ i \in 1..Len(g) /\ i + f - 2 \in 1..Len(h) /\ i # 1 /\ i + f - 2 # 1
          /\ i \in 2..(Len(h) - f + 2) /\ i - 1 \in 2..(Len(h) - f + 2)
          /\ (i - 1) + f - 2 = (i + f - 2) - 1
      BY <1>1, <1>2, <1>5
    <3>2. QED  BY <1>1, <3>1
  <2>2. QED  BY <2>1 DEF ExchangeStarts, g
<1>6. QED  BY <1>2, <1>3, <1>4, <1>5

(* An exchange that was kept is the one it was.                            *)
LEMMA CutExchange ==
    ASSUME NEW h \in Seq(Item), NEW f \in 2..Len(h), Edge(h, f),
           NEW s \in 2..(Len(h) - f + 2), h[s + f - 2].kind = "Call"
    PROVE  /\ FirstObs(h, s + f - 2) = FirstObs(Cut(h, f), s) + f - 2
           /\ FirstObs(Cut(h, f), s) \in (s + 1)..(Len(h) - f + 3)
           /\ Beyond(h, s + f - 2) = Beyond(Cut(h, f), s) + f - 2
           /\ Beyond(Cut(h, f), s) \in FirstObs(Cut(h, f), s)..(Len(h) - f + 3)
           /\ ExchangeComplete(Cut(h, f), s) <=> ExchangeComplete(h, s + f - 2)
<1> DEFINE g == Cut(h, f)
           first == FirstObs(g, s)
           beyond == Beyond(g, s)
           S == s + f - 2
           First == FirstObs(h, S)
           Last == Beyond(h, S)
<1>1. /\ g \in Seq(Item) /\ Len(g) = Len(h) - f + 2
      /\ \A m \in 2..(Len(h) - f + 2) : g[m] = h[m + f - 2]
  BY CutItems
<1>2. Len(h) \in Nat /\ f \in Nat /\ s \in Nat /\ S \in 1..Len(h) /\ s \in 1..Len(g)
  BY <1>1
<1>3. First = first + f - 2 /\ first \in s..(Len(h) - f + 3)
  BY <1>2, CutWalkOn DEF FirstObs
<1>4. g[s].kind = "Call" /\ h[S].kind = "Call"
  BY <1>1
<1> HIDE DEF g, S
<1>5. first \in (s + 1)..(Len(g) + 1)
  BY <1>1, <1>2, <1>4, ExchangeShape
<1>6. first \in 2..(Len(h) - f + 3)
  BY <1>2, <1>3
<1>7. Last = beyond + f - 2 /\ beyond \in first..(Len(h) - f + 3)
  <2> HIDE DEF first
  <2>1. /\ WalkOn(h, first + f - 2, "Obs") = WalkOn(Cut(h, f), first, "Obs") + f - 2
        /\ WalkOn(Cut(h, f), first, "Obs") \in first..(Len(h) - f + 3)
    BY <1>6, CutWalkOn
  <2>2. QED  BY <1>3, <2>1 DEF Beyond, first, g
<1>8. /\ CallsOf(g, s) = s..(first - 1) /\ ObservationsOf(g, s) = first..(beyond - 1)
      /\ CallsOf(h, S) = S..(First - 1) /\ ObservationsOf(h, S) = First..(Last - 1)
  <2>1. CallsOf(g, s) = s..(first - 1) /\ ObservationsOf(g, s) = first..(beyond - 1)
    BY <1>1, <1>2, <1>4, ExchangeShape
  <2>2. CallsOf(h, S) = S..(First - 1) /\ ObservationsOf(h, S) = First..(Last - 1)
    BY <1>2, <1>4, ExchangeShape
  <2>3. QED  BY <2>1, <2>2
<1>9. /\ ExchangeComplete(g, s) <=>
             /\ first - s = beyond - first
             /\ \A c \in s..(first - 1) : \E o \in first..(beyond - 1) : g[o].call = g[c].call
      /\ ExchangeComplete(h, S) <=>
             /\ First - S = Last - First
             /\ \A c \in S..(First - 1) : \E o \in First..(Last - 1) : h[o].call = h[c].call
  BY <1>8 DEF ExchangeComplete, FirstObs, Beyond
<1>10. S = s + f - 2
  BY DEF S
<1> HIDE DEF first, beyond, First, Last
<1>11. first - s = beyond - first <=> First - S = Last - First
  BY <1>2, <1>3, <1>7, <1>10
<1>12. ASSUME NEW c \in s..(first - 1) PROVE c + f - 2 \in S..(First - 1) /\ g[c] = h[c + f - 2]
  <2>1. c \in 2..(Len(h) - f + 2)
    BY <1>2, <1>3
  <2>2. QED  BY <1>1, <1>2, <1>3, <1>10, <2>1
<1>13. ASSUME NEW o \in first..(beyond - 1) PROVE o + f - 2 \in First..(Last - 1) /\ g[o] = h[o + f - 2]
  <2>1. o \in 2..(Len(h) - f + 2)
    BY <1>2, <1>6, <1>7
  <2>2. QED  BY <1>1, <1>2, <1>3, <1>6, <1>7, <2>1
<1>14. ASSUME NEW c \in S..(First - 1) PROVE c - f + 2 \in s..(first - 1) /\ g[c - f + 2] = h[c]
  <2>1. c - f + 2 \in s..(first - 1) /\ (c - f + 2) + f - 2 = c
    BY <1>2, <1>3, <1>10
  <2>2. QED  BY <1>12, <2>1
<1>15. ASSUME NEW o \in First..(Last - 1) PROVE o - f + 2 \in first..(beyond - 1) /\ g[o - f + 2] = h[o]
  <2>1. o - f + 2 \in first..(beyond - 1) /\ (o - f + 2) + f - 2 = o
    BY <1>2, <1>3, <1>6, <1>7
  <2>2. QED  BY <1>13, <2>1
<1>16. ExchangeComplete(g, s) => ExchangeComplete(h, S)
  <2>1. SUFFICES ASSUME ExchangeComplete(g, s), NEW c \in S..(First - 1)
                 PROVE  \E o \in First..(Last - 1) : h[o].call = h[c].call
    BY <1>9, <1>11
  <2>2. PICK o \in first..(beyond - 1) : g[o].call = g[c - f + 2].call
    BY <1>9, <1>14, <2>1
  <2>3. QED  BY <1>13, <1>14, <2>2
<1>17. ExchangeComplete(h, S) => ExchangeComplete(g, s)
  <2>1. SUFFICES ASSUME ExchangeComplete(h, S), NEW c \in s..(first - 1)
                 PROVE  \E o \in first..(beyond - 1) : g[o].call = g[c].call
    BY <1>9, <1>11
  <2>2. PICK o \in First..(Last - 1) : h[o].call = h[c + f - 2].call
    BY <1>9, <1>12, <2>1
  <2>3. QED  BY <1>12, <1>15, <2>2
<1>18. QED  BY <1>1, <1>3, <1>5, <1>7, <1>16, <1>17 DEF first, beyond, First, Last, g, S

(* No exchange reaches over the cut.                                       *)
LEMMA KeptExchange ==
    ASSUME NEW h \in Seq(Item), NEW f \in 2..Len(h), Edge(h, f),
           NEW i \in f..Len(h), NEW r \in 1..i, ExchangeStarts(h, r),
           i \in CallsOf(h, r) \cup ObservationsOf(h, r)
    PROVE  r \in f..Len(h)
<1> DEFINE first == FirstObs(h, r)
           beyond == Beyond(h, r)
<1>1. Len(h) \in Nat /\ f \in Nat /\ r \in 1..Len(h) /\ h[r].kind = "Call"
  BY DEF ExchangeStarts
<1>2. /\ first \in (r + 1)..(Len(h) + 1) /\ beyond \in first..(Len(h) + 1)
      /\ \A m \in r..(first - 1) : h[m].kind = "Call"
      /\ \A m \in first..(beyond - 1) : h[m].kind = "Obs"
      /\ i \in r..(first - 1) \/ i \in first..(beyond - 1)
  BY <1>1, ExchangeShape
<1> HIDE DEF first, beyond
<1>3. SUFFICES ASSUME r < f PROVE FALSE
  BY <1>1
<1>4. CASE f < first
  <2>1. f \in r..(first - 1) /\ f - 1 \in r..(first - 1) /\ f > 1
    BY <1>1, <1>2, <1>3, <1>4
  <2>2. QED  BY <1>2, <2>1 DEF Edge
<1>5. CASE f >= first
  <2>1. f \in first..(beyond - 1) /\ f > 1
    BY <1>1, <1>2, <1>5
  <2>2. f - 1 \in r..(first - 1) \/ f - 1 \in first..(beyond - 1)
    BY <1>1, <1>2, <1>3, <1>5, <2>1
  <2>3. QED  BY <1>2, <2>1, <2>2 DEF Edge
<1>6. QED  BY <1>1, <1>2, <1>4, <1>5

LEMMA CutMembers ==
    ASSUME NEW h \in Seq(Item), NEW f \in 2..Len(h), Edge(h, f), NEW i \in 2..(Len(h) - f + 2)
    PROVE  /\ InCompleteExchange(Cut(h, f), i) <=> InCompleteExchange(h, i + f - 2)
           /\ (\E s \in 1..i : ExchangeStarts(Cut(h, f), s) /\ i \in ObservationsOf(Cut(h, f), s))
              <=> (\E s \in 1..(i + f - 2) : ExchangeStarts(h, s) /\ i + f - 2 \in ObservationsOf(h, s))
<1> DEFINE g == Cut(h, f)
           I == i + f - 2
<1>1. /\ g \in Seq(Item) /\ Len(g) = Len(h) - f + 2
      /\ g[1] = SummaryItem /\ SummaryItem.kind = "Summary"
      /\ \A m \in 2..(Len(h) - f + 2) : g[m] = h[m + f - 2]
  BY CutItems
<1>2. Len(h) \in Nat /\ f \in Nat /\ i \in Nat /\ I \in f..Len(h)
  OBVIOUS
<1> HIDE DEF g
<1>3. ASSUME NEW s \in 2..i, h[s + f - 2].kind = "Call"
      PROVE  /\ ExchangeStarts(g, s) <=> ExchangeStarts(h, s + f - 2)
             /\ ExchangeComplete(g, s) <=> ExchangeComplete(h, s + f - 2)
             /\ i \in CallsOf(g, s) <=> I \in CallsOf(h, s + f - 2)
             /\ i \in ObservationsOf(g, s) <=> I \in ObservationsOf(h, s + f - 2)
  <2> DEFINE S == s + f - 2
             first == FirstObs(g, s)
             beyond == Beyond(g, s)
  <2>1. /\ s \in 2..(Len(h) - f + 2) /\ s \in 2..(Len(h) - f + 3)
        /\ s \in 1..Len(g) /\ S \in 1..Len(h) /\ s \in Nat
    BY <1>1, <1>2
  <2>2. g[s].kind = "Call"
    BY <1>1, <1>3, <2>1
  <2>3. /\ FirstObs(h, S) = first + f - 2 /\ Beyond(h, S) = beyond + f - 2
        /\ first \in (s + 1)..(Len(h) - f + 3) /\ beyond \in first..(Len(h) - f + 3)
        /\ ExchangeComplete(g, s) <=> ExchangeComplete(h, S)
    BY <1>3, <2>1, CutExchange DEF g
  <2>4. /\ CallsOf(g, s) = s..(first - 1) /\ ObservationsOf(g, s) = first..(beyond - 1)
        /\ CallsOf(h, S) = S..(FirstObs(h, S) - 1)
        /\ ObservationsOf(h, S) = FirstObs(h, S)..(Beyond(h, S) - 1)
    <3>1. CallsOf(g, s) = s..(first - 1) /\ ObservationsOf(g, s) = first..(beyond - 1)
      <4>1. g \in Seq(Item) /\ s \in 1..Len(g) /\ g[s].kind = "Call"
        BY <1>1, <2>1, <2>2
      <4>2. QED  BY <4>1, ExchangeShape
    <3>2. /\ CallsOf(h, S) = S..(FirstObs(h, S) - 1)
          /\ ObservationsOf(h, S) = FirstObs(h, S)..(Beyond(h, S) - 1)
      BY <1>3, <2>1, ExchangeShape
    <3>3. QED  BY <3>1, <3>2
  <2>5. ExchangeStarts(g, s) <=> ExchangeStarts(h, S)
    BY <2>1, CutStarts DEF g
  <2> HIDE DEF first, beyond
  <2>6. /\ CallsOf(h, S) = (s + f - 2)..(first + f - 3)
        /\ ObservationsOf(h, S) = (first + f - 2)..(beyond + f - 3)
        /\ first \in Int /\ beyond \in Int
    <3>1. first \in Int /\ beyond \in Int
      BY <1>2, <2>1, <2>3
    <3>2. (first + f - 2) - 1 = first + f - 3 /\ (beyond + f - 2) - 1 = beyond + f - 3
      BY <1>2, <3>1
    <3>3. QED  BY <2>3, <2>4, <3>1, <3>2
  <2>7. i \in s..(first - 1) <=> I \in (s + f - 2)..(first + f - 3)
    BY <1>2, <2>1, <2>6
  <2>8. i \in first..(beyond - 1) <=> I \in (first + f - 2)..(beyond + f - 3)
    BY <1>2, <2>6
  <2>9. QED  BY <2>3, <2>4, <2>5, <2>6, <2>7, <2>8
<1>4. ASSUME NEW s \in 1..i, ExchangeStarts(g, s)
      PROVE  s \in 2..i /\ h[s + f - 2].kind = "Call" /\ s + f - 2 \in 1..I
  <2>1. s # 1
    BY <1>1, <1>4 DEF ExchangeStarts
  <2>2. s \in 2..i /\ s \in 2..(Len(h) - f + 2)
    BY <1>2, <2>1
  <2>3. g[s].kind = "Call"
    BY <1>4 DEF ExchangeStarts
  <2>4. QED  BY <1>1, <1>2, <2>2, <2>3
<1>5. ASSUME NEW r \in 1..I, ExchangeStarts(h, r), I \in CallsOf(h, r) \cup ObservationsOf(h, r)
      PROVE  /\ r - f + 2 \in 2..i /\ r - f + 2 \in 1..i
             /\ (r - f + 2) + f - 2 = r /\ h[(r - f + 2) + f - 2].kind = "Call"
  <2>1. r \in f..Len(h)
    BY <1>2, <1>5, KeptExchange
  <2>2. r - f + 2 \in 2..i /\ r - f + 2 \in 1..i /\ (r - f + 2) + f - 2 = r
    BY <1>2, <2>1
  <2>3. QED  BY <1>5, <2>2 DEF ExchangeStarts
<1> HIDE DEF I
<1>6. InCompleteExchange(g, i) => InCompleteExchange(h, I)
  <2>1. SUFFICES ASSUME NEW s \in 1..i, ExchangeStarts(g, s), ExchangeComplete(g, s),
                        i \in CallsOf(g, s) \cup ObservationsOf(g, s)
                 PROVE  InCompleteExchange(h, I)
    BY DEF InCompleteExchange
  <2>2. s \in 2..i /\ h[s + f - 2].kind = "Call" /\ s + f - 2 \in 1..I
    BY <1>4, <2>1
  <2>3. /\ ExchangeStarts(h, s + f - 2) /\ ExchangeComplete(h, s + f - 2)
        /\ I \in CallsOf(h, s + f - 2) \cup ObservationsOf(h, s + f - 2)
    BY <1>3, <2>1, <2>2
  <2>4. QED  BY <2>2, <2>3 DEF InCompleteExchange
<1>7. InCompleteExchange(h, I) => InCompleteExchange(g, i)
  <2>1. SUFFICES ASSUME NEW r \in 1..I, ExchangeStarts(h, r), ExchangeComplete(h, r),
                        I \in CallsOf(h, r) \cup ObservationsOf(h, r)
                 PROVE  InCompleteExchange(g, i)
    BY DEF InCompleteExchange
  <2> DEFINE s == r - f + 2
  <2>2. s \in 2..i /\ s \in 1..i /\ s + f - 2 = r /\ h[s + f - 2].kind = "Call"
    BY <1>5, <2>1
  <2> HIDE DEF s
  <2>3. ExchangeStarts(g, s) /\ ExchangeComplete(g, s) /\ i \in CallsOf(g, s) \cup ObservationsOf(g, s)
    BY <1>3, <2>1, <2>2
  <2>4. QED  BY <2>2, <2>3 DEF InCompleteExchange
<1>8. ASSUME NEW s \in 1..i, ExchangeStarts(g, s), i \in ObservationsOf(g, s)
      PROVE  \E r \in 1..I : ExchangeStarts(h, r) /\ I \in ObservationsOf(h, r)
  <2>1. s \in 2..i /\ h[s + f - 2].kind = "Call" /\ s + f - 2 \in 1..I
    BY <1>4, <1>8
  <2>2. QED  BY <1>3, <1>8, <2>1
<1>9. ASSUME NEW r \in 1..I, ExchangeStarts(h, r), I \in ObservationsOf(h, r)
      PROVE  \E s \in 1..i : ExchangeStarts(g, s) /\ i \in ObservationsOf(g, s)
  <2> DEFINE s == r - f + 2
  <2>1. s \in 2..i /\ s \in 1..i /\ s + f - 2 = r /\ h[s + f - 2].kind = "Call"
    BY <1>5, <1>9
  <2> HIDE DEF s
  <2>2. QED  BY <1>3, <1>9, <2>1
<1>10. QED  BY <1>6, <1>7, <1>8, <1>9 DEF g, I

(* A kept item becomes the message it became before.                       *)
LEMMA CutMessages ==
    ASSUME NEW h \in Seq(Item), NEW f \in 2..Len(h), Edge(h, f), NEW i \in 2..(Len(h) - f + 2)
    PROVE  MessagesAt(Cut(h, f), i) = MessagesAt(h, i + f - 2)
<1> DEFINE g == Cut(h, f)
           I == i + f - 2
<1>1. /\ g \in Seq(Item) /\ Len(g) = Len(h) - f + 2
      /\ g[1] = SummaryItem /\ SummaryItem.kind = "Summary"
      /\ \A m \in 2..(Len(h) - f + 2) : g[m] = h[m + f - 2]
  BY CutItems
<1>2. Len(h) \in Nat /\ f \in Nat /\ i \in Nat /\ I \in 1..Len(h) /\ I \in Nat /\ f >= 2 /\ i >= 2
  OBVIOUS
<1>3. /\ i \in 2..(Len(h) - f + 3) /\ i + 1 \in 2..(Len(h) - f + 3) /\ (i + 1) + f - 2 = I + 1
  BY <1>2
<1>4. g[i] = h[I]
  BY <1>1
<1>5. ExchangeStarts(g, i) <=> ExchangeStarts(h, I)
  BY <1>3, CutStarts
<1>6. ExchangeStarts(g, i + 1) <=> ExchangeStarts(h, I + 1)
  BY <1>3, CutStarts
<1>7. h[I].kind = "Call" => (ExchangeComplete(g, i) <=> ExchangeComplete(h, I))
                         /\ WalkOn(g, i, "Call") - i = WalkOn(h, I, "Call") - I
                         /\ WalkOn(g, i, "Call") \in i..(Len(h) - f + 3)
  <2>1. SUFFICES ASSUME h[I].kind = "Call"
                 PROVE  /\ ExchangeComplete(g, i) <=> ExchangeComplete(h, I)
                        /\ WalkOn(g, i, "Call") - i = WalkOn(h, I, "Call") - I
                        /\ WalkOn(g, i, "Call") \in i..(Len(h) - f + 3)
    OBVIOUS
  <2>2. /\ ExchangeComplete(g, i) <=> ExchangeComplete(h, I)
        /\ WalkOn(h, I, "Call") = WalkOn(g, i, "Call") + f - 2
        /\ WalkOn(g, i, "Call") \in i..(Len(h) - f + 3)
    BY <1>3, <2>1, CutExchange, CutWalkOn
  <2> HIDE DEF g
  <2>3. WalkOn(g, i, "Call") \in Int
    BY <1>2, <2>2
  <2>4. QED  BY <1>2, <2>2, <2>3
<1>8. ExchangeStarts(h, I + 1) => (ExchangeComplete(g, i + 1) <=> ExchangeComplete(h, I + 1))
  <2>1. SUFFICES ASSUME ExchangeStarts(h, I + 1)
                 PROVE  ExchangeComplete(g, i + 1) <=> ExchangeComplete(h, I + 1)
    OBVIOUS
  <2>2. I + 1 \in 1..Len(h) /\ h[I + 1].kind = "Call"
    BY <2>1 DEF ExchangeStarts
  <2>3. i + 1 \in 2..(Len(h) - f + 2)
    BY <1>2, <2>2
  <2>4. h[(i + 1) + f - 2].kind = "Call"
    BY <1>3, <2>2
  <2>5. ExchangeComplete(g, i + 1) <=> ExchangeComplete(h, (i + 1) + f - 2)
    BY <2>3, <2>4, CutExchange
  <2>6. QED  BY <1>3, <2>5
<1>9. /\ InCompleteExchange(g, i) <=> InCompleteExchange(h, I)
      /\ (\E s \in 1..i : ExchangeStarts(g, s) /\ i \in ObservationsOf(g, s))
         <=> (\E s \in 1..I : ExchangeStarts(h, s) /\ I \in ObservationsOf(h, s))
  BY CutMembers
<1>10. h[I].kind = "Call" => (i > 1 /\ g[i - 1].kind = "Reasoned" <=> I > 1 /\ h[I - 1].kind = "Reasoned")
  <2>1. SUFFICES ASSUME h[I].kind = "Call"
                 PROVE  g[i - 1].kind = "Reasoned" <=> h[I - 1].kind = "Reasoned"
    BY <1>2
  <2>2. CASE i = 2
    <3>1. I = f /\ i - 1 = 1 /\ f > 1
      BY <1>2, <2>2
    <3>2. h[f - 1].kind # "Reasoned"
      BY <2>1, <3>1 DEF Edge
    <3> HIDE DEF g, I
    <3>3. QED  BY <1>1, <3>1, <3>2
  <2>3. CASE i # 2
    <3>1. i - 1 \in 2..(Len(h) - f + 2) /\ (i - 1) + f - 2 = I - 1
      BY <1>2, <2>3
    <3> HIDE DEF g, I
    <3>2. QED  BY <1>1, <3>1
  <2>4. QED  BY <2>2, <2>3
<1> HIDE DEF g
<1>11. h[I].kind \in Kinds
  BY <1>2, ItemFields
<1>12. CASE h[I].kind \in {"User", "Assistant", "Summary"}
  BY <1>4, <1>12 DEF MessagesAt, g
<1>13. CASE h[I].kind = "Reasoned"
  <2> HIDE DEF I
  <2>1. QED  BY <1>4, <1>6, <1>8, <1>13 DEF MessagesAt, g, I
<1>14. CASE h[I].kind = "Call"
  <2> DEFINE n == WalkOn(g, i, "Call") - i
  <2>1. n = WalkOn(h, I, "Call") - I /\ n \in Int
        /\ \A m \in 1..n : i + m - 1 \in 2..(Len(h) - f + 2) /\ (i + m - 1) + f - 2 = I + m - 1
    <3>1. WalkOn(g, i, "Call") \in Int /\ WalkOn(g, i, "Call") \in i..(Len(h) - f + 3)
      BY <1>2, <1>7, <1>14
    <3>2. QED  BY <1>2, <1>7, <1>14, <3>1
  <2> HIDE DEF n
  <2>2. \A m \in 1..n : g[i + m - 1].call = h[I + m - 1].call
    <3> HIDE DEF I
    <3>1. QED  BY <1>1, <2>1
  <2>3. [m \in 1..n |-> g[i + m - 1].call] = [m \in 1..n |-> h[I + m - 1].call]
    BY <2>2
  <2> DEFINE calls == [m \in 1..n |-> h[I + m - 1].call]
             flag == I > 1 /\ h[I - 1].kind = "Reasoned"
             M == IF ~ExchangeStarts(h, I) THEN <<>>
                  ELSE IF ExchangeComplete(h, I) THEN <<Message("assistant", calls, flag)>>
                  ELSE <<Message("system", <<>>, FALSE)>>
  <2>4. MessagesAt(h, I) = M
    BY <1>14, <2>1 DEF MessagesAt
  <2>5. (i > 1 /\ g[i - 1].kind = "Reasoned") = flag
    BY <1>10, <1>14
  <2> HIDE DEF flag, I
  <2>6. MessagesAt(g, i) = M
    BY <1>4, <1>5, <1>7, <1>14, <2>3, <2>5 DEF MessagesAt, n
  <2>7. QED  BY <2>4, <2>6 DEF g, I
<1>15. CASE h[I].kind = "Obs"
  <2> HIDE DEF I
  <2>1. QED  BY <1>4, <1>9, <1>15 DEF MessagesAt, g, I
<1>16. QED  BY <1>11, <1>12, <1>13, <1>14, <1>15 DEF Kinds

(* The messages after a compaction: one of the summary, and then those the *)
(* kept items made before.                                                 *)
GoesOn(u, v, f, n) ==
    \A i \in 1..n :
        /\ Len(v[i]) = 1 + Len(u[i + f - 2]) - Len(u[f - 1])
        /\ v[i][1] = Message("system", <<>>, FALSE)
        /\ \A k \in 2..Len(v[i]) : v[i][k] = u[i + f - 2][Len(u[f - 1]) + k - 1]

LEMMA CutCollected ==
    ASSUME NEW h \in Seq(Item), NEW f \in 2..Len(h), Edge(h, f),
           NEW u, Collects(u, h, Len(h)),
           NEW v, Collects(v, Cut(h, f), Len(Cut(h, f)))
    PROVE  GoesOn(u, v, f, Len(h) - f + 2)
<1> DEFINE g == Cut(h, f)
           n == Len(h) - f + 2
           p == Len(u[f - 1])
           Same(i) == /\ Len(v[i]) = 1 + Len(u[i + f - 2]) - p
                      /\ v[i][1] = Message("system", <<>>, FALSE)
                      /\ \A k \in 2..Len(v[i]) : v[i][k] = u[i + f - 2][p + k - 1]
           Bad == {i \in 1..n : ~Same(i)}
<1>1. /\ g \in Seq(Item) /\ Len(g) = n
      /\ g[1] = SummaryItem /\ SummaryItem.kind = "Summary"
  BY CutItems
<1>2. Len(h) \in Nat /\ f \in Nat /\ n \in Nat /\ 1 \in 1..n /\ f - 1 \in 0..Len(h)
  OBVIOUS
<1>3. /\ u \in [0..Len(h) -> Seq(Msg)]
      /\ v \in [0..n -> Seq(Msg)] /\ v[0] = <<>>
      /\ \A i \in 1..n : v[i] = v[i - 1] \o MessagesAt(g, i)
  BY <1>1 DEF Collects
<1>4. p \in Nat
  BY <1>2, <1>3
<1>5. Collects(v, g, Len(g))
  OBVIOUS
<1> HIDE DEF g, p
<1>6. Same(1)
  <2>1. MessagesAt(g, 1) = <<Message("system", <<>>, FALSE)>>
    BY <1>1 DEF MessagesAt
  <2>2. Message("system", <<>>, FALSE) \in Msg
    BY PlainMessage
  <2> HIDE DEF Same, Bad
  <2>3. \A x \in Msg : MessagesAt(g, 1) = <<x>> => /\ Len(v[1]) = Len(v[1 - 1]) + 1
                                                  /\ v[1][Len(v[1])] = x
    BY <1>1, <1>2, <1>5, OneMore
  <2>4. Len(v[1]) = 1 /\ v[1][1] = Message("system", <<>>, FALSE)
    <3>1. Len(v[1 - 1]) = 0
      BY <1>3
    <3>2. \A x : x = Message("system", <<>>, FALSE) =>
              x \in Msg /\ MessagesAt(g, 1) = <<x>>
      BY <2>1, <2>2
    <3>3. PICK x \in Msg : x = Message("system", <<>>, FALSE) /\ MessagesAt(g, 1) = <<x>>
      BY <2>2, <3>2
    <3>4. Len(v[1]) = 0 + 1 /\ v[1][Len(v[1])] = x
      BY <2>3, <3>1, <3>3
    <3>5. Len(v[1]) = 1
      BY <3>4
    <3>6. QED  BY <3>3, <3>4, <3>5
  <2>5. 1 + f - 2 = f - 1
    BY <1>2
  <2>6. QED  BY <1>4, <2>4, <2>5 DEF p, Same
<1>7. SUFFICES ASSUME Bad # {} PROVE FALSE
  BY DEF p, GoesOn
<1>8. PICK j \in Bad : \A m \in Bad : j <= m
  <2>1. Bad \in SUBSET Nat
    <3> HIDE DEF Same
    <3>1. QED  OBVIOUS
  <2> HIDE DEF Bad
  <2>2. QED  BY <1>7, <2>1, LeastNatural
<1>9. j \in 1..n /\ ~Same(j)
  BY <1>8
<1>10. /\ j \in 2..n /\ j - 1 \in 1..n /\ ~(j <= j - 1) /\ j \in 1..Len(g) /\ j \in Nat
       /\ j + f - 2 \in 1..Len(h) /\ (j - 1) + f - 2 = (j + f - 2) - 1
  <2>1. j # 1
    <3> HIDE DEF Same
    <3>1. QED  BY <1>6, <1>9
  <2>2. QED  BY <1>1, <1>2, <1>9, <2>1
<1>11. Same(j - 1)
  <2>1. j - 1 \notin Bad
    <3> HIDE DEF Bad
    <3>1. QED  BY <1>8, <1>10
  <2>2. QED  BY <1>10, <2>1
<1> HIDE DEF Bad
<1> DEFINE J == j + f - 2
           M == MessagesAt(h, J)
<1>12. MessagesAt(g, j) = M
  BY <1>10, CutMessages DEF g
<1>13. J \in 1..Len(h) /\ J - 1 \in 0..Len(h) /\ J \in 0..Len(h) /\ j - 1 \in 0..Len(g) /\ j \in 0..Len(g)
  BY <1>1, <1>2, <1>10
<1>14. /\ Len(v[j - 1]) = 1 + Len(u[J - 1]) - p
       /\ v[j - 1][1] = Message("system", <<>>, FALSE)
       /\ \A k \in 2..Len(v[j - 1]) : v[j - 1][k] = u[J - 1][p + k - 1]
  BY <1>10, <1>11
<1> HIDE DEF J, M, Same, n
<1>15. /\ Len(u[J]) \in Nat /\ Len(u[J - 1]) \in Nat /\ Len(u[J]) = Len(u[J - 1]) + Len(M)
       /\ M = <<>> => u[J] = u[J - 1]
       /\ \A x \in Msg : M = <<x>> => u[J][Len(u[J])] = x
  BY <1>13, OneMore DEF M
<1>16. /\ Len(v[j]) \in Nat /\ Len(v[j - 1]) \in Nat /\ Len(v[j]) = Len(v[j - 1]) + Len(M)
       /\ M = <<>> => v[j] = v[j - 1]
       /\ \A x \in Msg : M = <<x>> => v[j][Len(v[j])] = x
  <2>1. /\ Len(v[j]) \in Nat /\ Len(v[j - 1]) \in Nat
        /\ Len(v[j]) = Len(v[j - 1]) + Len(MessagesAt(g, j))
        /\ MessagesAt(g, j) = <<>> => v[j] = v[j - 1]
    BY <1>1, <1>5, <1>10, OneMore
  <2>2. g \in Seq(Item) /\ Collects(v, g, Len(g)) /\ j \in 1..Len(g)
    BY <1>1, <1>5, <1>10
  <2>3. \A x \in Msg : MessagesAt(g, j) = <<x>> => v[j][Len(v[j])] = x
    BY <2>2, OneMore
  <2>4. QED  BY <1>12, <2>1, <2>3
<1>17. \A k \in 1..Len(u[J - 1]) : u[J][k] = u[J - 1][k]
  <2>1. J \in (J - 1)..Len(h)
    BY <1>2, <1>13
  <2>2. J - 1 \in 0..Len(h) /\ Collects(u, h, Len(h))
    BY <1>13
  <2>3. Begins(u[J - 1], u[J])
    BY <2>1, <2>2, Grows
  <2>4. QED  BY <2>3 DEF Begins
<1>18. \A k \in 1..Len(v[j - 1]) : v[j][k] = v[j - 1][k]
  <2>1. j \in (j - 1)..Len(g)
    BY <1>2, <1>10
  <2>2. g \in Seq(Item) /\ Collects(v, g, Len(g)) /\ j - 1 \in 0..Len(g)
    BY <1>1, <1>5, <1>13
  <2>3. Begins(v[j - 1], v[j])
    BY <2>1, <2>2, Grows
  <2>4. QED  BY <2>3 DEF Begins
<1>19. p <= Len(u[J - 1])
  <2>1. J - 1 \in (f - 1)..Len(h)
    BY <1>2, <1>10, <1>13 DEF J
  <2>2. QED  BY <1>2, <2>1, Grows DEF p, Begins
<1>20. Len(v[j]) = 1 + Len(u[J]) - p /\ Len(v[j - 1]) >= 1
  <2>1. Len(M) \in Nat
    BY <1>13, MessageTypes DEF M
  <2>2. /\ Len(v[j]) = Len(v[j - 1]) + Len(M) /\ Len(u[J]) = Len(u[J - 1]) + Len(M)
        /\ Len(v[j - 1]) = 1 + Len(u[J - 1]) - p
        /\ Len(u[J - 1]) \in Nat /\ p \in Nat /\ p <= Len(u[J - 1])
    BY <1>4, <1>14, <1>15, <1>16, <1>19
  <2>3. QED  BY <2>1, <2>2
<1>21. v[j][1] = Message("system", <<>>, FALSE)
  <2>1. 1 \in 1..Len(v[j - 1])
    BY <1>16, <1>20
  <2>2. QED  BY <1>14, <1>18, <2>1
<1>22. ASSUME NEW k \in 2..Len(v[j - 1]) PROVE v[j][k] = u[J][p + k - 1]
  <2>1. k \in 1..Len(v[j - 1]) /\ p + k - 1 \in 1..Len(u[J - 1])
    BY <1>4, <1>14, <1>15, <1>16, <1>19
  <2>2. QED  BY <1>14, <1>17, <1>18, <2>1
<1>23. ASSUME NEW k \in 2..Len(v[j]) PROVE v[j][k] = u[J][p + k - 1]
  <2>1. CASE k \in 2..Len(v[j - 1])
    BY <1>22, <2>1
  <2>2. CASE k \notin 2..Len(v[j - 1])
    <3>1. M # <<>>
      BY <1>16, <2>2
    <3>2. PICK x \in Msg : M = <<x>>
      BY <1>13, <3>1, ItemMessage DEF M
    <3>3. Len(M) = 1
      BY <3>2
    <3>4. /\ Len(v[j]) = Len(v[j - 1]) + 1 /\ Len(v[j]) = 1 + Len(u[J]) - p
          /\ Len(v[j]) \in Nat /\ Len(v[j - 1]) \in Nat /\ Len(u[J]) \in Nat /\ p \in Nat
      BY <1>4, <1>15, <1>16, <1>20, <3>3
    <3>5. k = Len(v[j])
      BY <2>2, <3>4
    <3>6. p + k - 1 = Len(u[J])
      BY <3>4, <3>5
    <3>7. QED  BY <1>15, <1>16, <3>2, <3>5, <3>6
  <2>3. QED  BY <2>1, <2>2
<1>24. Same(j)
  BY <1>20, <1>21, <1>23 DEF J, Same
<1>25. QED  BY <1>9, <1>24

(* A compaction replaces the oldest messages by one.                       *)
LEMMA CompactedMessages ==
    ASSUME NEW h \in Seq(Item), CompactOldItems(h, KeepLast, SummaryItem) # h
    PROVE  LET before == Messages(h)
               after == Messages(CompactOldItems(h, KeepLast, SummaryItem))
           IN  /\ after # <<>> /\ Len(after) <= Len(before) + 1
               /\ Head(after) = Message("system", <<>>, FALSE)
               /\ Tail(after) = SubSeq(before, Len(before) - Len(after) + 2, Len(before))
<1> DEFINE f == FirstKept(h, KeepLast)
           g == Cut(h, f)
           n == Len(h)
           before == Messages(h)
           after == Messages(g)
<1>1. f # 1 /\ CompactOldItems(h, KeepLast, SummaryItem) = g
  BY DEF CompactOldItems, Cut
<1>2. h # <<>>
  BY <1>1 DEF FirstKept
<1>3. f \in 2..n /\ Edge(h, f) /\ n \in Nat
  <2>1. f \in 1..n /\ Edge(h, f)
    BY <1>2, FirstKeptProperties
  <2> HIDE DEF f
  <2>2. QED  BY <1>1, <2>1
<1> HIDE DEF f
<1>4. g \in Seq(Item) /\ Len(g) = n - f + 2
  BY <1>3, CutItems
<1>5. PICK u : Collects(u, h, n) /\ before = u[n]
  BY MessagesCollected
<1>6. PICK v : Collects(v, g, Len(g)) /\ after = v[Len(g)]
  BY <1>4, MessagesCollected
<1> DEFINE p == Len(u[f - 1])
<1>7. n - f + 2 \in 1..(n - f + 2) /\ (n - f + 2) + f - 2 = n /\ f - 1 \in 0..n /\ n \in (f - 1)..n
  BY <1>3
<1>8. before \in Seq(Msg) /\ after \in Seq(Msg) /\ p \in Nat /\ p <= Len(before)
  <2>1. before \in Seq(Msg) /\ u[f - 1] \in Seq(Msg)
    <3>1. u \in [0..n -> Seq(Msg)]
      BY <1>5 DEF Collects
    <3>2. n \in 0..n
      BY <1>3
    <3> HIDE DEF before
    <3>3. QED  BY <1>5, <1>7, <3>1, <3>2
  <2>2. after \in Seq(Msg)
    <3>1. Len(g) \in 0..Len(g)
      BY <1>4, <1>7
    <3>2. QED  BY <1>6, <3>1 DEF Collects
  <2>3. p <= Len(before)
    BY <1>5, <1>7, Grows DEF Begins
  <2>4. QED  BY <2>1, <2>2, <2>3
<1>9. /\ Len(after) = 1 + Len(before) - p
      /\ after[1] = Message("system", <<>>, FALSE)
      /\ \A k \in 2..Len(after) : after[k] = before[p + k - 1]
  <2>1. \A i \in 1..(n - f + 2) :
            /\ Len(v[i]) = 1 + Len(u[i + f - 2]) - Len(u[f - 1])
            /\ v[i][1] = Message("system", <<>>, FALSE)
            /\ \A k \in 2..Len(v[i]) : v[i][k] = u[i + f - 2][Len(u[f - 1]) + k - 1]
    <3>1. f \in 2..Len(h) /\ Edge(h, f) /\ Collects(u, h, Len(h))
      BY <1>3, <1>5
    <3>2. Collects(v, Cut(h, f), Len(Cut(h, f)))
      BY <1>6
    <3> HIDE DEF before, after, p, g, n
    <3>3. GoesOn(u, v, f, Len(h) - f + 2)
      BY <3>1, <3>2, CutCollected
    <3>4. QED  BY <3>3 DEF GoesOn, n
  <2> DEFINE l == n - f + 2
  <2>2. l \in 1..(n - f + 2) /\ l + f - 2 = n /\ after = v[l] /\ before = u[n]
    BY <1>4, <1>5, <1>6, <1>7
  <2> HIDE DEF before, after, l
  <2>3. QED  BY <2>1, <2>2
<1> HIDE DEF before, after, p, g
<1>10. Len(before) \in Nat /\ Len(after) \in Nat /\ Len(after) >= 1 /\ after # <<>>
       /\ Len(after) <= Len(before) + 1
  <2>1. Len(before) \in Nat /\ Len(after) \in Nat
    BY <1>8
  <2>2. Len(after) >= 1 /\ Len(after) <= Len(before) + 1
    BY <1>8, <1>9, <2>1
  <2>3. Len(<<>>) = 0
    OBVIOUS
  <2>4. QED  BY <2>1, <2>2, <2>3
<1>11. Head(after) = Message("system", <<>>, FALSE)
  <2>1. \A s \in Seq(Msg) : s # <<>> => Head(s) = s[1]
    OBVIOUS
  <2>2. QED  BY <1>8, <1>9, <1>10, <2>1
<1>12. Len(before) - Len(after) + 2 = p + 1
  BY <1>8, <1>9, <1>10
<1>13. Tail(after) = SubSeq(before, p + 1, Len(before))
  <2> DEFINE rest == SubSeq(before, p + 1, Len(before))
  <2>1. /\ Tail(after) \in Seq(Msg) /\ Len(Tail(after)) = Len(after) - 1
        /\ \A i \in 1..Len(Tail(after)) : Tail(after)[i] = after[i + 1]
    BY <1>8, <1>10, HeadTailProperties
  <2>2. \A i \in (p + 1)..Len(before) : before[i] \in Msg
    BY <1>8
  <2>3. /\ rest \in Seq(Msg)
        /\ Len(rest) = IF p + 1 <= Len(before) THEN Len(before) - (p + 1) + 1 ELSE 0
        /\ \A i \in 1..(Len(before) - (p + 1) + 1) : rest[i] = before[(p + 1) + i - 1]
    <3>1. p + 1 \in Int /\ Len(before) \in Int
      BY <1>8, <1>10
    <3>2. QED  BY <2>2, <3>1, SubSeqProperties
  <2> HIDE DEF rest
  <2>4. Len(rest) = Len(after) - 1
    BY <1>8, <1>9, <1>10, <2>3
  <2>5. ASSUME NEW i \in 1..Len(Tail(after)) PROVE Tail(after)[i] = rest[i]
    <3>1. i + 1 \in 2..Len(after) /\ i \in 1..(Len(before) - (p + 1) + 1)
          /\ p + (i + 1) - 1 = (p + 1) + i - 1
      BY <1>8, <1>9, <1>10, <2>1
    <3>2. QED  BY <1>9, <2>1, <2>3, <3>1
  <2>6. Tail(after) = rest
    BY <2>1, <2>3, <2>4, <2>5, SeqEqual
  <2>7. QED  BY <2>6 DEF rest
<1>14. QED  BY <1>1, <1>10, <1>11, <1>12, <1>13 DEF before, after

-----------------------------------------------------------------------------
(* What the model is sent is legal in its tool protocol, whatever the      *)
(* limit of the history cut off and other tasks wrote in between           *)
(* (history_to_messages, tool_exchange_is_complete).                       *)
THEOREM RequestsAreLegal == TurnsSpec => []LegalProtocol
<1>1. TurnInv => LegalProtocol
  <2>1. TurnInv => history \in Seq(Item)
    BY DEF TurnInv, TurnsTypeOK
  <2>2. QED  BY <2>1, LegalMessages DEF LegalProtocol
<1>2. QED  BY <1>1, TurnInvariant, PTL

(* The step on which a compacting task goes on compacts the history, or    *)
(* nothing is written.                                                     *)
LEMMA CompactingStep ==
    ASSUME TurnInv, [Next]_vars, history' # history,
           NEW t \in Task, pc[t] = "compact", pc'[t] = "sample"
    PROVE  history' = CompactOldItems(history, KeepLast, SummaryItem)
<1>0. pc \in [Task -> Places]
  BY DEF TurnInv, TurnsTypeOK
<1>1. PICK s \in Task : RecordInput(s) \/ Write(s) \/ Compact(s)
  BY HistoryStep
<1>2. ~Write(s)
  BY DEF Write
<1>3. ~RecordInput(s)
  <2>1. SUFFICES ASSUME RecordInput(s) PROVE FALSE
    OBVIOUS
  <2>2. pc[s] = "input" /\ pc' = [pc EXCEPT ![s] = "loop"]
    BY <2>1 DEF RecordInput, Goto
  <2>3. QED  BY <1>0, <2>2
<1>4. QED  BY <1>1, <1>2, <1>3 DEF Compact

(* A compaction replaces the oldest messages by one and leaves the rest as *)
(* they were (compaction_tool_boundary, compact_old_items).                *)
THEOREM CompactionKeepsTheRest == TurnsSpec => CompactionKeepsSuffix
<1> DEFINE Kept == LET before == Messages(history)
                       after == Messages(history')
                   IN  /\ after # <<>> /\ Len(after) <= Len(before) + 1
                       /\ Head(after) = Message("system", <<>>, FALSE)
                       /\ Tail(after) = SubSeq(before, Len(before) - Len(after) + 2, Len(before))
           Compacts == history' # history /\ (\E t \in Task : pc[t] = "compact" /\ pc'[t] = "sample")
<1>1. TurnInv /\ [Next]_vars => [Compacts => Kept]_vars
  <2>1. SUFFICES ASSUME TurnInv, [Next]_vars, Compacts PROVE Kept
    OBVIOUS
  <2>2. history' = CompactOldItems(history, KeepLast, SummaryItem)
    BY <2>1, CompactingStep
  <2>3. history \in Seq(Item) /\ CompactOldItems(history, KeepLast, SummaryItem) # history
    BY <2>1, <2>2 DEF TurnInv, TurnsTypeOK
  <2>4. QED  BY <2>2, <2>3, CompactedMessages
<1>2. QED  BY <1>1, TurnInvariant, PTL DEF TurnsSpec, CompactionKeepsSuffix

=============================================================================
