# The concurrent core of onetcli, in TLA+

A verification project for this repository, a Rust desktop client for databases
and servers (`crates/*`, `main/`).  It treats the parts where several tasks,
threads or devices share state: the sharing of SSH connections that every
terminal, SFTP browser, tunnel and server monitor stands on (`crates/ssh`), the
runtime that lets a language model act on those servers
(`crates/agent_runtime`), the bounded queue between a transport and the
terminal and the supervision of the commands that agents run in one
(`crates/terminal`), the personal cloud sync of connections
(`crates/core/src/cloud_sync/personal`), and the metadata cache and the sessions
of a database connection (`crates/db`).

## 1. The system

| Component | Source | State it keeps | Operations | Status |
|---|---|---|---|---|
| Session registry | `crates/ssh/src/session_registry.rs`, `SessionRegistryCore` | one slot per connection key (vacant, creating with its waiters, ready with a lease count and an idle deadline), lifecycle, generation counter, task counter, snapshot channel | `acquire`, lease `release`/`clone`/drop, detached creation flights, idle reaper, `retire`, drop | modelled |
| Session service | same file, `SessionServiceCore` | `started`, the shared report, the detached shutdown driver | `shutdown`, `begin_shutdown`, drop | modelled |
| Session manager | `crates/ssh/src/session_manager.rs`, `SessionPool` | cached client, connection flight, config generation, shell integration, reconnect gate | `client`, `disconnect`, `invalidate`, `invalidate_client`, `replace_config`, `set_shell_integration`, `request_shutdown`, `shutdown` | modelled |
| SSH transport | `crates/ssh/src/ssh.rs` | protocol state of russh | connect, authenticate, ping | not modelled |
| Agent turns | `crates/agent_runtime/src/runtime/`, `tasks/agent.rs`, `tasks/context_compaction.rs`, `tools/router.rs` | active turn, cancelled turns, pending approval, history, event stream | start, interrupt, approve, reject, close; the agent loop | partly |
| Agent history | `crates/agent_runtime/src/history.rs`, `planner/prompt.rs` | a bounded list of items | record, compact, messages of a request | modelled |
| Terminal ingress queue | `crates/terminal/src/ingress_queue.rs`, the workers of the three backends, `session_handle.rs` | data lane, control lane, byte permits, pending-byte counter, abort token; the worker's pending send, the parser's guard | `send_data`, `try_send_data`, `send_control`, `recv`, `abort`, drop; read, keep, end, shut down; parse, report drained | partly |
| Exec supervisor | `crates/terminal/src/exec_supervisor/`, the thread in `pty_backend.rs`, `exec_in_terminal` of `crates/terminal_view/src/public_mcp.rs` | what the shell is believed to do, whether its line is dirty, the one operation; owed answers, sleeping timers, tracked entries | start, input, markers, interrupt, cancel, timeout, disconnect | partly |
| Personal sync | `crates/core/src/cloud_sync/personal/` | event queue, local rows with their sync columns, remote records with versions, conflicts | enqueue, drain (list, plan, apply), resolve, and the user's edits and deletions | partly |
| Metadata cache | `crates/db/src/metadata_cache.rs`, `ddl_invalidator.rs`, `cache_manager.rs`, the lookups of `manager.rs` | each answer in memory and in a file, with its time | look up, cache, invalidate after DDL, expire, evict | partly |
| Database sessions | `crates/db/src/manager.rs`, `ConnectionManager` and the calls of `GlobalDbState` that borrow from it; manual transactions of `crates/db_view/src/sql_editor_view.rs` | the sessions of a connection with their `in_use` and their config, the locks of database files | acquire or connect, use, release, close, clean up, remove all | partly |
| Public MCP | `crates/public_mcp/src/` | approval grants, running commands | grant, consume, run | candidate |
| Port forwarding, extension driver | `crates/port_forwarding/src/runtime.rs`, `crates/extension-driver/src/runtime.rs` | tunnels, extension hosts | start, stop, restart | candidate |
| Database plugins, UI, shell, packaging, docs | the rest | - | - | not modelled |

How the modelled parts interact.  A consumer asks the service for the manager
of a connection key and gets a *lease*; the registry creates the manager in a
detached task, so that a consumer may give up without disturbing the others.
The consumer then calls `client()` of the manager, which dials once for
everybody and caches the transport.  The last release marks the manager idle;
a reaper task disconnects it when its deadline passes.  At application exit the
service closes admission and the *reconnect gate* of every manager in one
locked block, then stops the managers under one deadline and publishes one
report.  What makes this hard: every future can be dropped at every `.await`,
results of earlier generations arrive late, the reaper and the shutdown driver
decide after they let go of the lock, and consumers keep leases of managers
that have long been replaced.

A user's message starts a *turn*: a task that asks the model, runs the tools it
calls, and asks again until it answers.  In Manual mode a risky call pauses the
turn: the task ends, the session stays busy, and `approve` or `reject` goes on
with a task of its own.  `interrupt` detaches the turn at once and lets its task
find out later.  What makes this hard: a stopped task may be deep in a model or
tool call and come back when the next turn runs on the same history; events are
sent after the lock is released; and whatever gets into the history must still
make a request the model's provider accepts.

A terminal's transport is read by a task (SSH, Telnet) or a thread (serial)
that offers each chunk to the *ingress queue*; a parser worker takes chunks out
and gives them to the terminal.  The queue is bounded twice, in chunks by its
channel and in bytes by a semaphore, and beside the semaphore it keeps a counter
of pending bytes.  A source that ends says `SourceClosed` on a lane that
overtakes the data, and the parser goes on until the counter is zero.  What
makes this hard: permits and counter are changed one after the other while
other threads look, a send is a future that only moves while its owner polls
it, and the owner of the terminal may abort between any two of these steps.

An agent may run a command in a terminal the user sees.  A *supervisor* guesses
from the markers that the shell prints around prompts and commands what the
shell is doing, waits for a prompt, clears a dirty line with Ctrl+C, writes the
command, follows it to its end and answers the caller.  What makes this hard: the
markers come late, the user types into the same line, a caller cancels at any
moment, a timer that is armed is never disarmed, and a command that took too long
goes on being followed after its caller was answered.

Personal sync runs *passes* on its own thread: it lists rows and records, makes a
plan of the two lists, and applies it write by write.  What makes this hard:
nothing is locked meanwhile, so the user edits, deletes and resolves conflicts,
other devices write the same folder, and the application may die, all between
two steps of a pass that works with what it listed.

A lookup of database metadata asks the *cache*, first its memory, then a file,
and only then the database, whose answer is given to the caller and cached by
tasks of its own.  A DDL statement is classified and the keys it may change are
removed, one step after the other.  What makes this hard: a key has two copies,
every access to one of them waits, and nothing says to a lookup that is under way
that what it holds was invalidated meanwhile.

A call that works with a database borrows a *session*: it takes an idle one of
its database or connects, looks the session up again by its id to execute on it,
and gives it back or closes it.  A server that is one file is opened under a lock
of that file.  What makes this hard: the pool's lock is let go of between these
steps, so a cleanup or another call may have the session meanwhile; scripts
switch the database of a session that is used again; and a call that is dropped
or fails leaves its session marked as in use.

What makes each part correct, in one sentence each:

* registry: lease counts are exact for the generation they name, only an unused
  manager is disconnected, a key's slot shows its newest generation, and
  nobody waits for a flight that will not answer;
* service: after admission closes nothing new can dial, and each call of
  `shutdown` returns the same report, which comes and tells the truth;
* manager: one dial at a time, nothing past the gate, no session of an
  outdated config for the consumer that replaced it, and no late failure report
  that evicts a healthy replacement;
* agent turns: one running turn, one verdict per turn, nothing written and no
  tool started for a turn after it was stopped, no risky tool without consent;
* agent history: every request is legal in the tool protocol, and compaction
  changes nothing but the prefix it replaces;
* terminal ingress: bytes in flight stay within the budget, output reaches the
  terminal in order, "drained" means parsed, and a connection that stops lets go
  of everything;
* exec supervisor: a caller that was refused can rely on nothing having been
  written, a cancelled command is not written later, every call returns, and no
  entry of a running command is left without somebody to end it;
* personal sync: one row per record, no change forgotten, nobody's write
  replaced unseen, a record with a conflict left alone, and agreement in the end;
* metadata cache: a statement's invalidation reaches every key the statement
  changes (for some kinds of DDL it does not: section 4), in both copies, and an old answer that survives does not stay for ever;
* database sessions: a call works in the database it asked for, a file is not
  opened twice for one database, and no call waits for ever for a session that
  nobody gives back.

`PROJECT.json` lists the hazards by line, with the properties that watch each.

## 2. Modules

* `SharedSessions` - what sharing promises a consumer: sessions start, open,
  are obtained, shared, given back, withdrawn, expire when unused; nothing
  starts once admission is closed.  No locks, counts, waiters or timers.
* `SshSessionRegistry` - the bare registry.  `Sessions` is the refinement
  mapping to `SharedSessions`.
* `SshSessionService` - EXTENDS the registry, leaves out `retire` (the service
  does not expose it) and composes the registry's `UseNext` with shutdown.
* `SshSessionProofs` - theorems about the registry, among them that it implements
  `SharedSessions`, and then about the service, which rest on them.
* `SshSessionManager` - one manager with its consumers and its shutdown call.
* `SshSessionManagerProofs` - theorems about the manager.
* `AgentHistory` - the history and the messages made of it, as pure operators.
* `AgentTurns` - EXTENDS `AgentHistory`: one agent session with its tasks.
* `TerminalIngressQueue` - the queue: each operation cut where another thread
  may come between.
* `TerminalIngress` - EXTENDS the queue with the worker that reads a transport,
  the owner of the terminal and the parser worker.
* `TerminalIngressProofs` - theorems about a terminal connection.
* `ExecSupervisor` - the supervisor as a value: each of its calls is an operator
  that returns the new supervisor and the effects.
* `LocalTerminal` - EXTENDS it: the thread that owns the supervisor and applies
  the effects, the timers, the callers, the tracked entries and the shell.
* `LocalTerminalProofs` - theorems about it.
* `PersonalSync` - one device, its user, its passes and resolver, the folder, and
  what the other devices write there.
* `PersonalSyncProofs` - theorems about it.
* `MetadataCache` - the two copies of an answer, the lookups and the statements.
* `MetadataCacheProofs` - the theorem about it.
* `DbSessionPool` - the sessions of one database connection and the calls that
  borrow them.
* `DbSessionPoolProofs` - theorems about it.
* `AgentTurnsProofs` - theorems about the turns and the messages of a history.
* `MC*` - instances for TLC: symmetry sets, the lengths of the chunks, the agents'
  requests; the `.cfg` files fix the constants.

### The registry and the code

| Model | Code |
|---|---|
| `slots[k]` | `RegistryState.slots`; `Vacant` is an absent entry |
| a generation number | `CreationToken`: the number and the `Arc` identity, and the manager its flight makes |
| `caller[c]` | the acquire future of a consumer (`waiting`: at `receiver.await`; `answered`: resumed, not yet looped) or its `RegistryLease` (`holding`; `counted` is `counted_lease`) |
| `flight[g]` | the task of `spawn_creation`: `running`, then `exiting` until its `RegistryTaskGuard` drops |
| `manager[g]` | transport side of the manager: live, being disconnected by the reaper or stopped by the service |
| `reaper`, `reaperPermit` | `run_idle_reaper` (scan, sleep on a candidate) and the `Notify` permit |
| `idleSeq`, `now` | every idle candidate gets the same timeout, so candidates are ordered by creation; `now` is the last one whose deadline passed |
| `taskCount`, `taskPermit` | `task_count` and `task_notify` |
| `snapshot` | the value in the `watch` channel, without its `revision` |

An action is one block under the registry's mutex, together with the
notifications the same thread sends right after unlocking.  That is sound:
`Notify::notify_one` leaves a sticky permit and a `oneshot` is received at any
later time, so a delayed send is a delayed receive, which the model has.
A flight or reaper step is guarded by `~cancelled`: in the code a flight may
still win a race against its cancellation, but the slots are drained in the
block *before* the cancellation, so such a flight finds its slot gone, which is
`FlightStale`.  `ReaperElapsed` does not require that no permit is waiting:
a notification can arrive after the `select!` polled for one, and then the
candidate is stale and `take_expired_manager` must decide.  The biased
`select!`s are over-approximated in the same spirit.  Bounds `MaxGen` and
`MaxIdle` guard starting a flight and cancelling an idle deadline; a release is
never blocked.

### The service and the code

`closer` are the futures of `shutdown()`; `driver` is the detached
`run_shutdown`.  `ShutdownCall` is the first locked block, `ShutdownGates` is
`begin_shutdown` and the spawn.  The driver joins the managers, waits for the
task counter (check, then park on the notification) and may time out at either
await; then it counts and aborts what is left, finishes the lifecycle and
publishes.  Disconnects the reaper had begun are aborted at shutdown and are not
part of the report, as in the code.  `failed_managers` is left out: a manager
whose shutdown failed counts as completed there, too.  `DropService` requires
that no acquire is running: each borrows the `Arc`.

### The manager and the code

`task[t].pc` names the await at which a consumer's future is suspended.
`request_shutdown` takes only the publication lock, which orders it before or
after each checkout and publication block.  `TaskDropped` drops a future
anywhere: an owner's guard abandons its flight.  `replace_config` is followed
by `disconnect` and `client()`, as its doc comment asks
(`session_manager.rs`, `SshSessionManager::replace_config`) and as
`crates/terminal/src/terminal.rs` does on reconnect; in the code the generation
is behind a lock of its own, and a replacement between the generation check and
the publication behaves as one after the publication, because the replacer's
`disconnect` must wait for the state mutex.  Whether a probe pings depends on a
throttle; the model lets every probe find its client alive or dead.  A client
that was published, evicted and is no longer held goes with its last `Arc`;
that is not modelled.

### The agent session and the code

| Model | Code |
|---|---|
| `active`, `pending`, `cancelled` | `TurnState`; `active` names the task instead of the `ActiveTurn`, whose turn is `turn[active]` and whose token is `token[active]` |
| `registered` | the session manager's map: `removed` is between the two steps of `close_session` |
| `pc[t]` | where a future stands: `announce`, `resolved`, `emit` are after the lock and before the event; `summarize`, `sample`, `stream`, `tool` are awaits |
| `script[t]` | what the loop still does with a response: the writes, the batches of tools, the pause |
| `response[t]` | the calls of that response, sorted as the loop sorts them |
| `notice` | turns whose `TurnCancelled` `interrupt` has yet to send |
| `asked`, `granted` | not in the code: calls put to the user, and approvals not yet used |

The handling of a response is deterministic once the response is known, so
`Respond` computes it as a script and one action performs one step of it: each
write is one `with_writable_turn`, each batch one round of
`ToolRouter::dispatch`.  The calls of a response come in any interleaving of
refused, gated and executable ones; the loop only sorts them, so the model
chooses the three sorted sequences.  A batch of parallel tools starts as one
step: whether a tool that was started finishes or is dropped by the `select!`
shows in nothing but its observation.  `approve` and `reject` look the session
up and take the approval in one step; a session that is closed in between has no
approval left.  The size threshold of compaction is a free choice, the cooldown
after a summary is exact.  A decision of the user is dealt with before the loop
of its turn starts again at its first pass (`NextIteration`).  Call identifiers are model values: a response names
each once, later responses may use it again.

Left out: `restore_session` and a second session, text deltas, the plan and
subagent tools, `set_active_turn` (used by tests only), a panic of a task.

### The terminal ingress and the code

| Model | Code |
|---|---|
| `at[c]` | how far the send, the lane entry and the reservation of chunk `c` are; `TerminalIngressQueue` lists the stages |
| `reply[c]` | what its last send returned: `Ok`, `Full`, `Closed` |
| `freeBytes`, `bytesClosed` | the permits of `byte_permits` in nobody's hand, and `close()` of that semaphore |
| `pendingBytes` | `pending_bytes`, the counter beside it |
| `lane`, `freeSlots`, `lanesClosed` | the data channel, its free places, and `close()` of both receivers |
| `control` | the one control a source sends, and its send |
| `senders` | who holds a live `TerminalIngressSender` |
| `worker`, `read`, `pending` | the `select!` loop of an SSH or Telnet task or the loop of the serial thread; `pending` is the send it keeps as a future (SSH, Telnet) or blocks in (serial) |
| `owner` | the backend's stop: its steps, or its drop |
| `parser`, `guard`, `closing`, `completion` | the parser worker: where it is, the reservation it holds, whether it saw `SourceClosed`, and its `completion_state` |
| `Bytes` | the total length of a set of chunks, a constant with the laws of a sum |

A send is several steps because each of its effects is visible to somebody:
permits, counter, slot, the second look at the abort token, the entry.  A step
of a pending send needs that its owner polls it (`Polled`), which is exactly what
a worker does not do while it sends the chunk of a disconnect message or after
it left its loop.  The semaphore hands permits to a waiter before the waiter runs
(`AssignBytes`), and a later request finds nothing then.  Which of two waiters is
served first is left open; no transport has two waiting sends at a time.
Empty payloads and ones larger than the budget are not offered: the transports
skip the former and read or split below the budget.
Left out: the other branches of the workers' `select!` (input, resize, ZMODEM,
expect scripts, exec supervision), the splitting of one large SSH chunk into
several sends, and the peak counters.

### Personal sync and the code

| Model | Code |
|---|---|
| `rows[l]` | a row of the connections table: content, `cloud_id`, `updated_at`, `last_synced_at`; a deleted row's id is not used again |
| `records[r]` | a record file of the folder: version, content, time, deleted |
| `conflicts[r]` | `personal_sync_conflicts`, with both snapshots |
| `pending`, `active`, `dirty` | `WorkerState`; deletions carry the record, every other event is `Scan` |
| `at`, `items`, `listed`, `deletes`, `paused`, `todo`, `work` | the pass: its phase, what it listed, what the phase has still to treat and the element it is at |
| `resolve` | a running `use_local` or `use_cloud` |
| `form` | an open connection form with the sync columns it copied when it opened |
| `unlisted` | not in the code: a change no pass has listed |
| `reverted` | not in the code: a form wrote back a cloud id that sync had replaced |

Each read and each write of the database or the folder is a step; a record
write checks the version it read before, and the check and the write are two
steps, as in the code.  The planner is a handful of set operators on `items` and
`listed` (`Uploads`, `CloudUpdates`, `LocalUpdates`, `Clashes`, `Downloads`,
`Marks`).  Times are seconds and may not move between an edit and an upload.
A version is a number, and content is one of `Contents`: sync only asks whether
row and record differ.  Left out: credentials and workspaces (their deletion can
be refused), connections excluded from sync, the git store, the status and the
manual run of the runtime, which uses a worker of its own.

### The local terminal and the code

`sup` is the `ExecSupervisor`, without its epochs, which nothing but messages
reads; an operation is named by its id.  A call of the supervisor is one operator
and a `Handle*` action is one iteration of `run_local_exec_supervisor`: take a
command, call the supervisor, apply the effects in their order.  `results` is
`exec_results`, `timers` are the threads that `ArmTimeout` spawns, `reply` is what
went into the `oneshot` of a caller that still listens, `entry` is the
`CommandEntry` that `ssh.command.poll` shows.  `loop` is Alacritty's event loop:
`exited` is between its `Exit` event, which sends `Disconnect`, and the end of its
channel, when writes begin to fail.

Input of the user, interrupts and the closing of the tab may be sent at any time,
so where they stand in the queue is as free as when they are sent: the model lets
the thread take them at once.  `Disconnect` is sent by the thread that sends the
chunks, so it stands behind these.  A chunk with several markers is taken marker
by marker; the queue holds them side by side, so nothing comes between.  A call
that is cancelled before it sends, or finds the thread gone, leaves nothing
behind and is left out.  The shell is an environment: it reads lines, runs them,
ends them when it likes and prints the markers of `shell_integration.sh`, or only
those of the prompt as the Windows scripts do; while a command runs, what is
typed is read by it or stays for the shell.  Bash prints the command marker once
per simple command; the model prints it once.

### The metadata cache and the code

| Model | Code |
|---|---|
| `Key` | the entry types of `metadata_cache.rs` for one schema with one table or view |
| `memory[k]`, `file[k]` | the entry in `memory_cache` and the one in the cache directory: a number, `NoEntry` for none |
| `versionOf[e]`, `over` | what the entry says, and whether `created_at` + TTL has passed; the memory's TTL and the file's are computed of the same time |
| `reader[r]` | a lookup: `get` (memory, file, what it does with the file), the query, and the spawned tasks that cache the answer and write its file |
| `writer[w]` | a statement that took effect and what its invalidation has still to remove; `plan` is a sequence because `invalidate_type` is called for one type after the other |
| `schema[k]` | not in the code: the version of what the database holds |
| `exposed` | not in the code: the keys whose lookup met an invalidation or whose invalidation did not take place |

`KeysOf` is `handle_event` and `Conservative` what the manager does when a
stream ended in a way it cannot judge.  What a plan reaches depends on how the
event was built: of `DROP TABLE a, b` and `RENAME TABLE a TO b, c TO d` the event
has the first name only (`DropTables` and `RenameTables` are the statements in
which the keys' table comes later), the event of a dropped or altered index has the
table `""`, and so has that of a created trigger in whose text no `ON` was found
(`CreateTriggerUnnamed`).  A step that goes to another table, or to the table
`""`, removes nothing of the keys here: `OtherTable`.  `Changed` is what the
statement does in a server: the objects it names and what belongs to them, not
what `CASCADE` takes along.  Where servers differ it is the larger set: MySQL
lists views with the tables and takes a schema for a database.  The program as it
is looks up, through the cache, databases, schemas, tables, columns, indexes and
foreign keys; the other keys have functions in `cache_manager.rs` that nothing
calls yet, and the table's triggers and checks not even those.  A statement whose call fails after it took effect, or
whose session was dropped, invalidates nothing; that is a disjunct of `Execute`.
A file that is read while it is written does not parse, and one that is torn by
the end of the program is discarded at the next read.  The bound `MaxEntry`
guards the caching of an answer, `MaxDdl` the statements.
Left out: the parsing of SQL into events, the tree nodes that
`GlobalNodeCache` keeps beside the entries, the refresh of a connection or a
database by the user, `clear_all` and the sizes at which
memory evicts (`Evict` may happen at any time).

### The database sessions and the code

| Model | Code |
|---|---|
| `singleFile` | `ConnectionLifecycle::single_file` (DuckDB, drivers that say so): `close_on_release`, and a lock of the file; otherwise a server whose sessions may switch databases |
| a session | named by the call that connected it; ids are not used again |
| `pool`, `used` | the sessions of the connection in `ConnectionManager.sessions`, and their `in_use` |
| `label[s]`, `at[s]` | `connection.config().database`, and the database the server has the session in |
| `pc[c]` | where a call is: at the lock of the file (`lock`), before the lock of all sessions (`acquire`, `push`, `held`, `release`, `reuse`, `close`), at the server (`connect`, `exec`), waiting for its user (`open`) |
| `opening`, `guard` | the `physical_open_lock` and the write lock of `sessions`, where they are kept across an await |

A block under the lock of all sessions is one action, the pings and closings in
it included, for the lock is held over them; executing is two, because the
statement may take as long as it likes and everybody else waits.  The kinds of
calls differ in what they do after executing (`After`): `with_plugin_session` and
its likes release, `execute_with_session_internal` closes or, for a transaction,
releases for reuse, a stream closes, a manual transaction keeps its session.  A
script that fails leaves through `?` and gives nothing back (`lost`), and so does
any call whose future is dropped.  An idle session that is expired, and one that
has lived its half hour in use or not, are one `Expire`.  What the model says of
a server that switches databases covers one that does not.  Left out: several
connections in the one map, the schema of a session, a change of the
connection's config, what is executed, and that an open that was dropped goes on
in its blocking thread.

## 3. Runs

| Run | Instance | What it shows |
|---|---|---|
| `registry` | 2 keys, 2 consumers, 2 generations, 2 idle candidates | exact lease counts, newest generation current, truthful snapshot, refinement of `SharedSessions` (which contains that only an unused, expired manager is taken); every waiter is answered, an idle generation leaves |
| `service` | 1 key, 2 consumers, 2 generations, a closer that may give up and call again | managers may hang: retained leases and clones are gated, the report is truthful, the driver does not sleep through the end of the last task, the report comes by the deadline and the registry's tasks end |
| `manager` | 2 consumers, 2 flights, 1 replacement | single flight, nothing past the gate, new config reached, shutdown complete; waiters go on; shutdown ends |
| `turns` | 2 tasks, modes Manual and ReadOnly, a history of 1 item | the session is busy for a reason, one verdict, silence and no tool after a stop, approval before a risky tool, and every turn settles |
| `turns_history` | 2 tasks, modes Auto and Ask, 2 rounds, 2 calls, history of 5 | requests are legal, compaction keeps the suffix, with late and stopped tasks |
| `ingress` | 3 transports, 4 chunks, budget of 2 bytes, lane of 1 chunk | bytes within the budget, parsing in order, drained means parsed; a stop releases everything; a source that ends ends its parser |
| `sync` | 3 starting points, at most 3 events (edit, remote write, fault, resolution) at any step of a pass | one row per record, no change forgotten, nothing overwritten unseen or while a conflict waits, convergence |
| `exec` | a command and a text of two agents, posix and Windows shells, 1 input or interrupt in a posix shell | a refused command was not written, a cancelled one stays unwritten, a timed-out one is followed, every call returns |
| `metadata` | 2 lookups of the indexes of a table, 2 entries, the table dropped or renamed, an index or a database created | an invalidation that no lookup overlaps leaves no old copy; an old answer is not given out for ever |
| `db_sessions` | 2 calls of 4 kinds, 2 databases or none, a file or a server | a session is used in the database asked for, a file is not opened twice for a database, every call returns |
| `turns_mixed`, `sync_deletion` | small | violated on purpose: see section 4 |

Why the bounds are enough.  Two generations are a current one and a stale one,
which is what every token check tells apart; two consumers can hold, clone,
wait and cancel against each other; two keys let one deadline precede another.
Two idle candidates are one that a reacquire cancels and the one that replaces
it, or one on each key; beyond them a release is still possible, only not
cancelled again.  One key is enough for the service, whose drain takes the slots
one after the other in one block; that more keys and more callers of `shutdown`
change nothing for its safety properties is proved in section 5.  In the manager two consumers are an owner
and a waiter, either of which may replace the config, and two flights are the
one with the old config and the one after; that more consumers change nothing
is what the proofs of section 5 show for the safety properties.  Two tasks are a
turn and its resumption, or a turn and one started after a stop; one round of
the loop is enough for a task to meet each of its awaits.  A history of five
items holds an exchange of two calls with the reasoning before it, and is
exceeded by the next item; every response of that run reasons, and the limit
leaves calls without their reasoning behind.  In the ingress the third chunk is as large as the
whole budget and every other has one byte: the first two fill the budget, the
third must wait for all of it, the fourth waits behind; a lane of one chunk
makes the second wait for a slot with its bytes in hand.  In sync two contents
suffice, because contents are only compared for equality; `MaxEvents` is the
number of things that happen to a pass from outside, three of which are an edit,
a remote write and a fault against each other; the starting points are a device
that never synced, one in sync, and one edited on both sides, so that a conflict
needs no event.  One form is open at a time.  In the terminal the text of the second agent makes
the line dirty, so that the command of the first has to clear it, wait, be
refused or be followed; one input of the user comes into each of its phases (a
Windows shell runs without one, to keep the run short), and
`MaxQueued` only keeps the shell from printing a second prompt before the first
was looked at.  Two entries of the cache are an old answer and a new one, two
lookups one that brings an old answer back and one that meets it; one statement
changes the database once, and a second would only make what is old older.  One
key suffices for `metadata`, because keys meet in the steps of a plan only; the
indexes of a table are reached by plans of one step, two, six and eleven, which
may begin with another table's.  Its statements are of kinds whose plans reach
that key; which do not, and the proof for all keys and kinds, is in section 5.
Two calls of a database are the one that leaves a session behind and the one
that finds it, or two that meet at a file; that more change nothing is proved in section 5.  A stop in any state is
normal (consumers may simply stop), hence `CHECK_DEADLOCK FALSE`: what must not
stop is stated by the liveness properties.

Fairness.  Tokio polls every spawned task and time passes: weak fairness on the
steps of flights, reaper and driver, and on the passing of deadlines.  Nothing
is assumed of consumers, of `retire`, or of the choice whether a flight
succeeds; in `service` nothing is assumed of a manager's own shutdown, so
that only the deadline can end the join.  The agent's tasks are polled, and
models and tools are assumed to answer at some time, which is an assumption on
the services behind them and not a fact of this code; nothing is assumed of the
user.  In the manager a dial ends because `ssh.rs` connects under a timeout, and
a future that was not dropped is polled.  In the ingress the semaphores hand on
what is free, and worker, owner and parser go on once they have something to do;
nothing says that the transport is ever read, ends, or that anybody stops it.
The terminal's thread and the threads of its timers run, and a caller whose answer
is there is polled; nothing is assumed of the shell, of the user or of the end of
the terminal.  A lookup and an invalidation that began go on, and the TTL of every entry passes;
nothing says that anything is looked up or executed.  The locks of the database
sessions are fair queues (tokio's `RwLock` and `Mutex`), so a call that can go on
again and again, while others take the lock in between, goes on in the end: strong
fairness of calls and of the cleanup, which closes every session that grew old;
nothing is assumed of a user in a manual transaction.  In sync the timer asks for a scan every minute, and a drain and a resolution are
tasks that go on; nothing is assumed of the user and the other devices.

Every property of every run has a mutant of the modelled code that breaks it
(`PROJECT.json`, operators marked `Mutant` in the modules): a missing token
check, a lost notification, a forgotten counter.

## 4. Where the code and its documents disagree

Two runs state what a comment or a test says and end in a counterexample.

* `turns_mixed`, `LegalCallsKept`.  In Manual mode a response with one call that
  needs approval and one that does not pauses with the former and forgets the
  latter: it is neither written to the history nor run (`tasks/agent.rs:305`;
  the comment at line 269 says that all legal calls are written).
* `sync_deletion`, `DeletionStays`.  A connection is deleted while a pass that
  listed it runs: that pass downloads the record again, and the next one, which
  marks the record deleted, plans the downloaded row as an upload and revives
  the record (`personal/worker.rs:184`; the test
  `worker_tombstones_record_for_local_delete_event` says the record ends deleted).

Seen while modelling, without a run of their own:

* A pass deletes the row of a record that another device deleted, without looking
  whether the row was edited meanwhile (`personal/worker.rs:239`,
  `DeleteTombstoned`); the manual's page on sync security, line 19, says that a
  deletion against an edit is a conflict.
* A prompt is taken for an empty line even if the user typed ahead of it, and the
  start of a command that was not seen submitted is ignored: the supervisor
  believes the shell ready while it runs the typed-ahead line, takes further
  typing for unsubmitted text, and clears it with a Ctrl+C that interrupts the
  command (`exec_supervisor/operation.rs:92`); the description at
  `crates/public_mcp/src/tools/terminal_exec.rs:43` says that `terminal.exec`
  never interrupts a running command.
* The file of a cached answer is written by a task that an invalidation neither
  waits for nor cancels: written after it, the file gives the old answer out again
  (`metadata_cache.rs:521`); the test at line 824 asserts that nothing is given
  out after an invalidation.
* Every event of a dropped or altered index is built with an empty table
  (`ddl_invalidator.rs:352`, `521`, `672`), so what is invalidated is the key of the
  table `""` (`ddl_invalidator.rs:959`), and the old list of the table's indexes is
  given out until its TTL ends or the user refreshes; the doc of the cache,
  `metadata_cache.rs:6`, says that DDL invalidates it.  The table designers of
  SQLite, SQL Server and Oracle issue such a `DROP INDEX`.  With
  `Key = {"indexes"}` and `Event = {"DropIndex"}` TLC refutes `CleanInvalidation`
  in eight steps: a lookup caches the list, the index is dropped, its
  invalidation ends, and the old list is still in memory.
* Dropping a schema invalidates the list of schemas only; what was cached of its
  tables, views and the rest stays (`ddl_invalidator.rs:1038`), against the same
  doc.  `Key = {"tables"}` and `Event = {"DropSchema"}` show it in as many steps.
* Other keys that a statement changes and its event does not reach (`Missed` in
  `MetadataCacheProofs` lists them all): the keys of a table that `DROP TABLE` or
  `RENAME TABLE` names after another; the columns of a view that is replaced or
  dropped; the list of databases when MySQL creates a schema.  And of lists nothing
  looks up through the cache yet: the database's triggers or the sequences when a
  table is created, altered, dropped or renamed, and the triggers of a table whose
  trigger is dropped, or created by a text without a recognised `ON`.
* `update_connection` closes the sessions of the old config, but not one that is
  being connected with it: it joins the pool afterwards and is given to calls
  with the new config, since only the databases are compared (`db_equals`).
* Two calls that name different databases, or none, open the same DuckDB file
  side by side; the tests of the pool say that a file "should not be opened by two
  physical connections concurrently" and ask for one database only.
* A session that a script left with an open transaction is idle and is given to
  any call of its database, which may close it.
* `TurnStarted`, `ToolApprovalResolved` and `NeedUserInput` are sent after the
  lock is released and can arrive after the `TurnCancelled` of their turn, which
  `runtime/event.rs:129` calls terminal.
* The observation of a refused call has no call before it; directly after an
  exchange, that exchange counts as incomplete and is sent as text from then on
  (`planner/prompt.rs`, whose comment promises the native protocol).
* A downloaded row is stamped with the local second and its sync with the
  record's, which is earlier: when the record changes again, the row counts as
  edited and becomes a conflict nobody caused.
* A connection form writes back the `cloud_id` and `last_synced_at` it copied
  when it opened: saved after the first upload, it makes the connection upload
  once more, as a second record.  That record's copy is a row of its own in the
  end, so the device still settles.
* Such a form can also free a record of its row for a moment: saved without the
  cloud id, while a conflict of the record waits, it leaves the record without a
  row, a pass lists it so, and a `use_cloud` that ends before the pass makes its plan gives the
  row the record back.  The pass then downloads the record into a second row,
  or, if it takes the row for an upload, replaces the record without comparing
  versions.  The proof of `OneRowPerRecord` stopped at this step and TLC confirmed
  it along that path; it takes six events from outside, three more than the `sync`
  run has.  `OneRowPerRecord` and `NothingOverwritten` therefore say "until a form
  takes a connection its cloud id away" (`reverted`).
* `use_local` compares with the version in the conflict's snapshot; once the
  record has moved on, every further attempt fails.
* `LocalDeletedRemoteModified` is constructed nowhere.
* A session that is closed between the lookup and the activation of a new turn
  (`runtime/mod.rs:159`) gets a turn that `interrupt` no longer reaches; the model
  has it, no document says what should happen.

## 5. Proofs

`SshSessionManagerProofs` proves, for any finite set of consumers and
any bounds, that `Spec` implies `[]` of the type invariant, `SingleFlight`,
`ShellOfCached`, `NewConfigReached` and `ShutdownComplete`, and the action
properties `NothingPastGate` and `StaleReportHarmless`.

None of the five is inductive.  `ManagerInv` adds what carries them:

* `FreshInv`: exactly the flights beyond `lastFlight` have not begun, so a new
  number is new;
* `OwnerInv`: a future that owns a flight owns the running one in `connecting`,
  there is no other owner, and nothing is cached meanwhile;
* `TaskInv`: the flight a suspended future remembers was really started, and a
  waiter about to clear a flight saw it abandoned;
* `CacheInv`: a cached flight has completed, the one in `connecting` has begun;
* `ConfigInv`: from the moment a consumer has replaced the config and
  disconnected, whatever is cached was dialled with that config or a newer one;
* `StopInv`: what each stage of `shutdown` may rely on: the gate is closed, only
  the flight it found may still be under way, and a transport it has dealt with
  is not open.

Each action has an effect lemma; the preservation proofs go action by action.
The only assumptions are those on the constants (`TaskAssumption`,
`FlightAssumption`), which TLC evaluates in the manager run.

The first part of `SshSessionProofs` proves, for any set of keys, any finite set of
consumers and any bounds, that `RegistrySpec` implies `[]` of `TypeOK`,
`LeaseCountExact`, `IdleIffUnused`, `NoLeaseOfReaped`, `NoStrandedWaiter`,
`CurrentIsNewest`, `TaskCountExact` and `SnapshotTruthful`.  The inductive invariant `RegistryInv`
is their conjunction with

* `GenerationInv`: the generations up to `nextGeneration` have a key and a
  flight, those beyond nothing; a manager exists only once its flight published;
* `SlotInv`: a slot that is taken belongs to a generation of its key, being
  created by a flight that runs or published with a live manager, so two keys
  never share a generation;
* `LeaseInv`: a lease names a published generation under that generation's key,
  and one that is *not* counted is of a generation that is no longer current;
* `WaitsForKey`: a waiting acquire names its key.

`LeaseInv` is the heart of it.  That the reaper takes nothing in use follows
neither from the count nor from the token check alone: `leases = 0` excludes
counted leases (`LeaseCountExact`), the current token excludes uncounted ones
(`LeaseInv`).  The types are not preserved by themselves either: the task
counter stays natural because it is exact.

`SnapshotTruthful` compares a sum that the code takes over its slots with the
leases the consumers hold.  The sum is a recursion over sets of keys: the numbers
of leases held of each set of keys solve its equation (`HeldCountSums`), and two
solutions would differ first at a smallest set, which has no smaller one to
differ at (`SumUnique`).  A step either publishes, and then shows what is true, or
changes nothing that is shown (`StepPublishes`).

This part ends with `RegistrySpec => ImplementsSharedSessions`
- each action is one of `SharedSessions` or changes nothing of the mapped
state - and the action property `ReapsOnlyExpired`.  The assumptions are those
on the constants (`KeyAssumption`, `CallerAssumption`, `BoundAssumption`).

The second part proves, for the same constants and any set of shutdown callers, that `ServiceSpec` implies `[]` of `RetainedLeasesGated`, `NoLostWakeup`
and `ReportTruthful`.  The inductive invariant `ServiceInv` is `RegistryInv`, the
first two of these and

* `GateInv`, `HeldInv`, `LiveInv`: while admission is open no gate is closed,
  every lease is of a *current* generation and every live manager is current;
  once it is closed every slot is vacant and every gated generation is published;
* `StartInv`: one caller is between claiming the shutdown and spawning the driver,
  and the driver exists only once admission is closed;
* `DriverInv`: `gated` is what the driver was asked to stop; managers outside it
  were reaped, rejected or never made (`OthersInv`), and per stage: not started
  (`OffInv`, `SpawnedInv`), joining with `requested` = completed + join set
  (`JoiningInv`), and after the deadline's decision (`SettledInv`);
* `ReportInv`: the report that is published is the driver's, and a caller returned
  only with it.

Why no lease escapes the gates: the drain closes the gate of every *live slot*,
and a lease could be of a generation that is in no slot any more - but while the
registry runs, only the reaper and the drain take a slot away, and the reaper
takes nothing in use, so at the drain every lease is of a current generation
(`HeldInv`).  After it no lease is made except by cloning one.  The registry's
invariant survives because the drain only vacates slots (`DrainKeeps`) and what
the driver does to managers is invisible to a registry without slots
(`StoppingKeeps`).  No wake-up is lost because the last task leaves a permit and
only the driver takes it (`TaskEffect`).

`TerminalIngressProofs` proves, for any number of chunks, any budget and any
lengths that fit it, that `Spec` of `TerminalIngress` implies `[]` of
`IngressTypeOK`, `WithinBudget`, `ParsedInOrder` and `DrainedMeansParsed`.  The
inductive invariant `IngressInv` has two halves and a frame (`WorldInv`, the
types of the rest).

* `BudgetInv` says what the three counters are: the free permits and the lengths
  of the chunks at the stages that hold permits add up to the budget, the
  pending-byte counter is the sum over the stages that are counted, and slots
  are counted by the stages that occupy one.  A step moves one chunk from one
  stage to another; `MoveBytes` and `MoveSlots` say what that does to a sum, so
  each step is a comparison of stages.  That the counter never wraps below zero
  is not a property of any single subtraction but of these sums.
* `DeliveryInv` follows an accepted chunk: it is queued, held by the parser,
  parsed, or - once the parser left its loop - dropped.  `OrderInv` is the heart
  of it: whatever a send may still put into the lane was read after everything
  that was accepted, which is what a worker guarantees by keeping at most one
  chunk outside the queue and offering nothing past it.  `DrainedInv` rests on
  both halves: the counter is zero only if no chunk is queued or taken, and
  after `SourceClosed` no send is left (`ControlInv`).

Most steps are `Quiet`: they accept nothing and move no accepted chunk into or
out of a lane; one lemma shows that such a step keeps `DeliveryInv`.  The laws
of `Bytes` (`BytesAssumption`) and `BudgetAssumption` are the only assumptions;
TLC evaluates them for the sum that the `ingress` run uses.

`MetadataCacheProofs` proves, for any keys, lookups, statements and bounds, that
`Spec` of `MetadataCache` implies `[]CleanInvalidation` if no key that is looked
up is in `Missed(event)` for a kind of DDL that is run.  `Missed` lists, per kind,
the keys that such a statement changes and its event does not reach (section 4);
that the list is exact, with no key too many, is proved with it: of the keys a
statement changes, each of its plans reaches those that are not in `Missed` and
no other (`PlansCover`), and all of `Missed` is changed (`MissedIsChanged`).  The inductive invariant `CleanInv` is about the keys that
were never exposed: such a key is looked up or handled by a statement, never both
(`Apart`); what a lookup holds is current (`LookupsCurrent`); and for each
statement that changed the key, both copies are gone already, or the key is in
what the plan has still to do, or in the step that has emptied memory and is
about to remove the file (`StatementsTend`).  Only `PlansCover`,
`MissedIsChanged` and the lemmas they rest on look into the plans.
`KeyAssumption`, that the keys are entry types, is the only assumption.

`DbSessionPoolProofs` proves, for any calls, databases and kinds of calls, that
`Spec` of `DbSessionPool` implies `[]` of `TypeOK`, `RightDatabase`,
`OneSessionPerFile` and `OneUserPerSession`.  The inductive invariant `PoolInv`
is the types, `RightDatabase`, `OneSessionPerFile` and

* `JoinedInv`: a session is in the pool, or held, only after the call that
  connected it gave it in, so the name of a session is not used twice;
* `HolderInv`: whoever holds a session of the pool holds one marked as in use,
  alone.  Without it a session could be chosen while another call switches it;
* `LabelInv`: an *unused* session is labelled by the database the server has it
  in.  A used one need not be: a call that was dropped after the switch leaves a
  wrong label, and what saves the next user is that nobody gets that session;
* `OpeningInv`: on a file the opening lock is held from the look into the pool
  until the new session has joined it; two sessions of a file could otherwise be
  connected after the same look.

It assumes the constants' `CallAssumption`, `DatabaseAssumption` and
`KindAssumption`.

`AgentTurnsProofs` proves, for any set of tasks, any calls and modes and any
bounds, that `TurnsSpec` implies `[]TurnsTypeOK`, `[]BusyForAReason` and
`[]OneVerdict`, and the action properties `StoppedStaysStopped` and
`ApprovedOnly`.  The inductive invariant `TurnInv` is the types, `OneVerdict` and

* `BusyInv`: a turn that has not begun has left no trace (`NamesInv`), so a new
  turn is new; a cancelled token belongs to a cancelled turn and the active turn
  is not cancelled (`TokenInv`); of the tasks of one turn one runs (`OneRunner`),
  which is what lets `clear_active_turn_if` compare nothing but the turn;
* `VerdictInv`: a turn that is active, waits for the user or is about to be
  announced as interrupted has no verdict yet, these three exclude what they
  must, and a task on its way to give a verdict is the only one and has made the
  turn inactive.  The verdict is sent after the lock is released, so "who cleared
  it, speaks" is the property, and neither the lock nor the token gives it alone;
* `LoopInv`: who samples has passes left, which keeps the counter typed.  It
  needs `MaxIterations >= 1` (`MIN_AGENT_MAX_ITERATIONS`, `runtime/mod.rs:45`);
* `ScriptInv`, `WritesInv`: a script writes for its own turn only and runs each
  call once.  The second is why a batch may use up its approvals: no later batch
  of the script needs one of them;
* `ConsentInv`: an approval that is pending was asked for, and every risky call
  that a script of a Manual turn has yet to start has been granted.

`StoppedStaysStopped` follows because a writer and a dispatcher look at the token
and the active turn under the lock, `ApprovedOnly` because the only scripts that
run risky calls in Manual mode come from a decision of the user.  `AgentHistory`
and the scripts are built of boundaries in sequences (where a run of calls
begins, where a batch ends); that each of them exists and lies where it should is
proved without induction, from the least position of a set (`LeastNatural`).
The assumptions are `TaskAssumption`, `BoundAssumption` and `ModeAssumption`.
TLC checked `TurnInv` as an invariant of the instance of `turns` before it was
proved.

The rest of the module is about the messages that are made of a history.  It
proves `[]LegalProtocol` and `CompactionKeepsSuffix`, and needs of `TurnInv` no
more than that a history is a sequence of items: since two tasks may write at any
time and the limit and a compaction cut anywhere, `history_to_messages` has to
cope with *every* sequence, and `LegalMessages` and `CompactedMessages` say that
it does.

* `Messages` is a recursion over the positions.  That it has a solution, and that
  the solution is built item by item (`Collects`), is proved from the least
  position where it would fail; so is `Grows`, that later items only add.  An
  item adds one message at most (`ItemMessage`), so every message has an item
  that made it (`AddedBy`).
* The first call of a complete exchange makes one message, the other calls none
  and each observation one (`ExchangeMessages`), so the answers stand right
  behind their calls.  The message after the last one is not another answer
  (`ExchangeEnds`): its item would be in a later exchange, whose own first call
  has made a message before it.
* A compaction cuts at an edge (`FirstKeptProperties`): the first item kept is not
  inside an exchange, and not a call whose reasoning stays behind.  Seen from the
  items after the cut, the runs of calls and observations are then where they
  were (`CutWalkOn`, `CutExchange`, `KeptExchange`), so each item makes the
  message it made before (`CutMessages`, `CutCollected`).

`LocalTerminalProofs` proves, for any operations, any request each of them makes,
both kinds of shell and any bounds, that `Spec` of `LocalTerminal` implies `[]` of
`TypeOK`, `RefusedNotWritten` and `TimedOutStillFollowed`, and the action property
`CancelledStaysUnwritten`.  None of the three is inductive: each compares what a
caller was told with what becomes of a request that is still on its way.  `TermInv`
says where it is.

* `CallInv`, `RequestInv`, `OnceInv`: a call that has not begun has left no trace,
  a request that is still in the queue was not written and is followed by nobody,
  and it is in the queue once;
* `UnwrittenInv`: what the supervisor holds back for a prompt was not written, and
  what was refused is neither held nor queued any more - also while the answer is
  still on its way to the caller;
* `CancelInv`, `BehindInv`, `GoneInv`: a cancellation stands in the queue *behind*
  the request it is for, or is on its way to the supervisor that holds it, unless
  the thread is gone, which has emptied the queue.  This is why the thread cannot
  meet the request after the cancellation;
* `FollowedInv`: the operation whose caller was told that it took too long is the
  one the supervisor observes, while its entry runs.

Each call of the supervisor is summarised once, by `Acts`: whom it may follow
afterwards, what it may write or refuse, and what it must go on following.
`ApplyKeeps` carries that through the effects the thread applies, so that the
proof of a step is the lemma of the call it makes.  It assumes `OpAssumption` and
`RequestAssumption`.  TLC checked `TermInv` on the instance of `exec` before it
was proved.

`PersonalSyncProofs` proves, for any contents, any numbers of rows, records and
seconds, and any numbers of edits, remote writes, faults and resolutions, that
`Spec` implies `[]` of `SyncTypeOK`, `UnlistedChangeQueued` and
`OneRowPerRecord`, and the action property `NothingOverwritten`.
`UnlistedChangeQueued` is inductive as it stands.  The inductive invariant
`SyncInv` is the types and, until `reverted`, `CloudInv`: what a pass may still
rely on of what it read.

* `RowsInv`: no two rows of one record, and the record of a row exists;
* `ItemsInv`: a row that was listed with a record still belongs to it unless it
  was deleted, and that record was listed too, because rows are listed first;
* `MissingInv`: what was listed as a record without a row has none until it is
  downloaded, and a row that was listed without a record has none until it is
  uploaded.  This is what a form that writes an old cloud id back would break;
* `TombstoneInv`: when the plan is made, the rows of records that were listed as
  deleted are gone.  So a planned upload of a row *with* a record can only be of
  a record this device deleted itself;
* `ConflictInv`: a conflict and a resolution are of the row of their record, and
  while a pass writes it knows of every conflict there is, since only the pass
  makes new ones, after it has written;
* `WorkInv`: what is being uploaded goes to a record that this device deleted, or
  to one that no row, no listing, no conflict and no other device knows.

Most steps keep the record of every row, let no record vanish and make none of
those this device may create (`KeepsRows`, `KeepsRecords`, `KeepsNew`,
`KeepsConflicts`); for them `KeptInv`, `TreatInv` and `EndedInv` show `CloudInv`
at once.  The two that do not, the mark of a new upload and a download, are
proved conjunct by conjunct.  The only assumption is `SyncAssumption`.  TLC checked `SyncInv`
on an instance with three rows before it was proved.

Proved and not run, because the model-checked properties of the same component
reach further: `TypeOK`, `IdleIffUnused`, `NoLeaseOfReaped` and
`ReapsOnlyExpired` of the registry, `ManagerTypeOK`, `ShellOfCached` and
`StaleReportHarmless` of the manager, `IngressTypeOK` of the ingress, `TypeOK`
and `OneUserPerSession` of the database sessions, `TurnsTypeOK` of the turns,
`SyncTypeOK` of sync, `TypeOK` of the local terminal.
`NoStrandedWaiter` and `TaskCountExact` of the registry are proved and not run
either: `EveryWaiterAnswered` and `NoLostWakeup` would fail with them.

Only model-checked: liveness (`Converges`, `EveryWaiterAnswered`,
`IdleGenerationLeaves`, `ShutdownConverges`, `NobodyWaitsForEver`, `TurnsSettle`,
`StopReleasesAll`, `SourceEndsParser`, `EveryExecReturns`, `StaleEnds`,
`CallsReturn`), because the prover has no ENABLED.  Every safety invariant and
every action property of a passing run has its theorem, `CleanInvalidation` for
the keys and kinds of DDL that `Missed` does not pair, among which are those of
its run.

## 6. Plan

1. Done: registry, service, manager, their abstract specification, runs and the
   proofs above.
2. Done: `AgentHistory`, `AgentTurns` and their runs.
3. Done: `TerminalIngressQueue` and `TerminalIngress` with their proofs.
4. Done: `PersonalSync`, its runs and its proofs.
5. Done: `ExecSupervisor`, `LocalTerminal`, their runs and proofs.
6. Done: `MetadataCache`, its runs and its proof.
7. Done: `DbSessionPool`, its run and its proofs; the proofs about the turns.
8. Done: the proofs about the messages of a history and its compaction.
9. Candidates: an abstract turn protocol for `AgentTurns` to refine, the plan and
   subagent tools; the SSH backend as a second owner of the supervisor; the
   approval grants of the public MCP server.

Not modelled at all: rendering and widget state, SQL generation of the database
plugins, protocol codecs and cryptography (string and byte work without
protocol state), process start-up, updates and packaging (plain I/O).  They are
by far the larger part of the source tree; the map counts against all of it.
