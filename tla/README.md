# hom in TLA+

hom is a terminal multiplexer for AI coding agents. Each pane runs a harness
(Claude Code, Codex, ...) as a local process on a PTY or as a remote one over
SSH; the user types into panes, an MCP client can drive them, and YAML workflows
open panes of their own, prompt them, collect their answers and go on from
there. This directory holds TLA+ models of that program, their model-checking
runs, and machine-checked proofs about them. Paths below are relative to the
root of the repository.

## The system

### Components

| Component | Source | State it keeps | Operations |
|---|---|---|---|
| workflow executor | `crates/hom-workflow/src/executor.rs` | results, statuses, outputs, `completed`, a `JoinSet` of step tasks | batch loop, step task with retries and fallback, collection of outcomes |
| workflow definitions | `parser.rs`, `dag.rs`, `condition.rs` | the graph | parse, validate, ready steps, evaluate a condition |
| checkpoints | `checkpoint.rs`, `crates/hom-tui/src/db_checkpoint.rs` | rows in SQLite | save a checkpoint, save a step result |
| workflow bridge | `crates/hom-tui/src/workflow_bridge.rs` | an unbounded channel | spawn, send and wait, kill, report a status |
| event loop | `src/main.rs` | channels, `should_quit` | the tick, commands, restore, quit |
| panes (App) | `crates/hom-tui/src/app.rs` | panes, `pane_order`, focus, pending completions and remote spawns | spawn, complete a remote spawn, focus, kill, poll, reap, shut down |
| PTY managers | `crates/hom-pty/src/manager.rs`, `remote.rs` | processes and sessions by id | spawn, connect, kill, wait |
| input router, layout | `crates/hom-tui/src/input.rs`, `layout.rs` | mode, key bindings | route a key or a click, place the panes |
| command bar | `crates/hom-tui/src/command_bar.rs` | line, cursor, history | edit a line, split and parse a command |
| PTY reader | `crates/hom-pty/src/async_reader.rs` | a thread and a bounded channel per pane | forward what the harness writes |
| adapters, sidebands | `crates/hom-adapters/src` | RPC child, its pending map | build commands, detect completion, prompt over RPC or HTTP |
| MCP server | `crates/hom-mcp/src` | a connection | one request at a time, forwarded to the loop |
| web viewer | `crates/hom-web/src` | a broadcast of frames, a queue of keystrokes | serve frames, take keys |
| database | `crates/hom-db/src` | SQLite tables | sessions, workflows, steps, costs |
| terminal, rendering, plugins, core | `crates/hom-terminal`, `hom-tui` (render), `hom-plugin`, `hom-core` | screens, configuration | emulate, draw, load, configure |

### How they interact

The event loop is one thread. A tick drains the results of remote connections,
draws, takes the requests of workflows, the MCP commands and at most one
terminal event, then feeds PTY output to the screens, polls pending completions
and looks for processes that exited. A workflow runs as a tokio task beside it,
with one more task per running step; those reach the panes only through the
bridge: a request with a oneshot sender goes into a channel, and the loop
answers it at once (spawn, kill), or when the screen shows completion, the time
is up, or the pane or its process is gone (send and wait), or hands it to a task
that talks to a sideband. A remote pane is reserved by the loop, connected by a
worker thread, and completed by a later tick. What a harness writes comes through
its reader thread and a bounded channel. The MCP server and the web server are
tasks with queues of their own; saves of a session are detached tasks. Quitting
waits for connections under way, gives background tasks two seconds, closes the
panes and drops the runtime, which waits for every blocking thread: readers of
terminals, and a read or write of standard input and output that the MCP server
left behind. Users, MCP clients and workflows
all kill panes, including each other's.

### What is hard about it

- outcomes of a batch arrive in any order, while the executor is suspended in
  the two writes of an earlier outcome, and an abort drops the tasks left;
- a fallback can be a step of the graph itself, and then runs both ways;
- a step's request is answered by a loop that shares the panes with everyone
  else: a pane may be killed, exit or time out between any two steps of a call;
- a remote pane counts against the limit before it exists;
- output, the exit of a process and the closing of its pane race each other
  through a reader thread, a channel and the phases of a tick;
- the MCP server waits for the loop and the loop's end waits for the server; a
  reader may be blocked on a channel nobody drains any more, or on a terminal
  that a descendant of a killed harness holds open;
- a session is restored by a program that may have been started with another
  `config.toml` and in another directory;
- frames, saves and replies overlap: a viewer misses frames, two saves pass each
  other, notifications act without being answered;
- one fact is kept in several places: the focus (App and router), the set of
  panes (map, `pane_order`, process managers), the end of a process (operating
  system, `exited`).

`PROJECT.json` lists these hazards one by one with the lines where they bite.

### What makes each component correct

- *Executor*: no step before its dependencies; a settled step stays settled;
  "completed" means every step settled; outputs are visible whenever conditions
  read them; the store never claims more than memory; the workflow returns.
- *Panes*: the limit holds; slots of connecting panes balance; the order, the
  focus and the router agree with the panes that exist.
- *Loop and bridge*: each call is in one place until its single answer, and is
  answered; steps never share a pane; nobody waits on a pane that is gone.
- *RPC sideband*: one child at a time; an answer finds its caller; a prompt is
  answered or fails with its child.
- *Input and layout*: a press reaches the pane seen under it; shown panes cover the
  screen without overlap; keys go to the focused pane.
- *Command bar*: the cursor stays at a character; a quoted argument arrives as it was.
- *Output and completion*: all output is shown, in order; a prompt is found.
- *MCP server*: one answer per request, in order, after its effect.
- *Web viewer*: the page comes to show what the panes show.
- *Sessions*: a restore opens the latest save, and its panes as they were first
  asked for, with the program and default model the configuration names now.
- *Shutdown*: when the loop has ended, every thread and task ends, unless it waits
  for somebody outside.

## The modules

| Module | Models | Correspondence |
|---|---|---|
| `WorkflowSchedule` | abstract: what the engine promises of scheduling | a step starts or is skipped when ready; finishing settles it and perhaps a stand-in; `completed` only when all settled |
| `WorkflowExecutor` | `execute_inner`, `execute_step`, DAG, conditions, checkpoint calls | `pc` is where `execute_inner` is suspended, `task[s].phase` the await a step's task is in; one action per stretch of code between awaits |
| `PaneManager` | App's panes, `PtyManager`, `RemotePtyManager`, the router's mode | one action per call; `ProcessExits` is the operating system's |
| `RuntimeCalls` | abstract: what the engine may rely on when it calls its runtime | every call is answered once, unless the application stops |
| `EventLoop` | `run_app`, the bridge, pending completions, connections | composes `PaneManager` (`Panes == INSTANCE`); `tick` is the phase, and one action handles one queued item |
| `RpcSideband` | the RPC child, its pending map and reader task, the calls that share it | `current` is `RpcSideband.process`, `process[p]` a child with its pipes and map, `caller[c].at` the await a call is in |
| `Layout` | `compute_layout`, the grid, `pane_at_position` | areas as functions of the list of panes |
| `InputRouter` | `InputRouter`, keybindings of the configuration | extends `PaneManager` and `Layout`; `RouteKey`, `RouteMouse` give the action, `Perform` is the loop's match on it |
| `CommandBar` | `CommandBar`, `parse_command` | `input`, `cursor_pos`, `history` as in the struct; a line is a sequence of glyphs |
| `Commands` | `handle_command` and the terminal events of a tick | composes the router and the command bar; a `keyboard` is what may be pressed in one session |
| `Adapters` | the seven adapters, `ScreenSnapshot`, plugins | one table per adapter; the methods of `HarnessAdapter` are operators on tables; a row of a screen is the kind of its text |
| `PaneOutput` | processes, reader threads, channels, emulators, completions, remote connections | extends `PaneManager`; `tty`, `hand`, `channel`, `fed` are the places a line passes |
| `McpServer` | the server's task and `execute_mcp_command` | `server` is the await its task is in; one line of the client at a time |
| `WebFeed` | `publish_web_frame`, `handle_ws`, the page, keys | `backlog` is a receiver of the broadcast, `wire` the frame under way, `page` the DOM |
| `Storage` | `handle_save`, `save_session`, `handle_restore` | `saving` are detached tasks, `stored` the rows of the table |
| `Services` | `main`, `run_app` in the order of a tick, the way out | composes the four above; `stage` and `phase` are where the main task is |
| `MC...` | definitions, symmetry and constants for TLC | |
| `WorkflowExecutorProofs`, `WorkflowRecordsProofs`, `PaneManagerProofs`, `EventLoopProofs`, `RpcSidebandProofs`, `ServicesProofs`, `CommandsProofs` | theorems about these modules | |
| `SequenceLemmas` | lemmas about sequences: chunks appended to a sequence of chunks, what becomes of a prefix, folds from left to right, an element inserted or removed; and the greatest and least of a set of numbers | |

`EventLoop` and `WorkflowExecutor` meet in `RuntimeCalls`: the executor models the
replies of its runtime as nondeterministic and its liveness assumes that they
come; the loop is shown to send them, to clients that behave as `execute_step`
does (spawn, send, kill, then another round).

`EventLoop` and `Services` model the same loop for different questions. `EventLoop`
lets any number of steps, users and clients make any call at any tick and leaves
screens out: whether a prompt is found is nondeterministic. `Services` has the
threads, channels and screens, the true order of the phases, and what is typed or
asked fixed by a launch. Both act on the panes through `PaneManager`.

### Modelling choices

- A step is the position of its definition, since `ready_steps` walks the graph
  in that order. A definition is chosen by `Init` from a constant set, invalid
  ones included, since validation is part of what is modelled.
- Outputs are members of a small set; `contains` and `==` of conditions differ
  only in the texts they accept and are one operator here. A prompt template is
  the set of outputs it refers to. Harness and model templates never fail and are
  left out.
- A missing `on_failure` is `abort`, as in the code's match.
- No code reads a checkpoint back, so there is no recovery to model; that a
  checkpoint *could* be restarted from is a property (`CheckpointClosed`).
- A store that fails, and no store at all, look the same to the executor
  (`StoreMayFail`).
- Ids are real numbers of the code: local ones from 1, remote ones from
  `RemoteBase` (1000 there, 10 in the runs).
- `SpawnFails` and `RemoteSpawnFailed` cover every error after which the code
  leaves the same state, including a PTY left open behind a terminal that could
  not be created.
- In `EventLoop`, whether a screen shows completion is nondeterministic at each
  poll. That contains every screen a harness can produce, and also stale ones.
- A client of `EventLoop` has one call at a time, as each step task awaits its
  reply, so the client stands for its request in queues and sets.
- A call on the sideband can be dropped at any await, by the timeout around it.
  Request ids and processes are taken from small sets: one that has left no trace
  stands for the next of the code's unbounded supply, and `CHOOSE` takes the
  first, since they differ only in name. A request whose line was merged with
  the torn one before it is never answered; a child that exits, or closes its
  stdout, answers nothing more, but what it wrote before can still be read. One that
  closes its stdin and lives on (`CloseStdin`) answers what it has read and loses the
  rest; the next write to it fails, and resets it. Of the map of a dropped
  process only the entries of calls not given up are kept: nobody looks for the
  others.
- MCP clients may name any id in a kill, including ids nobody has.
- A glyph of the command line is a character that the code tells apart (a blank,
  a quote, a backslash, one of more than one byte) or a word that stands for its
  letters; splitting, trimming and option parsing see the same things.
- A row of a screen is the kind of its text: a prompt of some adapter, an error,
  a line that tells an event, other text, or padding. That an emulator shows the
  last rows it was fed is taken from the library.
- `last_n_lines` counts the padding, so an error near the top of a screen that is
  mostly empty is not among the last five rows, and `:pipe` may send blank rows.
  The model does the same.
- A plugin's answers are nondeterministic in every call.
- `Services` passes over a phase that has nothing to do and cannot be given
  anything but by the loop itself: nothing outside can tell the difference.
- Reader and event loop use one ssh2 channel at once, as the comment at `remote.rs:60`
  says they may.
- A reader ends once nobody holds the other end of its terminal (`ReaderEnds`). A
  remote process that is killed is only sent an end of file, and its far end closes
  when it likes; a local one is gone, but may leave descendants that keep the
  terminal, whether it is killed or ends by itself (`Close`, `ProcessEnds`). Both are
  in `lingering`, write as before, and nothing makes them close (`OthersClose`).
- The reader of a local pane is started before its terminal is created
  (`app.rs:306`): when that fails the process and the reader are there without a pane
  (`OpenFails`), and nobody receives what the reader sends.
- A server told to stop while it reads or writes leaves a blocking call on a thread of
  its own (`held`), which returns when the client writes or reads (`Console`). A line
  that was being written may still be written whole.
- The program of a pane, and its model if the user named none, come from `config.toml`
  each time a pane opens, so also when it is restored (`Setting`, `Effective`); a pane
  and a row keep what the user asked for and the directory (`Kept`). `started` is a
  history variable: what a pane was first asked for, under which entry and directory, and
  the command run. Rows found at the start may come from a run under another entry
  and in another directory. Within a run the configuration is constant, since it is
  read once, at the start (`main.rs:218`).

## The runs

| Run | Question | Bounds | Expected |
|---|---|---|---|
| `executor_graphs` | scheduling, verdict, abort, checkpoints, what conditions and templates see, refinement of `WorkflowSchedule` | 3 steps: every graph along the definition order, and one against it, a cycle, a self-loop, an unknown dependency; every mix of policies; fallback to the first or the last step; and graphs with conditions on status and output, and prompts that use dependencies, siblings or nothing, two outputs, failing store | pass |
| `executor_retries` | retry budget, reports, persistence, termination | 2 steps, independent or chained; 0 to 2 attempts; fallback to itself, the other or none; failing store | pass |
| `executor_skip_doc` | the guide's "Mark step as skipped" | as retries | violated |
| `executor_persist_doc` | the comment "after each successful step" | as retries, with a store that works | violated |
| `panes_calls` | the pane invariants under any order of calls | limit of 3 panes, 4 local ids, 2 remote ids | pass |
| `panes_kill_doc` | "Kill a pane and remove it." | as `panes_calls` | violated |
| `commands` | cursor, quoting, focus, layout, aim of the mouse | up to 5 panes of a screen of 6 by 5 cells; 13 sessions, each with its keys, glyphs and length of line; default and own key bindings | pass |
| `loop_calls` | calls in one place, distinct owners, live waits | 2 steps, 2 panes, 3 local ids, one round each | pass |
| `loop_answers` | every call answered, every remote slot settled | 2 steps, one with a sideband; 1 local and 1 remote id | pass |
| `sideband` | one child, answers find callers, every call ends | a prompt and a recurring health check; 3 children known at a time, 2 request ids in use | pass |
| `services` | output, completion, MCP replies, viewers, sessions, shutdown | 2 panes, 2 local ids and 1 remote; screens of 3 rows, channels of 1 chunk, 2 frames, 1 key; 12 launches, each with part of the services; one finds two rows saved with another entry in `config.toml` and in another directory | pass |
| `loop_exited_doc` | "workflow steps notified" of an exit | 1 step, 1 pane | violated |

**Why the bounds are enough.** Three steps give every relation two edges can
have: chain, fork, join, and a sibling that finishes before, during or after the
others; a fallback that is an ancestor, a sibling, a descendant or the step
itself. Two attempts distinguish the first, a repeated and the last one, 0 the
empty loop. Three panes distinguish the killed, the focused and a third one; one
more local id than panes lets panes be replaced. Two clients are what a mix-up
of replies or panes needs, and three local ids let a stranger's pane open
between them. Two callers on the sideband can each be dropped, overtaken or left
behind by the other's restart; three children are the current one, the one a
caller still holds, and its replacement. In `commands`, five panes are the first number whose grid has a last row that is not
full, and the lines are long enough for two quotes, an escape and a blank between
them, or for a command, its option and one argument too many. In `services`,
channels of one chunk fill at once, so that a reader is held up, killed and left
behind in few steps; two frames make a viewer lag; three rows hold a prompt, an
error and padding; the conversations of the MCP client have each kind of line,
each tool, with and without what it needs, as request and as notification. A
launch has part of the services because their tasks share nothing but the panes:
the product of all of them would repeat each. The bounds on ids (`MaxLocal`, `MaxRemote`) and rounds
(`MaxRounds`) only end behaviours early; they are guards, `CHECK_DEADLOCK FALSE` in
the pane runs is due to shutdown, after which nothing happens. The model of the
loop stutters explicitly once stopped, so deadlock is checked there, and in all
the executor's runs.

**Symmetry** is used in `loop_calls` only, over the two clients, which have no
distinguished member there; no liveness is checked in that run.

**Fairness.** `WorkflowExecutor`: weak fairness of `execute_inner` and of each
task. Tokio polls what is ready; a backoff is a timer; a call's answer is what
`RuntimeCalls` promises. `EventLoop`: weak fairness of `Tick`, since a tick blocks
on nothing but a terminal poll with a limit and takes at most what its queues
hold; of the timeouts, since time passes; of the sideband tasks, which run under
`tokio::time::timeout`; and of the worker threads, whose connection attempt ends.
`RpcSideband`: tokio's locks are fair queues, so a call passes them (strong fairness
of `Dispatch`); a child reads its stdin while it holds it and answers what it has
read while its stdout is open; the loop repeats health checks under a timeout (`main.rs:625`). That
last assumption is needed: a prompt registered just after the reader failed the
pending ones is released only when the next call finds the child unusable and
drops it, and a request lost with the child's stdin only when the next write fails.
It is also assumed that the three seconds of a health check end between two steps
that wait for nobody finitely often at most (`WaitsForOthers` has the steps that do
wait): a check that always gave up before it came to its write would find nothing. A prompt's own timeout is not assumed, so that `EveryCallEnds` says
something; the one exception it makes is a prompt whose line was merged with
one torn by a dropped call.
`Services`: weak fairness of the loop and the way out, of each reader thread, of the
server's task and of each viewer's task and page: tokio and the operating system
run what is ready. The server's task goes on by itself where the loop has replied or
it was told to stop; that the client sends a line, or reads one, is an action of
the client (`ClientActs`, `Console`) and not assumed. A reader that has nothing to
read, a connection under way and a held read or write of the MCP server are not
helped either: `EveryTaskStops` names them as what the program may still wait for.
Weak fairness of the loop in `EventLoop` and `Services` takes for granted that what a
tick writes to a terminal finds room: `write_to` (`manager.rs:102`) blocks on a
harness that does not read, and with it the whole loop.
Beyond that nothing is assumed of users, MCP clients, harnesses or step tasks.

## What the violated runs show

- `SkipMarksSkipped`: a step that failed under `on_failure: skip` is recorded as
  `failed`, and conditions of dependents read `failed`; the authoring guide
  (`skills/hom-workflow-authoring/SKILL.md:111`) says it is marked as skipped.
- `SuccessIsPersisted`: a fallback's success is never stored, nor that of a step
  which finished but was not collected when a sibling aborted the workflow; the
  comment on `CheckpointStore` (`executor.rs:109`) says the store is called after
  each successful step.
- `NoWaitOnExited`: a step that sends its prompt to a pane already marked as
  exited waits for its timeout, because only the tick that notices an exit
  answers those who wait (`docs/superpowers/plans/2026-04-10-phase5-blockers.md:440`).
- `PanesCanBeKilled`: a local pane whose exit was noticed stays on the screen, its
  process reaped (`handle_exited_panes`, `app.rs:756`). A kill of it cannot signal the
  process; the manager has forgotten it by the time the error comes, the pane stays,
  and no later kill removes it (`app.rs:608`: "Kill a pane and remove it."). Before a
  tick notices the exit the kill succeeds: a process that ended and was not waited for
  takes the signal.

## What is proved

All theorems hold for every value of the constants; the assumptions used are the
named ones of each module, which TLC evaluates in the runs.

`WorkflowExecutorProofs` — for any number of steps, any set of definitions, any
outputs: `Invariance` of `IInv`, and from it `TypeCorrect`, `DependencyOrder`,
`NoStuckWorkflow`, `CompletionIsComplete`, `OutputsAreVisible`; and `Refinement`, that the
executor implements `WorkflowSchedule`. The properties are not inductive by
themselves: that outputs are visible needs that no task is in flight between
batches and that the step being persisted is the only completed one without its
output (`OutputsArrive`); that a workflow never gets stuck needs that only
validated graphs are executed (`ValidatedFirst`) and the step from acyclicity to
the existence of a ready step: the set of unsettled steps is not empty, so it has
a member that depends on none of them. `IInv` is their conjunction.

`WorkflowRecordsProofs` — what is recorded of the steps: `RecordsInvariance` of
`IInv /\ RecordsInv`, and from it `AbortEndsIt`, `CheckpointsAreClosed`,
`PersistenceIsTrue`, `InputsRender`, `DecisionsAreStable`, `ProgressIsTrue`; and
`SettledForGood`, that no step takes a settled one back. The invariant speaks of
steps that are no fallback target (a step that stands in for another can be run
twice, see below). The parts that had to be added: a status comes from the one task
that settled the step, after its dependencies (`RecordsFollowTasks`); nothing is
known of a step while one it depends on runs or is being saved (`OpenStepsBlock`),
which keeps a checkpoint closed although outcomes arrive while the executor is
suspended in the writes of an earlier one; a task reports before it is joined
(`ReportsFollowTasks`); and a decision taken on settled dependencies stands
because nothing settles them again (`DecisionsHold`).

`PaneManagerProofs` — for every limit and every bound on ids: `Invariance` of
`IInv`, and from it `TypeCorrect`, `Capacity`, `Slots`, `OrderAgrees`,
`FocusStaysLive`, `KeysGoToFocus`, all
under the hypothesis `MaxLocal < RemoteBase`: local ids never reach the remote ones.
The code relies on the same (`remote.rs:79`) without enforcing it; past 999 local
panes a reserved remote id could already be a pane's. `IInv` adds to the
properties that ids not yet handed out are unused and that a reserved id is no
pane (`IdsInOrder`): this is what makes each `push` on `pane_order` new and lets
cardinalities change by exactly one. The lemmas `WithoutElement` and
`AppendElement` say what `retain` and `push` do to a sequence without duplicates.

`EventLoopProofs` — for any number of steps, rounds, panes and connections, under
the same hypothesis: `Invariance` of `IInv`, and from it `TypeCorrect`,
`CallsAreTracked`, `OwnersAreDistinct`, `PendingsLive`, `ResultsFindSlots`;
`ImplementsPanes`, that every step of the loop is one of `PaneManager` or leaves
the panes alone, so that the pane theorems hold of the loop (`PanesInOrder`); and
`ImplementsRuntimeSafety`, the safety half of `RuntimeCalls`: a call changes only
by being made, by being answered, or by the application's end. Distinct owners
need that ids held by steps were handed out (`OwnersInOrder`): a new pane's id is
then nobody's, even if its owner's pane was killed by a user and the owner knows
nothing of it. That pending completions wait on live panes at the start of
a tick is not preserved from there; it is restored by each poll, so the invariant
asks for it in the two phases after the poll, where an exit removes no pane.

`RpcSidebandProofs` — for any callers, processes and request ids: `Invariance` of
`IInv`, and from it `TypeCorrect`, `NoOrphans` (of `OneChild`) and `AnswersArrive`
(of `AnswersFindCallers`). Added: two calls never hold one id, and a request not
yet written is in the map of its process while that is read, and in no child's
input (`UnsentAreKnown`).

`ServicesProofs` — the composition of terminals, reader threads, channels,
database, MCP server, viewers and shutdown, for every launch, script, capacity and
conversation, under `MaxLocal < RemoteBase`: `ServicesInvariance` of `ServicesInv`, and
from it

- `ImplementsPanes`: each step is one of `PaneManager`'s, so its theorems hold of
  the program in all its phases, its shutdown included;
- `OutputKeepsOrder`: what a pane shows is a prefix of what its harness wrote. The
  invariant is conservation: what is shown, then the channel, the reader's hand and
  the terminal, is together what was written so far. A pane that was closed drops
  its part, which is why it is stated of open panes, and needs that ids are not
  opened twice (`OpenedOnce`);
- `RestoresFaithful` (of `RestoresAreFaithful`): what a pane keeps is what it was first
  asked for with its directory made explicit (`RequestsTell`), the same holds of each
  row and each save under way, whatever entry and directory they were made under
  (`RowsTell`), and the panes a restore has opened so far run the first requests of
  its row under the present entry and in the directory of then (`RestoreTells`). It
  follows that the command is the same one unless the entry has changed;
- `RepliesAlwaysMatch` (of `RepliesMatch`): exactly one line is in hand at a time
  (`RequestInHand`), answers are in the order of lines (`AnswersInOrder`), and what a
  reply claimed stays true while the server takes its time to write it, since ids
  are not used again, requests stand, and inboxes and launches only grow
  (`StaysTrue`);
- `OnlyTheClientOpens`: with `--mcp` no pane is typed, restored, connected to or a
  plugin's. Without this a text sent for the client could go to a plugin's pane, and
  what a plugin makes of a text is arbitrary.

The constants' assumptions used in `ServicesProofs`: each harness that can be opened has a script
(`ScriptAssumption`); the rows a launch finds stored were written by the program,
under any configuration and in any directory, so they keep what was asked for then,
and its lines and keys are finite (`LaunchesAssumption`); and a tick takes a number of keys (`BatchAssumption`).
`FlattenSeq` is defined by a recursive function; `SequenceLemmas` proves what it
does to an appended chunk by induction over sets of numbers, each nonempty one of
which has a least element.

`CommandsProofs` — the terminal's user: key bindings, mouse, command line, layout and
the commands carried out, for every screen, configuration and set of keyboards, under
`MaxLocal < RemoteBase`: `UserInvariance` of `UserInv`, and

- `SessionsActOnPanes`: a key, a click and a command step as `PaneManager` does, so
  the pane theorems hold of a user's session; `SessionKeysReachFocus` is
  `KeysReachFocus` of it;
- `EditsNeverCrash` (of `EditsAreSafe`): `UserInv` adds to the panes' `IInv` the
  types of line and history (`BarTypes`) and where the cursor is (`CursorAtGlyph`).
  The cursor grows by characters and is read as bytes, so nothing can be said of a line
  with a character of two bytes; in any other the two agree. A word of the model stands
  for several letters, so the invariant tells two kinds of keyboard apart: where there
  are keys that move or delete, words are not used and the cursor is anywhere in the
  line; where there are none, it is at the end. `KeyboardsAssumption` states this
  division; it restricts which glyphs stand for letters, not what can be typed, since
  every word can be typed by its letters. A recalled line puts the cursor at its end,
  which is both;
- `QuotingIsLossless` (of `QuotedArgumentsSurvive`): the splitter is a fold over the
  characters. While it reads a quoted line its state is "between double quotes, the
  word so far is what was read", and each character, or escaped pair of characters,
  appends one to that word;
- `DrawnPanesTile` (of `PanesTile`) and `PressesReachPane` (of `PressesAreAimed`):
  the borders between n panes, `i / n` of the length to the nearest cell, never go back, so each cell
  has one interval of columns and one of rows, and the place of a pane in the grid is
  the only one with its row and column, the last row counted by what is left
  for it. `DrawnPanesTile` needs a screen of at least `MaxPanes` columns and
  rows: on a smaller one a pane can be rounded to nothing. `PressesReachPane` needs no such
  thing: a pane without cells cannot be pressed.

`ScreenAssumption` says only that a screen has a size. The folds of `ByteLength` and
of the splitter are unfolded as `FlattenSeq` is, by induction over sets of numbers
(`FoldExists`, `FoldSteps` in `SequenceLemmas`). What `ParseCommand` makes of a line is
used as it is defined: the theorems hold whichever command comes out.

**Only model-checked.** Liveness, which depends on fairness, which the proof system
does not handle: `Termination`, the liveness half of `ImplementsRuntime`,
`RemoteSpawnSettles`, `EveryCallEnds`, `StepsAreAnswered`, `EveryTaskStops`,
`ViewersCatchUp`, and that what `OutputIsShown` asks for eventually comes (its
safety half is `OutputKeepsOrder`). Every safety invariant and action property of the
passing runs has a theorem.

## What the models show beside their properties

Not contradicted by any document, and so not findings, but worth knowing:

- The cursor of the command line counts characters and the edits take bytes
  (`command_bar.rs:90`): after a character of more than one byte an edit may panic.
  `:send` of a lone quote panics too (`command_bar.rs:343`). `EditsAreSafe` says that
  there is no other way.
- A tool that fails is told to an MCP client as a result with `isError` false
  (`server.rs:143`).
- A step's completion is looked for on the screen as last parsed, so the prompt from
  before its own input can end it at once (`app.rs:703`).
- An application started with `--mcp` takes no terminal input: nothing but an error
  of the loop, or a signal, ends it.
- Quitting waits for a connection attempt, since the abort of a running blocking
  thread has no effect (`main.rs:198`); for the far end of each remote pane; for
  the descendants of a local harness that keep its terminal (`async_reader.rs:30`); and
  for an MCP client that neither sends nor closes its end while the server reads, or
  does not read what the server writes (`server.rs:55`, `89`).
- A local pane opened when no terminal can be created leaves its process and its reader
  running without a pane (`app.rs:308`).
- A restored pane runs the program and the default model that `config.toml` names at
  the time of the restore (`app.rs:225`), not those it was saved with.
- A save is reported as soon as its task is started (`main.rs:987`), and lost if the
  program quits first.
- A step whose fallback failed too counts as completed for its dependents
  (`executor.rs:422`), and a fallback that is also a step of the graph can run twice
  at once (`executor.rs:602`): the properties about a step's record leave fallback
  targets out.

## What is not modelled

The HTTP sideband, which keeps no state, and the events of the RPC sideband;
drawing, and the progress display that is only drawn; resizing; the emulator
itself; host keys and the SSH protocol; the rows of workflows and costs, which the
program writes and never acts on (a workflow that runs when the program ends
leaves its row as running, `main.rs:1244`); a saved layout; the queries of cost and
sideband health; the ownership of memory across the plugin ABI; parsing of YAML and
TOML. They are functions of state or libraries with little for a state-space
search to find.

## Plan

Done: all the modules above, their runs, and the proofs of their safety properties.
What is left open, in the order of what it would add:

1. the hazards of `PROJECT.json` no property covers: local ids that reach the remote
   ones (the theorems assume they do not), a workflow's row left as running, and the
   ssh2 channel that is used from two threads, which depends on libssh2;
2. resizing and the queries of the event loop, and the HTTP sideband;
3. the liveness properties, for provers that handle fairness.
