# PaperMachine in TLA+

PaperMachine is a local-first research workbench. A *Project* is a directory
with a SQLite store; in it, *Sessions* execute Workflow programs (`*.pm`) whose
durable effects create Agents, give them Actions, ask people questions, wait,
and publish results. This directory holds TLA+ modules of that system, TLC
configurations that model-check them on small instances, and TLAPS proofs.

Run a check with `tlc -config SchedulerFork.cfg MCSessionScheduler.tla`, the
proofs with `tlapm SessionScheduler_proofs.tla`, and so on for
`ActionRunner_proofs`, `ProjectKnowledge_proofs`, `ProjectCatalog_proofs`,
`DurableRun_proofs` and, for the Turns, `AgentRollout_proofs`, `TurnLoop_proofs` and
`TurnRows_proofs`, each of which extends the one before.

## The system and its parts

| Component | State | Operations | Talks to |
|---|---|---|---|
| Session scheduler (`workflow/src/scheduler.rs`) | handles map, one `run_scheduled` task per Session with a token, `run_workflow` and ActionRunner tasks | start, recover, pause, resume, cancel, wait | Store calls, event broadcast, interpreter, ActionRunner |
| Workflow interpreter and effects (`interpreter.rs`, `runtime.rs`) | one execution: branches, suspensions, active Agents | eval, effect, parallel, suspend | Store journal `session_effects`, HumanRequests, Actions |
| ActionRunner (`action_runner.rs`) | active Agents, a task and a token per Action | run_session, run_action, close | Store Actions and attempts, TurnRuntime |
| Turn runtime (`session/src/lib.rs`) | active Turns and their controls | execute, resume, cancel, sink events | Store Turns and rollouts, Agent loop |
| Agent loop (`agent/src/lib.rs`) | history, step budget | sample, tool calls, compaction | model client, tools, control plane |
| Collaboration (`collaboration.rs`) | none of its own | spawn, message, wait, interrupt | Store Agents, inputs, Actions |
| Store (`store/src/*.rs`) | SQLite tables, rollout files, Artifact files, change log | one closure per call on one thread behind a bounded queue | file system, event broadcast |
| Project catalog (`catalog.rs`) | directories under `staging/`, `projects/`, `trash/` | scan, create, relocate, remove, purge | file system, a Store per Project |
| Server (`server/src/lib.rs`) | the map of live Projects behind a RwLock | HTTP handlers, recovery at start | catalog, scheduler, Store |
| Workflow language (`workflow/src/language`) | none | lex, parse, compile | interpreter |
| Execution and tools (`execution`, `tools`) | processes, sandbox policies | exec, write, patch | operating system |
| Model clients, skills, permissions, web application | none that outlives a request | | |

What is hard here: every task `await`s between two Store calls, so anything may
happen in between; a Session may be paused, resumed, cancelled, answered or
killed with its process at any of those points; an execution is restarted from
its root after each suspension and must replay what its journal holds; waiting
tasks are woken by a broadcast that carries no state; several parties try to
decide how a Session ends. What makes each part correct:

- *scheduler*: a Session ends once, with the first outcome stored, after
  everything it ran has stopped; nobody sleeps through a change; every Session
  that can go on does, also after a restart;
- *effects*: an effect completes once, with its answer or past its deadline, and
  a Session completes only with all of them;
- *ActionRunner*: one running attempt per Agent, every Action of a Session that
  is over is settled, an interrupted Action is retried with its guidance;
- *Store and rollouts*: the SQLite projection is the rollout file's, whatever
  write the process died in; inputs of an Agent are shown once, tokens counted once;
- *Agent loop*: every tool call is durable before it runs, runs once at most, and
  has one output in the history that is sampled;
- *language*: an effect has an identity that a replay finds again; what the
  compiler accepts cannot leave the language while it runs;
- *publications*: a row has its file, a replay announces nothing twice, a reader
  of changes misses nothing;
- *catalog and server*: workspaces stay apart, a busy Project stays where it is,
  a Store that is taken away has nobody in it, and every request ends.

## Modules

`SessionLifecycle` is the abstract specification: the status, the decided
outcome, and whether an execution is under way. An execution begins in a
Session that is Created or Running, one at a time; an open Session may close
with any outcome; a Closing one finishes with that outcome, and only without an
execution.

`SessionScheduler` is the detailed module. One step is one Store call (they run
on one thread, so each is atomic) or one decision between two calls.

| Variables | Code |
|---|---|
| `status closing attention` | `Session.status`, `.closing_status`, `.attention_required` |
| `request`, `journal` | `human_requests` and `session_effects` rows, by the effect that owns them |
| `run`, `token` | place of `run_scheduled`, `"None"` without an entry in `handles`; `ScheduledRun.cancellation` |
| `wf` | place of `run_workflow`; `wait sleep sleepDeadline requests wake` are inside `wait_until_runnable` |
| `actions` | the ActionRunner task: live, returned, failed |
| `branch result hint` | how far this execution is with each effect; what `execute` returned; `wake_at_hint` |
| `woken` | an event is in the receiver of `wait_until_runnable` |
| `starter canceller` | calls of `start` and `cancel` between their two steps |
| `due`, `spent` | the clock has passed a journaled wait's deadline; bounds |

| Actions | Code |
|---|---|
| `StartCheck StartInsert Pause Resume CancelBegin CancelSignal Answer` | `SessionScheduler::start/pause/resume/cancel`, `answer_human_request` |
| `RunEntry RunJoin RunActionError RunFailActions RunFinish RunRelease` | `run_scheduled`, `finish_closing`, and the end of its task |
| `ActionsStop ActionsFail` | the ways `ActionRunner::run_session` returns |
| `WorkflowGet … WorkflowClose` | one per Store call of `run_workflow` |
| `WaitRead WaitRequests WaitSelect WaitWake` | `wait_until_runnable` |
| `EffectBegin EffectCheckpoint Dispatch* EffectFinish` | `SessionEffectContext::handle` and its dispatch |
| `Execute*` | how the interpreter returns, with `aggregate_suspension` |
| `Elapse CrashRecover` | the clock; loss of the process and `recover` of the next |

A Workflow is a finite partial order of effects, `Needs`. Effects that do not
need each other are branches of a `parallel`. An effect is an `"ask"`, a `"wait"`
or a `"call"`; a call returns, fails or is cancelled and changes nothing the
scheduler reads, which covers all other effects (`invoke_action` waits for an
Action, but its Session stays Running).

`MCSessionScheduler` gives the constants values. `SessionScheduler_proofs` holds
the theorems.

`ActionQueue` is what the Actions of a Session promise: per Agent a FIFO queue. An
Action starts, or starts again after an interruption, when the earlier ones of
its Agent are settled; work that has not started can be withdrawn; what is
settled stays as it is.

`ActionRunner` is how the code does it: `run_session`, a task per Agent, the Turn
that each task runs, and everybody who interferes. The status of the Session is
reduced to what Actions notice: `"Open"` (it accepts Actions), `"Paused"`,
`"Closing"`, `"Ended"`. An Action has one attempt and one Turn, its last; the
earlier attempts are Interrupted, and so are their Turns.

| Variables | Code |
|---|---|
| `action attempt turn` | rows of `action_invocations`, `action_attempts`, `turns`; `"Answered"` is a Running Turn with its final message checkpointed |
| `interrupt` | pending or claimed Interrupt inputs of an Action |
| `runner stop` | place of `run_session`, its token |
| `task token outcome` | place of `run_action` and the Turn in it, its token, what the Turn returned |
| `active turnToken` | `TurnRuntimeInner.active` |
| `woken` | an event is in the receiver of `checkpoint` |
| `kill unsent` | calls of `interrupt_agent` and `TurnRuntime::cancel` between their two steps |

| Actions | Code |
|---|---|
| `RunnerStart RunnerSpawn RunnerBreak RunnerJoin RunnerJoinError RunnerDrained` | `run_session` |
| `Settle*` | `cancel_remaining_actions`, `finish_running_action_during_close` |
| `TaskRead TaskBarred TaskGate TaskReopen TaskStart* TaskFinish TaskWithdraw` | `run_action_inner`, one per Store call |
| `TaskPrepare*` | `prepare_turn`, `create_turn_for_attempt` |
| `TurnTrack TurnEnter* TurnComplete TurnCancel TurnInterrupt TurnFail` | `run_tracked_turn`, `run_scheduled_turn_inner` |
| `TurnTop TurnCheckpoint TurnPause TurnWake TurnPausedStopped TurnClaim` | the head of the agent loop, `StoreAgentControlPlane::checkpoint` |
| `WorkOn WorkAnswer WorkStopped WorkError` | sampling and tools, as far as the Turn's fate is concerned |
| `Pause Resume Close CancelRun CloseFailed End` | the scheduler |
| `HumanInterrupt InterruptAgent KillRunning CancelTurn CancelTurnRow` | Agent inputs, `interrupt_agent`, the API's `cancel_turn` |
| `Crash` | loss of the process; `RunnerStart` follows |

`MCActionRunner` gives the constants values. `ActionRunner_proofs` holds the
theorems. Messages and Finish inputs change no status here and are in
`AgentRollout`. Actions are numbered in the order of creation, by which
`list_action_invocations` sorts; the order is that of `created_at`, so it is the
clock's.

`ToolCallContract` is what `docs/runtime-kernel.md` promises of tool calls: durable,
then dispatched at most once, then answered by what the tool returned or by one
`aborted`.

`AgentRollout` is the durable side of an Agent: the rollout file, the rows
projected from it, the inputs. `commit` is the commit the Store thread is at
(claim and append, projection, end), each a step at which the process may stop;
an append may also fail in the middle and leave half a record or a whole one that
nobody acknowledged (`trailing`), and the next append of the same process then
damages the file (`damaged`). Replay at start is a projection of what the rows
miss.

`TurnLoop` extends it with the task: `run_scheduled_turn_inner` and
`TurnEventSink` around `AgentRuntime::run`. An item has a `Size`, its estimated tokens;
`Budget` is the history budget, `CompactAt` what triggers a compaction. `Trim` is
`trim_history`, before every sample and for the request of a compaction: it keeps the
first item and the longest end that fits, less the outputs this begins with. The
summary replaces the whole history and not what was sent (`lib.rs:954`); what is too
long even so ends the Turn with `ContextWindowExceeded`.

| Variables | Code |
|---|---|
| `pc task cancelled` | place and memory of the Turn's task (history, tokens, budget), its token |
| `tool ran produced` | the calls in `FuturesUnordered`, how often each was started, which returned |
| `steps` | Step rows of calls and of the compaction |
| `ended spent` | Turns whose Action has ended; what the provider charged |

| Actions | Code |
|---|---|
| `TaskStep` | one disjunct per Store call or decision: create or resume, the head of the loop, compaction, trimming, sampling, recording calls, dispatch, recording outputs, the ends |
| `CommitStep CommitFails` | `commit_agent_rollout_item_locked` |
| `Return` | a tool finishes, in any order |
| `Send Cancel CancelRow` | inputs, `TurnRuntime::cancel` |
| `Crash` | loss of the process, with or without what was not synced |

Their theorems are in three modules: `AgentRollout_proofs` (replaying records, the
Store), `TurnLoop_proofs` (types, the order of Turns and records, calls and their
outputs) and `TurnRows_proofs` (inputs, tokens and Steps).

`DurableRun` is a run of a program with its durable effects, whatever evaluates the
program. An evaluator is two operators, given as constants: `Position(p, s)`, where
program `p` stands after the events `s` (what it returned or failed with, the guards
it holds, the requests its branches wait for), and `LatestAccess`, what a read of
`agent.access` finds. A step is an event and the position it leads to. `Answers` and
`MayFail` say how an effect may end.

| Variables | Code |
|---|---|
| `program` | the frozen `WorkflowProgram` |
| `journal` | `session_effects`: key, request, status, result |
| `handling` | calls of `SessionEffectContext::handle` under way |
| `past now` | the events of this life (effects answered, guards taken, reads); the position after them |
| `phase crashes outputs` | compiled, running, suspended, over; restarts; results of all lives |

`Compile`, `Step` (a request begins, is answered, fails or suspends, a guard is taken,
an access is read), `Ends`, `Resume` and `Crash` are the actions. A life that
resumes or follows a crash begins with no events and the same journal. Any effect
may suspend: `checkpoint` does it to each when the Session is Paused or Waiting, and a
question, a deadline or an access grant by themselves (a grant only in
`set_agent_access`: `create_agent` finds the Agent as it asked for it or fails,
`runtime.rs:256`, so the comparison behind it is never true). A denied grant is a
failed effect. A Session that is Closing cancels its run; no step follows, and none is
modelled. Branches that share a key, as those that create one Agent do, move at once:
they wait for each other at the gate of the key.

`WorkflowRun` is `DurableRun` with the Workflow language for its evaluator: the
configurations set `Accepts`, `Position`, `LatestAccess` and `Answers` to operators of
`WorkflowCompiler` and `WorkflowRun`. `WorkflowValues` has values
and pure operations (scopes, operators with the width of `i64`, `bind_arguments`, the
builtins), `WorkflowAst` the nodes and the walks over them, `WorkflowCompiler` the
checks of `compiler.rs` as a set of diagnostics, with the call graph and the flow
analysis, and `WorkflowInterpreter` the evaluator: `Evaluated(events)` is a
configuration (flow, value, scopes, path, fuel, held guards, front). Numbers are exact
fractions where the code has floats, and strings have no order. What differs between
the frozen options of one Agent is in the payload of its creation; its access is the
one it has when its creation is answered, in all its handles. These modules use
RECURSIVE operators, so no theorem is about them; what the theorems of
`DurableRun_proofs` need of them is stated as properties that the run checks.

`ProjectKnowledge` is what Sessions of a Project publish and read of each other.

| Variables | Code |
|---|---|
| `rows home changes` | tables `artifacts`, `project_homes`, `project_changes` |
| `files temps spilled` | Artifact files, temporary files of `write_atomic`, files left behind by a failed removal or a failed directory sync |
| `position answer outcome` | where a Session is, the Store's answer on its way, how it stands |
| `job` | the publication the Store thread is at: what it has still to store, what it made, the page it started from |
| `cursor more view stuck` | a reader: its cursor, `has_more`, what it was shown, whether its read failed |

A change has a size, of which a page takes `PageRoom`: a record's is `RecordSize`, an
Artifact's is `Details` (name and metadata) and the text. A text is cut where a page
ends, `Details` are not. Text that is not UTF-8 cannot come from this code, which
publishes Rust strings, and a file that changed on disk fails on its hash.

| Actions | Code |
|---|---|
| `Dispatch StoreFile Rename InsertArtifact CommitHome` | `publish_artifact`, `publish_project_home`, `store_artifact_file`, `write_atomic`, `commit_project_home` |
| `WriteFails RowsFail` | their error paths, with the clean-up |
| `Finish AnswerDropped` | `finish_session_effect`; a Session paused while its job ran |
| `Crash Recover` | the process, and `reconcile_artifacts` |
| `Touch ReadOn ReadAgain` | triggers of other tables; `project_snapshot_changes` |

`ProjectCatalog` is the catalog on disk, the Store thread of each live Project
with its queue, and the server's handlers, which are futures: they hold leases,
the map's lock and the catalog's mutex from one label to the next, and a client that
hangs up drops them, guards and all, while what they handed to the blocking pool
or a Store thread goes on.

| Variables | Code |
|---|---|
| `place workspace damaged` | directory of each Project, the workspace in its database, a Store that cannot be opened |
| `projects` | the map of live Projects, with or without a runtime |
| `thread queue stopped` | the Store thread, its `mpsc` queue, the handle's refusal after `Shutdown` |
| `pc dropped doomed` | where each request is, whose future is gone, trash to be purged |
| `active` | Projects with a Session that has not ended |

`ProjectCatalog_proofs` holds the theorems. `LiveStoreScan` follows one rollout
through two Stores: the live one, and the one a scan of the catalog opens on the same
directory.

## Runs

| Run | Instance | Shows |
|---|---|---|
| `fork` | `parallel { ask, wait }` then a call; 1 pause, 2 resumes, 1 restart, 1 Action failure, any cancel | six properties of scheduling and `ImplementsLifecycle` |
| `live` | a wait, then two parallel asks; 1 pause, 1 resume, 1 restart | Closing finishes, answers are noticed, undisturbed the Session ends, and `AttentionTracksRequests`, which needs two open questions to be wrong |
| `deadline_lost` | one wait, 1 restart | finding: a recovered deadline wakes nobody |
| `line` | two Actions of a Workflow on one Agent; 1 pause, 2 restarts, 1 error, 2 human interrupts, 1 API cancel, any close | a FIFO queue, one Running Action per Agent, results kept, everything settled at the end |
| `runner_live` | an Action and one task of a child; 1 restart, 1 human interrupt, 1 `interrupt_agent` | every scheduled Action is settled; the model works only for Running Actions |
| `close_race` | one Action, undisturbed but for a close | finding: the Session stays Closing |
| `turn` | two Turns with two tool calls (one parallel), a message and a finish, a budget of 10; 1 mishap, any cancellation | the rollout, its projection, Steps, inputs, tokens, `ImplementsToolCalls`, `TurnsEnd` |
| `program` | eleven programs that use every construct, seven that the compiler should refuse and does not, and some 1,570 put together from a few statements; 2 restarts | keys, replays, the compiler's promise, Action guards, suspensions; what the proofs of `DurableRun` rely on: determinism and orderly evaluation |
| `back_edge` | loops whose condition awaits | finding: the compiler accepts a loop that never waits |
| `knowledge` | an Artifact whose details fill a page of changes, two pages of the Project Home, one reader, one other record; 2 mishaps | files and rows, announcements, failures, what readers see, readers catch up |
| `catalog` | every three of six requests of which one moves or removes; 2 mishaps | workspaces, busy Projects, live entries, every request ends |
| `live_scan` | three records, one scan | finding: two Stores project one record |

Every property has a mutant of a mapped definition that violates it. Not in the runs
are `TerminalIsQuiet` and `OneRunningPerAgent`, which `ImplementsLifecycle` and
`ImplementsQueue` imply, and type invariants: they are parts of the inductive invariants, which
TLC checked before they were proved.

Bounds. *Scheduler*: two concurrent suspending effects and one that needs both are
enough for every pair of branch states and for a join; a pause with two resumes lets
a resume race a wake-up and come again; one restart falls at every step of every
behaviour, and a second one starts from the same kind of durable state. `Budget`
only limits how often the environment disturbs; the proofs have no such bound.

*Actions*: two on one Agent are enough for an order, a parent and a child for
what Agents do to each other. In `runner_live` each Agent has one Action, so the last
part of `WorkIsAccounted`, two Actions of one Agent, says nothing there; the proof
has any number. Two restarts fall into one attempt and its retry.

*Turns*: `MaxSteps = 2` gives a Turn a step with calls and one that answers. With
`Budget = 10` and `CompactAt = 9` two outputs lead to a compaction, whose request is
trimmed between a call and its output; a finish after two aborted calls is trimmed by
the loop; and the second question after a summary is more than the window takes. One
mishap, a crash, a failed write or a retried sample, falls at every step.
`Moments` limits where the task is when an input or a cancellation comes to the
three places that can tell the difference: it looks for them nowhere else.

*Programs*: `PureFuel = 100`, `MaxBranches = 2` and `MaxIterations = 2` stand for
larger constants of the code; a program that needs more of the first two fails in
both, and a loop is followed for two turns, which is where a second turn can take
the key of the first. `IntMin..IntMax` is -8..7. `AcceptedProgramsAreDeterministic` takes all
pasts each accepted program can have and compares every two of them.

*Publications and changes*: `BatchLimit = 2` and `PageRoom = 4` make batches and
pages end inside runs of changes and inside a text of four pieces; a record and an
Artifact's details of size 4 each stop the reader; two mishaps give a
failed write and a crash in its clean-up's wake, or a crash in a replay. A binary
Artifact, which to a page is a record of its `Details`, is in the model and the proofs
and not in the run.

*Catalog*: two creations that want overlapping workspaces, a move, a removal, a
Session start and a stream; three at a time are all the parties a lease, the
map's lock and the mutex can have waiting for each other; a queue of two is full
with two of them in it.

Deadlock is not checked anywhere: a Session, a Turn, a run of a program, a
publication and a request that is over stops.

Fairness. *Scheduler and Actions*: every task step is weakly fair, because Tokio
polls a task that can run and the Store thread serves every call it is sent. Clocks
pass deadlines, people answer questions, and a model that is asked again and again
answers (strong fairness of `WorkAnswer`). No pause, resume, cancel, interrupt,
fault or crash is fair. `live` has no Action failures: after one, `run_scheduled`
returns without `finish_closing` (line 376), and the Session stays Closing until a
restart. `SessionsEnd` speaks of behaviours without pauses and restarts: the
findings are behaviours with them that do not end. `ActionsSettle` excuses
Actions that an error of the run left behind, which is `close_race`. *Turns*: weak
fairness of `TaskStep`, `CommitStep` and each tool's `Return`. *Publications* and
*catalog*: weak fairness of one action `Progress`, which is everything the server
does by itself, its restart after a crash included; with only a few things to do,
it does them all. Arrivals, hang-ups, failures, crashes and the end of a Session
are not in it.

## Behaviour the properties leave out

Some code does less than one would expect, without a document that promises more,
or in a way that another run already shows. The modules have these steps; the
properties are stated so that they hold with them, and say where.

- *A lost resume* (`scheduler.rs:499`). The status that `run_workflow` compares
  with its suspension is read after the execution ended; a Session that was
  paused, resumed and paused around the comparison stays Running with nobody
  executing it until the next event.
- *A failure that is stored as a cancellation* (`scheduler.rs:459`). When an Action
  fails the run, `run_scheduled` cancels the token, and the Workflow, still executing,
  may store Cancelled, "cancelled by user", before the error branch stores Failed. That
  branch then returns without `finish_closing`, and the Session stays Closing until a
  restart. `CancelledOnRequest` excuses a run that an Action failed, and `live`, which
  checks `ClosingFinishes`, has no Action failures.
- *A second question* (`database.rs:2519`). `create_human_request` wants a Running
  Session, and the first of two parallel `ask_human` effects moves it to
  WaitingForInput: a second that comes later is refused, and fails the run.
- *An interrupt that is felt elsewhere* (`action_runner.rs:333`).
  `interrupt_descendant_agent` cancels an Action whose task has passed its check and
  not yet called `start_action_attempt`; the call is refused, `run_session` returns
  the error, and the whole Session fails.
- *A task that runs again* (`action_runner.rs:432`). A process that dies between
  `finish_action(Interrupted)` and `cancel_pending_action` takes the interrupted task
  for one to retry.
- *A Turn left Running* (`session/src/lib.rs:382`). After `start_turn`, an error of
  the prompt snapshot, the model route, the tools or the rollout leaves
  `run_scheduled_turn_inner` without `fail_turn`: the Turn is Running in a Session
  that has ended.
- *A resume that a Turn sleeps through* (`session/src/lib.rs:553`). `checkpoint` reads
  that the Session is Paused and subscribes only in its next call. A resume in
  between leaves the Turn Paused until any other event of the Project
  (`OtherEvent`, not fair); `runner_live` has no pauses for that reason.
- *Steps of earlier Turns* (`session/src/lib.rs:759`). `reconcile_step_projections`
  takes the calls of the whole context, so a resumed Turn receives terminal Steps for
  calls of earlier Turns; `StepsMirrorCalls` speaks of a Turn's own calls.
- *A torn record* (`rollout.rs:180`). A failed append leaves what it wrote; the next
  append of the same process makes the file unreadable, and a record that was
  refused may be found in it after a restart. The properties of `turn` say
  `mishaps.fault = 0` where that matters.
- *A trim between a call and its output* (`agent/src/lib.rs:1162`). `trim_history`
  drops the outputs that what it keeps begins with. Of two parallel calls whose outputs
  come last it may keep one call and then both outputs, and the request has an output
  without its call; the test at line 1273 has only a leading one. `PairedContext` says
  that every call has its output, exactly once and after it, and that an output has
  lost its call only to a trim.
- *An input that is acknowledged and not shown* (`agent/src/lib.rs:428`). Inputs join
  the history before it is compacted and trimmed, and the next checkpoint acknowledges
  them, also if nothing of their text is left. `InputsShownOnce` says that none is shown
  twice or kept by a Turn that is over; that each is shown is not said.
- *Details that fill a page* (`project_changes.rs:511`). Nothing bounds the name and
  metadata of `publish_artifact`. An Artifact in which they fill a page of changes fails
  every read in front of it, for good, and a record that is too large does the same;
  `ReadersMissNothing` says that nothing else stops a reader.
- *An old page that comes back* (`project_home.rs:54`). Publishing the page that is
  already there stores nothing. If that answer was lost, and the page was replaced in
  between, the replay puts the old content in its place again: it is one announcement
  of that effect, and `PublishedOnce` allows it.
- *Two creations of one Agent that suspend* (`runtime.rs:131`). A suspension is kept
  under its key. One branch may suspend in a paused Session while the next, after the
  resume, creates the Agent and takes the entry away; the run then ends "without a
  pending durable wait". `DurableRun` moves both at once and does not have it.
- *A removal that nobody waits for* (`server/src/lib.rs:675`, `838`). A creation or
  a removal whose client hangs up leaves its Project off the map until the next
  start.
- *An access that branches share* (`interpreter.rs:1512`). The current access of an
  Agent handle is behind an `Arc`, so the copies of the environment that the branches
  of a `parallel` get share it, and a read of it is not journaled. A branch that acts
  on the access its sibling sets may ask something else after a restart, which
  `begin_session_effect` refuses: the run fails. The programs of the runs do not do so
  (`AcceptedProgramsAreDeterministic`), and the theorems about replay say it of theirs.
- *What the compiler does not read* (`compiler.rs:571`, `707`, `726`). A function, an
  Agent or a builtin may be used as a value; the receiver of a method call is only
  searched for its template; the arguments of builtins are counted and their names not
  looked at. Such programs are accepted and fail in the middle of a run. `Unread` says
  which errors a program may meet for one of these reasons,
  `AcceptedProgramsStayInTheLanguage` that there are no others, and `MCOutside` holds
  programs that do meet them.
- *The condition of a `while`* (`interpreter.rs:484`) is evaluated outside the path that
  numbers the turns. What it awaits has one key for all of them: it is asked once and
  answered the same in every turn, or, when its arguments have changed, fails as a
  changed request. `OccurrencesHaveTheirOwnKey` takes it for one occurrence, and
  `Condition` is a program of the run that has one; that such a loop need not wait is the
  finding of `back_edge`.
- *`i64::MIN % -1`* (`interpreter.rs:1583`) panics; `+`, `-` and `*` are checked.

## Proofs

`SessionScheduler_proofs` proves, for every Workflow and every budget, that

- `TypeOK`, `TerminalIsQuiet`, `TerminalResolvesRequests`,
  `AttentionTracksRequests`, `NoLostWakeup`, `CompletedMeansAllDone` and
  `SuspendingEffectsWereDue` are invariants;
- every step satisfies `PauseEndsDeliberately` and `CancelledOnRequest`;
- `Spec => Lifecycle!Spec`.

Its only assumption is `SchedulerAssumption`, the types of the constants. The
invariants are not inductive alone. `IInv` adds what the code relies on without
saying: `run_workflow` lives only between the spawns and the join of
`run_scheduled` (`WorkflowJoined`, why nothing works in a terminal Session);
a cancelled token implies a stored intent (`CancelIsStored`); what is about to be
stored is an outcome (`CloseIsDecided`); a branch is only as far as the journal,
the answers and the clock allow (`BranchesAreBacked`, `CompletionIsBacked`); and
an unwoken waiter's earlier read is still true (`RequestsReadWhileWaiting`). It
is proved in three groups, `Control`, `Questions` and `Journaled`, with one step
per action.

`ActionRunner_proofs` proves, for any finite set of Actions, any Agents and any
budget, that `TypeOK`, `OneRunningPerAgent`, `WorkIsAccounted`, `ResultsAreKept` and
`EndedIsSettled` are invariants and that `Spec => ImplementsQueue`, from
`RunnerAssumption` (the types of the constants). `IInv` adds: the attempt is
Running exactly when its Action is; a task at work has its Action Running, and
an Agent has one task (`AttemptsAreOwned`, `OneTaskPerAgent`: nobody else may settle
a Running Action); whatever is spawned, Running or Interrupted has its earlier
siblings settled (`InOrder`, of which `OneRunningPerAgent` and the FIFO order are
consequences); `run_session` outlives its tasks, and its stopping, settling and
the end follow the stored Closing (`TasksAreJoined`, `EndsInOrder`); and a task
that is about to finish an attempt knows what became of the Turn
(`VerdictsAreKnown`, `OutcomesAreTrue`). Each group is one lemma with a step per
action. TLC checked the conjuncts first.

`ProjectKnowledge_proofs` proves, for any Sessions with any publications, any
readers, and any number of failed writes, dropped answers and crashes, that
`DiskMatchesRows`, `PublishedOnce`, `OnlyOvertakenWorkIsDisowned` and
`ReadersMissNothing` are invariants, from `KnowledgeAssumption`. `IInv` adds: the content of a file and of a row is that of
the effect its id names, and only valid content has a row (`Contents`, why a replay
may take a file it finds for its own); how far a publication has come, that what it
made is its own and has no row yet, and that it goes over a stored effect only if
that is an overtaken page (`JobIsSound`, why a clean-up removes no file of a row);
what lies on disk without a row is being made or known to be left behind
(`ResidueIsKnown`); a failure still on its way is deserved as well
(`FailuresAreOvertaken`); and what has no row has not been announced
(`RowsAreAnnounced`, in which cardinalities are of finite sets). `RowsInserted` and
`PublishStep` are the parts that `InsertArtifact` and `CommitHome` share, `CleanUpStep`
that of the ways to fail. Beside it `ReadersInOrder` says where a reader stands: its
cursor lies within the log; what there was to see up to the cursor was shown after
it happened, whole, unless a later change of the same thing is still to come
(`EverythingWasShown`); a text it has begun to read is there, has the length it began
with and room beside its details, and the reader has it up to the offset of its
continuation (`TextUnderWay`).
A read keeps that: batches passed over have nothing to show (`StartIs`), a
change a batch does not show has a later one of its entity in it (`LatestIs`,
`Accounted`), what fits a page is shown without a gap (`FitsIs`), and a piece that is
empty is of details that fill a page (`PieceEndIs`, `Unpageable`). Nothing else
disturbs it, because rows are never changed and the log only grows (`Grows`).
For these proofs `Start` and `Fits` say in closed form what they computed by
recursion before; TLC compared the two forms in every state of the run.

`ProjectCatalog_proofs` proves, for any Projects, requests and queue capacity, and any
number of hang-ups, failures and crashes, that `WorkspacesDisjoint` and `EntriesAreLive`
are invariants and that every step satisfies `BusyProjectsStay`, from
`CatalogAssumption`: beside the types, the Projects there are at the start have their
workspaces apart, and an id is made for one creation. `IInv` adds: a request that
removes or moves a Project excludes every other one and every Session start, and
the catalog's mutex has one holder (`GuardsExclude`); who holds a guard has its
Project on the map, and whoever takes a Project away, or makes it, has it off the map, idle, and without
a Session start in its queue (`EntriesAreOwned`); how far a creation has come, and
what the catalog's task knows of the workspaces while it holds the mutex
(`CreationsAreFresh`, `CreationsAreAdmissible`); a Project that is served, busy or
doomed lies where it should (`StoresAreUsed`); and a command that stops a Store
follows the mark on its handle, with no Session start behind a removal that is
waited for (`CommandsAreInOrder`, why a busy Project survives a removal that raced the
start of its Session).

The modules of the Turns prove, for any Turns, inputs,
calls, sets of calls a response may carry, sizes of items, budgets and triggers, and any number of
crashes, failed writes, retries and cancellations, that `ProjectionFollowsFile`,
`ClaimsEndWithTheirTurn`, `PairedContext`, `InputsShownOnce`, `TokensAreCounted` and
`StepsMirrorCalls` are invariants and that `Spec => ImplementsToolCalls`, from `RolloutAssumption` and
`TurnAssumption`, the types of the constants (a response carries finitely many
calls). They rest on one another:

- `AgentRollout_proofs` says what `Replay`, `Read` and `Project` compute for
  files of every length: replaying `s \o t` is replaying `t` on what `s` gives, a record
  more is a step more, what every record keeps a replay keeps, the rows' statuses and
  totals do not depend on inputs or on what was charged before. The provers cannot
  instantiate an induction theorem, so induction is by the smallest counterexample,
  a least element of a set of numbers (`Smallest`, `UpTo`). `StoreTypeStep`,
  `StoreOrderStep`, `RecordsStep` and `ToldStep` then say once for all callers what a
  Store action does: the records stay, or the one being committed joins them.
- `Ordered` (`TurnLoop_proofs`) adds to the types that one Turn is open, in the rows and
  in what the file tells (`Told`); that a record is committed only where its action
  left the task (`CommitFits`); that what a failed write left and nobody projected is of
  a Turn that is over for its Action (`LagsWhenOver`, `LeftoversAreEnded`, why the rows
  catch up before anybody reads the file); and that the file is at the task's Turn
  (`AtItsTurn`). `ProjectionFollowsFile` and `ClaimsEndWithTheirTurn` follow.
- `Sound` adds that every context has a call once and its output
  once, after it (`WellFormed`), whatever record a restart reads up to
  (`FilesAreSound`, `CommitIsSound`); that a task works from what the file says or will
  say with the record it waits for (`TaskFollowsFile`); and that the calls in flight are
  those the history has no output of (`ToolsInOrder`). A trim takes only calls and
  outputs of pairs (`ThinnedWellFormed`), and an output without its call was in a record
  that replaced a context (`OrphansAreTrimmed`). `PairedContext` follows.
- `Traced` adds what the refinement needs of all records together: every call that ran
  is in one, an open call has no output in any, and a record on its way brings
  calls nobody made before or the output of an open one, as its tool returned it
  (`SavedCalls`, `CommitIsFresh`, `RunsAreSound`, `OpenInFile`).
- `Presented` (`TurnRows_proofs`) adds that a context shows an input once, that the
  records acknowledge what it shows, and that what they acknowledge is applied in the
  rows, so that it cannot be claimed again (`FilesShow`, `CommitShows`,
  `AcksApplied`).
- `Counted` adds an account: what the provider charged is what the rows have beside
  the file (`Aside`), what the file tells (`Told`), what the task has yet to save (`Due`)
  and a rest (`Lost`). No step makes the rest smaller, and without a crash or a failed
  write only a Turn that falls short of completing makes it larger. TLC found the two
  facts that it needs and that are not about tokens: a total in the file is what
  the rows will say (`TurnsAreNew`), and in a loop nobody disturbed the Turn's row is
  open (`RowIsOpen`).
- `Mirrored` adds the Steps, which are rows written beside the file, so that a crash may
  come between a record and its Step. As long as no write failed: a Step exists only of a
  call that is saved and, once over, agrees with its output (`StepsFit`); the calls of a
  Turn that completed have such a Step, and those of the open Turn have one or are in
  the context, where `reconcile_step_projections` and the repair look for them, or were
  compacted away after they had one (`TurnsMirror`, `OpenMirrors`); and a record on its
  way does not complete a Turn, replace its context or answer a call before that
  (`RecordMirrors`). `StepsMirrorCalls` follows.

`DurableRun_proofs` proves, for any programs, any evaluator, any journal, order of
answers, number of branches and permits, and any number of suspensions and crashes:

- `AnswersAreFinal`, of which nothing is required: a row stays, keeps its request and,
  once settled, its outcome.
- `SuspendedRunsAreStill`: `SuspensionsAreStable`, with any effect suspending at any
  time, if `EvaluationIsOrderly`, of which it
  needs that an answer moves only the branches that waited for it and that a
  suspended position waits for nothing. The invariant is that each effect under way is one the run waits
  for, as it was journaled (`HandledIsAwaited`).
- `AgentsActOneAtATime`: `OneActionPerAgent`, also if `EvaluationIsOrderly`, of which it
  needs that an invocation appears by its Agent's guard or after another answer of the
  same Agent, one at a time. `AgentsAreHeld` (who invokes holds the Agent and is alone) is
  inductive because `Acquire` refuses a guard that is held.
- `DeterministicRunsReplay` and `DeterministicLivesAgree`: `ReplaysAskTheSame` and
  `LivesAgree`, if every accepted program is `Deterministic`: after any two pasts that
  agree on the answers of the effects they share, it asks the same under a key and
  returns the same. `JournalIsTrue` is inductive: the events of this life are possible
  and told by the journal; each row was asked for and each output returned after a
  past that the journal still bears out (`AskedOnce`, `ReturnedOnce`); a settled row
  has an outcome the effect may have. Two such pasts agree, whichever lives they are of
  (`Agreement`), and a journal that grows takes no past away (`TruthStays`).

The two conditions are about the evaluator, which recurses over syntax trees and is
therefore out of the provers' reach. TLC checks them on the run `program`, over all its
programs: `EvaluationIsOrderly` at every step, and `AcceptedProgramsAreDeterministic`
over every two pasts. Not every program in the
language is deterministic: one that reads in one branch the access that another
branch sets, or that creates one keyed Agent with two sets of options in two
branches, depends on their order, and its replay may fail or return something else.

Working on the proofs found the model wrong once: the append after a whole record that
a failed write left repeats that record's sequence and damages the file also when the
file has been read back in between; `AppendRecord` had said so only before.

Model-checked only are liveness, which rests on fairness and is out of the provers'
reach (`ClosingFinishes`, `AnswersAreNoticed`, `SessionsEnd`, `ActionsSettle`, `TurnsEnd`,
`ReadersCatchUp`, `RequestsEnd`), and what is about the recursive evaluator and compiler
themselves: `OccurrencesHaveTheirOwnKey`, `AcceptedProgramsStayInTheLanguage` and the
two conditions above. So are the findings.

## Plan

Done, in this order: `SessionLifecycle` and `SessionScheduler`; `ActionQueue` and
`ActionRunner`; `AgentRollout`, `ToolCallContract` and `TurnLoop`; the Workflow
language; `ProjectKnowledge`; `ProjectCatalog` and `LiveStoreScan`; proofs of all but the
live scan and the evaluation of programs, with `DurableRun` taken out of `WorkflowRun`
so that its part of the language could be proved about.

Worth doing next: several Sessions that share execution permits; branches that share a
key and suspend apart; the process table of the execution manager; permissions, paths and
patches as pure algorithms.

## Not modelled

- *Text to tree*: the lexer, the parser and the JSON schemas of results. Programs are
  given as trees; a result is valid or not.
- *Model clients, skills, generator, prompts, the web application, built-in
  programs*: I/O and text. A provider answers, fails or is retried.
- *Tools, patches, paths, permissions, processes*: a tool is started and returns.
- *Store*: schema creation, validation of rows that are read, listings, contents
  of events, reading files back, media types.
- *Cancelled runs of a program*: what `checkpoint` does in a Session that is Closing or
  over; `SessionScheduler` has it.
- *Two processes at a file*: `LiveStoreScan` takes the append of a record as one step. A
  scan that reads the rollout in the middle of one may take it for a torn record and
  truncate or complete it (`rollout.rs:120`, `148`).
- *Server and catalog*: `archive_session` and `generate_workflow`, which hold a Project's
  lease while they wait for a Session or a model; that Tokio's RwLock prefers writers
  (no handler takes a lease twice); read-only endpoints (`list_projects` may miss a Project that is
  being removed), the contents of event streams, uploads, the choice of a default
  workspace.
- *Collaboration*: the limits of `spawn_agent`, and `wait_agent`.

`docs/runtime-kernel.md` speaks of one cancellation token from the application down to
the tools; `SessionScheduler::start` makes an independent one per Session, so a
shutdown is a `Crash` to these modules. `PROJECT.json` lists every component with its
status, and the hazards with the properties that cover them.
