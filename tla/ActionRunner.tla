---------------------------- MODULE ActionRunner ----------------------------
(***************************************************************************)
(* The Actions of one Session: ActionRunner::run_session, which spawns one *)
(* task per Agent (crates/workflow/src/action_runner.rs), the Turn each    *)
(* task runs through TurnRuntime (crates/session/src/lib.rs), the Store    *)
(* calls they make, and everybody who interferes: people who pause, close, *)
(* cancel and interrupt, parent Agents, and the loss of the process.       *)
(*                                                                         *)
(* Every store.call closure is one atomic step and everything between two  *)
(* calls interleaves. Of an Action's attempts only the last matters: the   *)
(* earlier ones are Interrupted, and so are their Turns.                   *)
(*                                                                         *)
(* Actions are numbered in the order of their creation, by which           *)
(* list_action_invocations sorts them.                                     *)
(***************************************************************************)
EXTENDS Naturals, FiniteSets

CONSTANTS
  Actions,    (* ActionInvocations                                          *)
  AgentOf,    (* AgentOf[a]: the Agent that is to do a                      *)
  Parent,     (* Parent[g]: the Agent that spawned g, or NoAgent            *)
  NoAgent,
  Delegated,  (* Actions whose source is another Agent                      *)
  Budget      (* Budget[k]: how often a behaviour may contain k (bounds     *)
              (* TLC's exploration)                                         *)

Agents   == {AgentOf[a] : a \in Actions}
Budgeted == {"pause", "crash", "fault", "interrupt", "parent", "cancelTurn"}

ASSUME RunnerAssumption ==
  /\ Actions \subseteq Nat
  /\ IsFiniteSet(Actions)
  /\ Parent \in [Agents -> Agents \cup {NoAgent}]
  /\ NoAgent \notin Agents
  /\ Delegated \subseteq Actions
  /\ \A a \in Actions : Parent[AgentOf[a]] # NoAgent => a \in Delegated
  /\ Budget \in [Budgeted -> Nat]

VARIABLES
  (* durable                                                                *)
  session,    (* SessionStatus: "Open" is any that accepts_actions, "Ended" *)
              (* any terminal one                                           *)
  action,     (* ActionInvocation.status, "None" before it is created       *)
  attempt,    (* status of the last ActionAttempt                           *)
  turn,       (* status of its Turn; "Answered" is a Running Turn whose     *)
              (* rollout ends with the final message                        *)
  interrupt,  (* Actions with a pending or claimed Interrupt input          *)
  (* volatile                                                               *)
  runner,     (* run_session                                                *)
  stop,       (* its CancellationToken is cancelled                         *)
  task,       (* where the task of an Action is, "none" when not spawned or *)
              (* joined                                                     *)
  token,      (* the task's CancellationToken, a child of stop              *)
  turnToken,  (* TurnRuntime's token for the Turn, a child of token         *)
  outcome,    (* what the Turn returned to the task                         *)
  active,     (* TurnRuntimeInner.active, by the Action of the Turn         *)
  woken,      (* an event reached the checkpoint that waits for a resume    *)
  kill,       (* ActionControl::cancel calls interrupt_agent still has to   *)
              (* make                                                       *)
  unsent,     (* TurnRuntime::cancel calls that found no active entry       *)
  (* environment                                                            *)
  spent       (* how much of Budget is used                                 *)

rows  == <<action, attempt, turn, interrupt>>
turns == <<turnToken, outcome, active>>
calls == <<kill, unsent>>
vars  == <<session, rows, runner, stop, task, token, turns, woken, calls, spent>>

(* ActionStatus and TurnStatus                                             *)
Settled    == {"Completed", "Failed", "Cancelled"}
Unstarted  == {"Scheduled", "Interrupted"}
Pending    == Unstarted \cup {"Running"}
ActiveTurn == {"Queued", "Running", "Paused", "Answered"}

InTurn == {"enter", "top", "checkpoint", "pausing", "paused", "claim", "work",
           "complete", "cancel", "interrupt", "fail"}
Ended  == {"ok", "error"}
Places == {"none", "read", "gate", "reopen", "look", "start", "prepare", "track",
           "finish", "withdraw", "settleTurn", "settleFinish"} \cup InTurn \cup Ended

TypeOK ==
  /\ session   \in {"Open", "Paused", "Closing", "Ended"}
  /\ action    \in [Actions -> {"None"} \cup Pending \cup Settled]
  /\ attempt   \in [Actions -> {"None", "Running", "Interrupted"} \cup Settled]
  /\ turn      \in [Actions -> {"None", "Interrupted"} \cup ActiveTurn \cup Settled]
  /\ interrupt \in SUBSET Actions
  /\ runner    \in {"off", "loop", "drain", "settle", "done", "failed"}
  /\ stop      \in BOOLEAN
  /\ task      \in [Actions -> Places]
  /\ token     \in SUBSET Actions
  /\ turnToken \in SUBSET Actions
  /\ outcome   \in [Actions -> {"None", "Interrupted"} \cup Settled]
  /\ active    \in SUBSET Actions
  /\ woken     \in SUBSET Actions
  /\ kill      \in SUBSET Actions
  /\ unsent    \in SUBSET Actions
  /\ spent     \in [Budgeted -> Nat]

Init ==
  /\ session   = "Open"
  /\ action    = [a \in Actions |-> "None"]
  /\ attempt   = [a \in Actions |-> "None"]
  /\ turn      = [a \in Actions |-> "None"]
  /\ interrupt = {}
  /\ runner    = "off"
  /\ stop      = FALSE
  /\ task      = [a \in Actions |-> "none"]
  /\ token     = {}
  /\ turnToken = {}
  /\ outcome   = [a \in Actions |-> "None"]
  /\ active    = {}
  /\ woken     = {}
  /\ kill      = {}
  /\ unsent    = {}
  /\ spent     = [k \in Budgeted |-> 0]

Spend(k) ==
  /\ spent[k] < Budget[k]
  /\ spent' = [spent EXCEPT ![k] = @ + 1]

Siblings(a) == {b \in Actions : AgentOf[b] = AgentOf[a]}
Earlier(a)  == {b \in Siblings(a) : b < a}
Spawned     == {a \in Actions : task[a] # "none"}

(* A committed change is broadcast to whoever has subscribed.              *)
Publish == woken' = woken \cup {a \in Actions : task[a] = "paused"}

Go(a, place) == task' = [task EXCEPT ![a] = place]
-----------------------------------------------------------------------------
(* Store operations on Actions                                             *)

(* create_action_invocation_with_id                                        *)
Invoke(a) ==
  /\ session = "Open"
  /\ action[a] = "None"
  /\ \A b \in Earlier(a) : action[b] # "None"
  /\ action' = [action EXCEPT ![a] = "Scheduled"]
  /\ Publish
  /\ UNCHANGED <<session, attempt, turn, interrupt, runner, stop, task, token,
                 turns, calls, spent>>

(* cancel_pending_action on every Action of S, with                        *)
(* apply_terminal_action_inputs_tx                                         *)
CancelPending(S) ==
  /\ action'    = [a \in Actions |-> IF a \in S THEN "Cancelled" ELSE action[a]]
  /\ interrupt' = interrupt \ S
  /\ UNCHANGED <<attempt, turn>>

(* finish_action accepts a Running attempt of a Running Action, or the     *)
(* outcome they already have; it resolves the Action's inputs.             *)
CanFinish(a, s) ==
  \/ action[a] = "Running" /\ attempt[a] = "Running"
  \/ action[a] = s /\ attempt[a] = s

(* Mistake: the inputs of the attempt stay pending.                        *)
FinishActionOnly(a, s) ==
  /\ action'  = [action EXCEPT ![a] = s]
  /\ attempt' = [attempt EXCEPT ![a] = s]
  /\ UNCHANGED <<turn, interrupt>>

(* Inputs an interrupted Turn acknowledged are resolved here as well:      *)
(* nobody reads them in between.                                           *)
FinishAction(a, s) ==
  /\ action'    = [action EXCEPT ![a] = s]
  /\ attempt'   = [attempt EXCEPT ![a] = s]
  /\ interrupt' = interrupt \ {a}
  /\ UNCHANGED turn
-----------------------------------------------------------------------------
(* ActionRunner::run_session                                               *)

(* The scheduler starts every Session it creates or recovers.              *)
RunnerStart ==
  /\ runner = "off"
  /\ session # "Ended"
  /\ runner' = "loop"
  /\ stop'   = FALSE
  /\ UNCHANGED <<session, rows, task, token, turns, woken, calls, spent>>

(* Mistake: an interrupted Action no longer keeps its place in the queue.  *)
FirstScheduled(a) ==
  /\ action[a] \in {"Scheduled", "Running"}
  /\ \A b \in Earlier(a) : action[b] \notin {"Scheduled", "Running"}

(* first_pending_action_per_agent                                          *)
FirstPending(a) ==
  /\ action[a] \in Pending
  /\ \A b \in Earlier(a) : action[b] \notin Pending

(* active_agents: an Agent is busy until the task of its Action is joined. *)
Busy(a) == \E b \in Siblings(a) : task[b] # "none"

Spawn == {a \in Actions : FirstPending(a) /\ ~Busy(a)}

(* One turn of the loop: read the Session and its Actions, spawn.          *)
RunnerSpawn ==
  /\ runner  = "loop"
  /\ session = "Open"
  /\ Spawn # {}
  /\ task'  = [a \in Actions |-> IF a \in Spawn THEN "read" ELSE task[a]]
  /\ token' = IF stop THEN token \cup Spawn ELSE token
  /\ UNCHANGED <<session, rows, runner, stop, turns, woken, calls, spent>>

(* The loop ends when the Session is found Closing, or on a cancel; every  *)
(* task is told to stop.                                                   *)
RunnerBreak ==
  /\ runner = "loop"
  /\ session \in {"Closing", "Ended"} \/ stop
  /\ runner' = "drain"
  /\ stop'   = TRUE
  /\ token'  = Spawned
  /\ UNCHANGED <<session, rows, task, turns, woken, calls, spent>>

RunnerJoin(a) ==
  /\ runner \in {"loop", "drain"}
  /\ task[a] = "ok"
  /\ Go(a, "none")
  /\ token' = token \ {a}
  /\ UNCHANGED <<session, rows, runner, stop, turns, woken, calls, spent>>

(* run_session returns the error; its JoinSet aborts the other tasks       *)
(* wherever they are, and nobody takes their Turns out of `active`.        *)
RunnerFail ==
  /\ runner'    = "failed"
  /\ task'      = [a \in Actions |-> "none"]
  /\ token'     = {}
  /\ turnToken' = {}
  /\ outcome'   = [a \in Actions |-> "None"]
  /\ kill'      = {}
  /\ woken'     = {}
  /\ UNCHANGED <<session, rows, stop, active, unsent, spent>>

RunnerJoinError(a) ==
  /\ runner \in {"loop", "drain"}
  /\ task[a] = "error"
  /\ RunnerFail

RunnerDrained ==
  /\ runner = "drain"
  /\ Spawned = {}
  /\ runner' = IF session = "Closing" THEN "settle" ELSE "done"
  /\ UNCHANGED <<session, rows, stop, task, token, turns, woken, calls, spent>>
-----------------------------------------------------------------------------
(* cancel_remaining_actions, one Action at a time                          *)

SettlePending(a) ==
  /\ runner = "settle"
  /\ Spawned = {}
  /\ action[a] \in Unstarted
  /\ CancelPending({a})
  /\ Publish
  /\ UNCHANGED <<session, runner, stop, task, token, turns, calls, spent>>

(* finish_running_action_during_close: the result of a Turn that finished  *)
(* is kept, one that is active is cancelled first.                         *)
SettleLook(a) ==
  /\ runner = "settle"
  /\ Spawned = {}
  /\ action[a] = "Running"
  /\ attempt[a] = "Running"
  /\ Go(a, IF turn[a] \in ActiveTurn THEN "settleTurn" ELSE "settleFinish")
  /\ outcome' = [outcome EXCEPT ![a] =
       IF turn[a] \in {"Completed", "Failed"} THEN turn[a] ELSE "Cancelled"]
  /\ UNCHANGED <<session, rows, runner, stop, token, turnToken, active, woken,
                 calls, spent>>

(* TurnRuntime::cancel. Nothing is active after the join, so it goes to    *)
(* the Store, where somebody else may have cancelled the Turn by now.      *)
SettleTurn(a) ==
  /\ task[a] = "settleTurn"
  /\ a \in active \/ turn[a] \in ActiveTurn
  /\ Go(a, "settleFinish")
  /\ IF a \in active
       THEN turnToken' = turnToken \cup {a} /\ UNCHANGED <<turn, woken>>
       ELSE turn' = [turn EXCEPT ![a] = "Cancelled"] /\ Publish /\ UNCHANGED turnToken
  /\ UNCHANGED <<session, action, attempt, interrupt, runner, stop, token,
                 outcome, active, calls, spent>>

SettleTurnError(a) ==
  /\ task[a] = "settleTurn"
  /\ a \notin active /\ turn[a] \notin ActiveTurn
  /\ RunnerFail

SettleFinish(a) ==
  /\ task[a] = "settleFinish"
  /\ CanFinish(a, outcome[a])
  /\ FinishAction(a, outcome[a])
  /\ outcome' = [outcome EXCEPT ![a] = "None"]
  /\ Go(a, "none")
  /\ Publish
  /\ UNCHANGED <<session, runner, stop, token, turnToken, active, calls, spent>>

(* Mistake: only the Actions that never started are looked for.            *)
SettleDoneEarly ==
  /\ runner = "settle"
  /\ Spawned = {}
  /\ \A a \in Actions : action[a] # "Scheduled"
  /\ runner' = "done"
  /\ UNCHANGED <<session, rows, stop, task, token, turns, woken, calls, spent>>

SettleDone ==
  /\ runner = "settle"
  /\ Spawned = {}
  /\ \A a \in Actions : action[a] \notin Pending
  /\ runner' = "done"
  /\ UNCHANGED <<session, rows, stop, task, token, turns, woken, calls, spent>>
-----------------------------------------------------------------------------
(* run_action and run_action_inner                                         *)

(* register, then read the Action and whether an attempt is unfinished     *)
TaskRead(a) ==
  /\ task[a] = "read"
  /\ Go(a, CASE action[a] \in Settled    -> "ok"
             [] attempt[a] = "Running"   -> "reopen"
             [] OTHER                    -> "gate")
  /\ UNCHANGED <<session, rows, runner, stop, token, turns, woken, calls, spent>>

(* The head of the loop: a task that is cancelled, or whose Session does   *)
(* not accept Actions, returns Cancelled, which run_session ignores.       *)
Barred(a) == a \in token \/ session # "Open"

TaskBarred(a) ==
  /\ task[a] \in {"gate", "reopen"}
  /\ Barred(a)
  /\ Go(a, "ok")
  /\ UNCHANGED <<session, rows, runner, stop, token, turns, woken, calls, spent>>

TaskGate(a) ==
  /\ task[a] \in {"gate", "reopen"}
  /\ ~Barred(a)
  /\ Go(a, IF task[a] = "gate" THEN "start" ELSE "look")
  /\ UNCHANGED <<session, rows, runner, stop, token, turns, woken, calls, spent>>

(* Mistake: a recovered attempt always runs its Turn again.                *)
TaskReopenAlways(a) ==
  /\ task[a] = "look"
  /\ Go(a, IF turn[a] = "None" THEN "prepare" ELSE "track")
  /\ UNCHANGED <<session, rows, runner, stop, token, turns, woken, calls, spent>>

(* A recovered attempt goes on with its Turn, or with what became of it.   *)
TaskReopen(a) ==
  /\ task[a] = "look"
  /\ Go(a, CASE turn[a] = "None"       -> "prepare"
             [] turn[a] \in ActiveTurn -> "track"
             [] OTHER                  -> "finish")
  /\ outcome' = [outcome EXCEPT ![a] = IF turn[a] \in {"None"} \cup ActiveTurn
                                         THEN "None" ELSE turn[a]]
  /\ UNCHANGED <<session, rows, runner, stop, token, turnToken, active, woken,
                 calls, spent>>

(* start_action_attempt                                                    *)
CanStart(a) ==
  /\ action[a] \in Unstarted
  /\ session = "Open"
  /\ attempt[a] # "Running"

TaskStart(a) ==
  /\ task[a] = "start"
  /\ CanStart(a)
  /\ action'  = [action EXCEPT ![a] = "Running"]
  /\ attempt' = [attempt EXCEPT ![a] = "Running"]
  /\ turn'    = [turn EXCEPT ![a] = "None"]
  /\ unsent'  = unsent \ {a}
  /\ Go(a, "prepare")
  /\ Publish
  /\ UNCHANGED <<session, interrupt, runner, stop, token, turns, kill, spent>>

TaskStartError(a) ==
  /\ task[a] = "start"
  /\ ~CanStart(a)
  /\ Go(a, "error")
  /\ UNCHANGED <<session, rows, runner, stop, token, turns, woken, calls, spent>>

(* prepare_turn, whose last call is create_turn_for_attempt                *)
TaskPrepare(a) ==
  /\ task[a] = "prepare"
  /\ IF /\ session # "Ended"
        /\ attempt[a] = "Running" /\ turn[a] = "None"
        /\ \A b \in Siblings(a) : turn[b] \notin ActiveTurn
       THEN /\ turn' = [turn EXCEPT ![a] = "Queued"]
            /\ Go(a, "track")
            /\ Publish
            /\ UNCHANGED outcome
       ELSE /\ outcome' = [outcome EXCEPT ![a] = "Failed"]
            /\ Go(a, "finish")
            /\ UNCHANGED <<turn, woken>>
  /\ UNCHANGED <<session, action, attempt, interrupt, runner, stop, token,
                 turnToken, active, calls, spent>>

(* A skill, a tool, the model route or the Workspace is not what the Agent *)
(* needs, or its access changed meanwhile: there is no Turn.               *)
TaskPrepareError(a) ==
  /\ task[a] = "prepare"
  /\ Spend("fault")
  /\ outcome' = [outcome EXCEPT ![a] = "Failed"]
  /\ Go(a, "finish")
  /\ UNCHANGED <<session, rows, runner, stop, token, turnToken, active, woken, calls>>

(* finish_action with what the Turn returned: a Turn that was cancelled    *)
(* although its Action was not fails the Action.                           *)
Verdict(a) ==
  IF outcome[a] = "Cancelled" /\ a \notin token THEN "Failed" ELSE outcome[a]

TaskFinish(a) ==
  /\ task[a] = "finish"
  /\ IF CanFinish(a, Verdict(a))
       THEN /\ FinishAction(a, Verdict(a))
            /\ Go(a, CASE outcome[a] # "Interrupted" -> "ok"
                       [] a \in Delegated            -> "withdraw"
                       [] OTHER                      -> "gate")
            /\ Publish
       ELSE /\ Go(a, "error")
            /\ UNCHANGED <<rows, woken>>
  /\ outcome' = [outcome EXCEPT ![a] = "None"]
  /\ UNCHANGED <<session, runner, stop, token, turnToken, active, calls, spent>>

(* An Action another Agent asked for is not retried: cancel_pending_action *)
(* cancels it, unless interrupt_agent has done so already.                 *)
TaskWithdraw(a) ==
  /\ task[a] = "withdraw"
  /\ IF action[a] \in Unstarted
       THEN CancelPending({a}) /\ Publish
       ELSE UNCHANGED <<rows, woken>>
  /\ Go(a, IF action[a] \in Unstarted \cup {"Cancelled"} THEN "ok" ELSE "error")
  /\ UNCHANGED <<session, runner, stop, token, turns, calls, spent>>
-----------------------------------------------------------------------------
(* TurnRuntime::run_tracked_turn and run_scheduled_turn_inner              *)

Stopped(a) == a \in token \cup turnToken

(* Nothing of the Store changes, the task moves on.                        *)
Step(a, from, to) ==
  /\ task[a] = from
  /\ Go(a, to)
  /\ UNCHANGED <<session, rows, runner, stop, token, turns, calls, spent>>

(* run_tracked_turn returns: the Turn is no longer active.                 *)
Leave(a, result) ==
  /\ Go(a, "finish")
  /\ outcome'   = [outcome EXCEPT ![a] = result]
  /\ active'    = active \ {a}
  /\ turnToken' = turnToken \ {a}
  /\ UNCHANGED <<session, action, attempt, interrupt, runner, stop, token>>

(* transition_turn from an active Turn; a Turn that is terminal already    *)
(* makes it an error, and the Turn returns that.                           *)
EndTurn(a, status) ==
  IF turn[a] \in ActiveTurn
    THEN turn' = [turn EXCEPT ![a] = status] /\ Publish /\ Leave(a, status)
    ELSE UNCHANGED <<turn, woken>> /\ Leave(a, "Failed")

TurnTrack(a) ==
  /\ task[a] = "track"
  /\ Go(a, "enter")
  /\ active' = active \cup {a}
  /\ UNCHANGED <<session, rows, runner, stop, token, turnToken, outcome, woken,
                 calls, spent>>

(* start_turn, and what the Turn needs to run is still there. With a final *)
(* message in the rollout nothing is left to do but complete it.           *)
TurnEnter(a) ==
  /\ task[a] = "enter"
  /\ turn[a] \in ActiveTurn
  /\ Go(a, IF turn[a] = "Answered" THEN "complete" ELSE "top")
  /\ turn' = [turn EXCEPT ![a] = IF @ = "Answered" THEN @ ELSE "Running"]
  /\ Publish
  /\ UNCHANGED <<session, action, attempt, interrupt, runner, stop, token, turns,
                 calls, spent>>

(* cancel_turn got there first.                                            *)
TurnEnterCancelled(a) ==
  /\ task[a] = "enter"
  /\ turn[a] \notin ActiveTurn
  /\ Leave(a, "Failed")
  /\ UNCHANGED <<turn, woken, calls, spent>>

(* The snapshot is refused, after start_turn: the Turn stays as it is.     *)
TurnEnterError(a) ==
  /\ task[a] = "enter"
  /\ turn[a] \in ActiveTurn
  /\ Spend("fault")
  /\ turn' = [turn EXCEPT ![a] = IF @ = "Answered" THEN @ ELSE "Running"]
  /\ Leave(a, "Failed")
  /\ Publish
  /\ UNCHANGED calls

(* The head of AgentRuntime::run's loop                                    *)
TurnTop(a) ==
  /\ Step(a, "top", IF Stopped(a) THEN "cancel" ELSE "checkpoint")
  /\ UNCHANGED woken

(* StoreAgentControlPlane::checkpoint: a Session that is over, or about to *)
(* be, interrupts the Turn.                                                *)
TurnCheckpoint(a) ==
  /\ Step(a, "checkpoint", CASE session = "Open"   -> "claim"
                             [] session = "Paused" -> "pausing"
                             [] OTHER              -> "interrupt")
  /\ UNCHANGED woken

(* Its second call pauses the Turn and only then subscribes.               *)
TurnPause(a) ==
  /\ task[a] = "pausing"
  /\ IF turn[a] \in ActiveTurn
       THEN Go(a, "paused") /\ turn' = [turn EXCEPT ![a] = "Paused"]
       ELSE Go(a, "fail")   /\ UNCHANGED turn
  /\ IF turn[a] \in ActiveTurn \ {"Paused"} THEN Publish ELSE UNCHANGED woken
  /\ UNCHANGED <<session, action, attempt, interrupt, runner, stop, token, turns,
                 calls, spent>>

TurnWake(a) ==
  /\ a \in woken
  /\ Step(a, "paused", "checkpoint")
  /\ woken' = woken \ {a}

TurnPausedStopped(a) ==
  /\ Stopped(a)
  /\ Step(a, "paused", "fail")
  /\ woken' = woken \ {a}

(* The Turn is resumed and claims its inputs; an Interrupt ends it.        *)
TurnClaim(a) ==
  /\ task[a] = "claim"
  /\ Go(a, CASE turn[a] \notin ActiveTurn \/ session = "Ended" -> "fail"
             [] OTHER -> IF a \in interrupt THEN "interrupt" ELSE "work")
  /\ turn' = [turn EXCEPT ![a] = IF @ = "Paused" THEN "Running" ELSE @]
  /\ IF turn[a] = "Paused" THEN Publish ELSE UNCHANGED woken
  /\ UNCHANGED <<session, action, attempt, interrupt, runner, stop, token, turns,
                 calls, spent>>

(* Sampling and tools. Each history checkpoint needs an active Turn, and a *)
(* tool call returns before the next model step.                           *)
Calls(a) == {b \in kill : Parent[AgentOf[b]] = AgentOf[a]}

WorkOn(a) ==
  /\ Calls(a) = {}
  /\ Step(a, "work", IF turn[a] \in ActiveTurn THEN "top" ELSE "fail")
  /\ Publish

(* A final message is checkpointed before complete_turn.                   *)
WorkAnswer(a) ==
  /\ task[a] = "work"
  /\ Calls(a) = {}
  /\ turn[a] \in ActiveTurn
  /\ turn' = [turn EXCEPT ![a] = "Answered"]
  /\ Go(a, "complete")
  /\ Publish
  /\ UNCHANGED <<session, action, attempt, interrupt, runner, stop, token, turns,
                 calls, spent>>

(* Cancelled while sampling, retrying or in a tool, which is dropped.      *)
WorkStopped(a) ==
  /\ task[a] = "work"
  /\ Stopped(a)
  /\ Go(a, "cancel")
  /\ kill' = kill \ Calls(a)
  /\ UNCHANGED <<session, rows, runner, stop, token, turns, woken, unsent, spent>>

(* The model, the event sink or the context budget fails the Turn.         *)
WorkError(a) ==
  /\ task[a] = "work"
  /\ Calls(a) = {}
  /\ Spend("fault")
  /\ Go(a, "fail")
  /\ UNCHANGED <<session, rows, runner, stop, token, turns, woken, calls>>

(* complete_turn, cancel_turn, interrupt_turn_with_inputs and fail_turn    *)
TurnComplete(a) ==
  /\ task[a] = "complete"
  /\ EndTurn(a, "Completed")
  /\ UNCHANGED <<calls, spent>>

TurnCancel(a) ==
  /\ task[a] = "cancel"
  /\ IF turn[a] = "Cancelled"
       THEN Leave(a, "Cancelled") /\ UNCHANGED <<turn, woken>>
       ELSE EndTurn(a, "Cancelled")
  /\ UNCHANGED <<calls, spent>>

TurnInterrupt(a) ==
  /\ task[a] = "interrupt"
  /\ EndTurn(a, "Interrupted")
  /\ UNCHANGED <<calls, spent>>

TurnFail(a) ==
  /\ task[a] = "fail"
  /\ EndTurn(a, "Failed")
  /\ UNCHANGED <<calls, spent>>
-----------------------------------------------------------------------------
(* Everybody else                                                          *)

(* SessionScheduler::pause and resume, as far as Actions notice            *)
Pause ==
  /\ session = "Open"
  /\ Spend("pause")
  /\ session' = "Paused"
  /\ Publish
  /\ UNCHANGED <<rows, runner, stop, task, token, turns, calls>>

Resume ==
  /\ session = "Paused"
  /\ session' = "Open"
  /\ Publish
  /\ UNCHANGED <<rows, runner, stop, task, token, turns, calls, spent>>

(* begin_session_closing: the Workflow returned, a person cancelled ...    *)
Close ==
  /\ session \in {"Open", "Paused"}
  /\ session' = "Closing"
  /\ Publish
  /\ UNCHANGED <<rows, runner, stop, task, token, turns, calls, spent>>

(* ... and SessionScheduler::cancel goes on to cancel the run.             *)
CancelRun ==
  /\ session = "Closing"
  /\ runner = "loop"
  /\ ~stop
  /\ stop'  = TRUE
  /\ token' = Spawned
  /\ UNCHANGED <<session, rows, runner, task, turns, woken, calls, spent>>

(* run_scheduled closes a Session whose runner failed. It does not finish  *)
(* the closing, nor does anybody else before the next start.               *)
CloseFailed ==
  /\ runner = "failed"
  /\ session \in {"Open", "Paused"}
  /\ session' = "Closing"
  /\ Publish
  /\ UNCHANGED <<rows, runner, stop, task, token, turns, calls, spent>>

(* finish_session_closing, after run_session returned Ok                   *)
End ==
  /\ session = "Closing"
  /\ runner = "done"
  /\ session'   = "Ended"
  /\ interrupt' = {}
  /\ Publish
  /\ UNCHANGED <<action, attempt, turn, runner, stop, task, token, turns, calls, spent>>

(* create_agent_input with kind Interrupt for an Action, by a person       *)
HumanInterrupt(a) ==
  /\ session # "Ended"
  /\ action[a] # "None"
  /\ Spend("interrupt")
  /\ interrupt' = interrupt \cup {a}
  /\ Publish
  /\ UNCHANGED <<session, action, attempt, turn, runner, stop, task, token, turns, calls>>

(* Mistake: the Running Action is cancelled as well.                       *)
InterruptAgentAll(g) ==
  /\ session # "Ended"
  /\ \E p \in Actions : task[p] = "work" /\ AgentOf[p] = Parent[g]
  /\ Spend("parent")
  /\ CancelPending({a \in Actions : AgentOf[a] = g /\ action[a] \in Pending})
  /\ Publish
  /\ UNCHANGED <<session, runner, stop, task, token, turns, calls>>

(* The interrupt_agent tool of the Agent that spawned g: first             *)
(* interrupt_descendant_agent ...                                          *)
InterruptAgent(g) ==
  /\ session # "Ended"
  /\ \E p \in Actions : task[p] = "work" /\ AgentOf[p] = Parent[g]
  /\ Spend("parent")
  /\ LET mine    == {a \in Actions : AgentOf[a] = g}
         waiting == {a \in mine : action[a] \in Unstarted}
         running == {a \in mine : action[a] = "Running"}
     IN  /\ action'    = [a \in Actions |-> IF a \in waiting THEN "Cancelled"
                                                            ELSE action[a]]
         /\ interrupt' = (interrupt \ waiting) \cup running
         /\ kill'      = kill \cup running
  /\ Publish
  /\ UNCHANGED <<session, attempt, turn, runner, stop, task, token, turns, unsent>>

(* ... then ActionControl::cancel, if the task is still registered.        *)
KillRunning(a) ==
  /\ a \in kill
  /\ kill'  = kill \ {a}
  /\ token' = IF task[a] \in {"none", "read"} \cup Ended THEN token ELSE token \cup {a}
  /\ UNCHANGED <<session, rows, runner, stop, task, turns, woken, unsent, spent>>

(* The API cancels one Turn: its token, if it is active ...                *)
CancelTurn(a) ==
  /\ turn[a] \in ActiveTurn
  /\ Spend("cancelTurn")
  /\ IF a \in active
       THEN turnToken' = turnToken \cup {a} /\ UNCHANGED unsent
       ELSE unsent' = unsent \cup {a} /\ UNCHANGED turnToken
  /\ UNCHANGED <<session, rows, runner, stop, task, token, outcome, active, woken, kill>>

(* ... else its row.                                                       *)
CancelTurnRow(a) ==
  /\ a \in unsent
  /\ unsent' = unsent \ {a}
  /\ IF turn[a] \in ActiveTurn
       THEN turn' = [turn EXCEPT ![a] = "Cancelled"] /\ Publish
       ELSE UNCHANGED <<turn, woken>>
  /\ UNCHANGED <<session, action, attempt, interrupt, runner, stop, task, token,
                 turns, kill, spent>>

(* Any other event of the Project wakes every subscriber.                  *)
OtherEvent ==
  /\ Publish
  /\ UNCHANGED <<session, rows, runner, stop, task, token, turns, calls, spent>>

(* The process dies; the next one recovers the Session.                    *)
Crash ==
  /\ session # "Ended"
  /\ Spend("crash")
  /\ runner'    = "off"
  /\ stop'      = FALSE
  /\ task'      = [a \in Actions |-> "none"]
  /\ token'     = {}
  /\ turnToken' = {}
  /\ outcome'   = [a \in Actions |-> "None"]
  /\ active'    = {}
  /\ woken'     = {}
  /\ kill'      = {}
  /\ unsent'    = {}
  /\ UNCHANGED <<session, rows>>
-----------------------------------------------------------------------------
Runner ==
  \/ RunnerStart \/ RunnerSpawn \/ RunnerBreak \/ RunnerDrained \/ SettleDone
  \/ \E a \in Actions :
       \/ RunnerJoin(a) \/ RunnerJoinError(a)
       \/ SettlePending(a) \/ SettleLook(a) \/ SettleTurn(a) \/ SettleTurnError(a)
       \/ SettleFinish(a)

Task(a) ==
  \/ TaskRead(a) \/ TaskBarred(a) \/ TaskGate(a) \/ TaskReopen(a) \/ TaskStart(a)
  \/ TaskStartError(a) \/ TaskPrepare(a) \/ TaskFinish(a) \/ TaskWithdraw(a)

Turn(a) ==
  \/ TurnTrack(a) \/ TurnEnter(a) \/ TurnEnterCancelled(a) \/ TurnTop(a)
  \/ TurnCheckpoint(a) \/ TurnPause(a) \/ TurnWake(a) \/ TurnPausedStopped(a)
  \/ TurnClaim(a) \/ WorkOn(a) \/ WorkAnswer(a) \/ WorkStopped(a)
  \/ TurnComplete(a) \/ TurnCancel(a) \/ TurnInterrupt(a) \/ TurnFail(a)

Faults(a) == TaskPrepareError(a) \/ TurnEnterError(a) \/ WorkError(a)

Others ==
  \/ Pause \/ Resume \/ Close \/ CancelRun \/ CloseFailed \/ End \/ OtherEvent
  \/ \E g \in Agents : InterruptAgent(g)
  \/ \E a \in Actions :
       \/ Invoke(a) \/ HumanInterrupt(a) \/ KillRunning(a)
       \/ CancelTurn(a) \/ CancelTurnRow(a)

Next == Runner \/ (\E a \in Actions : Task(a) \/ Turn(a) \/ Faults(a)) \/ Others \/ Crash

Spec == Init /\ [][Next]_vars

(* Every task that can run is polled, the Store serves every call, tools   *)
(* return, and a model that is asked again and again answers.              *)
Fairness ==
  /\ WF_vars(Runner) /\ WF_vars(CloseFailed) /\ WF_vars(End)
  /\ \A a \in Actions :
       /\ WF_vars(Task(a)) /\ WF_vars(Turn(a)) /\ SF_vars(WorkAnswer(a))
       /\ WF_vars(KillRunning(a)) /\ WF_vars(CancelTurnRow(a))

FairSpec == Spec /\ Fairness
-----------------------------------------------------------------------------
(* Properties                                                              *)

(* The Store's own invariant (interrupt_descendant_agent): an Agent never  *)
(* has two Running Actions, whatever is interrupted, retried or recovered. *)
OneRunningPerAgent ==
  \A a \in Actions : \A b \in Earlier(a) :
    ~(action[a] = "Running" /\ action[b] = "Running")

(* A model is sampled and tools run only for the Running Action of a       *)
(* Session that has not ended, and of its Agent no other Turn is under way *)
(* in this process: not across an interruption, an API cancel or a drain.  *)
(* (Where an Agent has one Action, the last of these says nothing; that it *)
(* holds of any number is proved in ActionRunner_proofs.)                  *)
WorkIsAccounted ==
  \A a \in Actions : task[a] = "work" =>
    /\ session # "Ended"
    /\ action[a] = "Running" /\ attempt[a] = "Running"
    /\ \A b \in Siblings(a) \ {a} : task[b] = "none"

(* A Turn that completed is never lost: its Action is Completed or still   *)
(* to be, also when the process dies or the Session closes between         *)
(* complete_turn and finish_action; and no Action completes without it.    *)
ResultsAreKept ==
  \A a \in Actions :
    /\ turn[a] = "Completed" => action[a] \in {"Running", "Completed"}
    /\ action[a] = "Completed" => turn[a] = "Completed"

(* When finish_session_closing commits, no task is left and every Action   *)
(* that was scheduled is settled.                                          *)
EndedIsSettled ==
  session = "Ended" =>
    \A a \in Actions : action[a] \notin Pending /\ task[a] = "none"

(* An Agent's Actions start in the order of their creation, each when the  *)
(* earlier ones are settled, and what is settled stays as it is.           *)
Queue == INSTANCE ActionQueue

ImplementsQueue == Queue!Spec

(* A scheduled Action is settled, unless an error of another one ends the  *)
(* run first.                                                              *)
ActionsSettle ==
  \A a \in Actions :
    (action[a] = "Scheduled") ~> (action[a] \in Settled \/ runner = "failed")

(* "Session closure cancels outstanding work before the scheduler commits  *)
(* terminal status" (docs/runtime-kernel.md): a Session that is Closing    *)
(* reaches its terminal status.                                            *)
ClosingEnds == (session = "Closing") ~> (session = "Ended")

=============================================================================
