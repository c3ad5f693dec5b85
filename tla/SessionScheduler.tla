-------------------------- MODULE SessionScheduler --------------------------
(***************************************************************************)
(* One Session run by SessionScheduler (crates/workflow/src/scheduler.rs): *)
(* the run_scheduled task with its run_workflow and ActionRunner tasks,    *)
(* the Workflow interpreter's durable effects (runtime.rs), the Store      *)
(* calls they make (store/src/database.rs), the people who pause, resume,  *)
(* cancel and answer, and the loss and recovery of the process.            *)
(*                                                                         *)
(* Every store.call closure runs on one Store thread, so each is one       *)
(* atomic step; everything between two calls interleaves.                  *)
(*                                                                         *)
(* A Workflow is a finite partial order of durable effects: an effect is   *)
(* reached when all it Needs have returned in this execution, so effects   *)
(* that do not need each other are branches of a `parallel`.               *)
(***************************************************************************)
EXTENDS Naturals, FiniteSets

CONSTANTS
  Effects,   (* the durable effects of the Workflow                         *)
  Kind,      (* Kind[e]: "ask" (ask_human), "wait", or "call" (any effect   *)
             (* that neither suspends nor changes the Session's status)     *)
  Needs,     (* Needs[e]: the effects whose results e is computed from      *)
  Budget     (* Budget[k]: how many pauses, resumes, crashes, ActionRunner  *)
             (* failures a behaviour may contain (bounds TLC's exploration) *)

Budgeted == {"pause", "resume", "crash", "fault"}

ASSUME SchedulerAssumption ==
  /\ IsFiniteSet(Effects)
  /\ Kind   \in [Effects -> {"ask", "wait", "call"}]
  /\ Needs  \in [Effects -> SUBSET Effects]
  /\ Budget \in [Budgeted -> Nat]

VARIABLES
  (* durable: the Session row and its resources                             *)
  status,     (* Session.status                                             *)
  closing,    (* Session.closing_status, "None" when absent                 *)
  attention,  (* Session.attention_required                                 *)
  request,    (* HumanRequest of each "ask" effect, "None" before creation  *)
  journal,    (* session_effects row of each effect                         *)
  (* volatile: the tasks of this process                                    *)
  run,        (* run_scheduled, "None" when the handles map has no entry    *)
  token,      (* ScheduledRun.cancellation is cancelled                     *)
  wf,         (* run_workflow                                               *)
  actions,    (* the ActionRunner::run_session task                         *)
  branch,     (* how far this execution got with each effect                *)
  result,     (* what SessionExecutor::execute returned                     *)
  hint,       (* wake_at_hint: the waits whose earliest deadline it is      *)
  woken,      (* an event reached wait_until_runnable's receiver            *)
  (* volatile: API calls half way through                                   *)
  starter,    (* SessionScheduler::start                                    *)
  canceller,  (* SessionScheduler::cancel committed Closing, token pending  *)
  (* environment                                                            *)
  due,        (* the deadline of a journaled wait has passed                *)
  spent       (* how much of Budget is used                                 *)

store == <<status, closing, attention, request, journal>>
tasks == <<run, token, wf, actions>>
exec  == <<branch, result, hint>>
api   == <<starter, canceller>>
env   == <<due, spent>>
vars  == <<store, tasks, exec, woken, api, env>>

(* SessionStatus                                                           *)
Terminal == {"Completed", "Failed", "Cancelled"}
Waiting  == {"WaitingForInput", "WaitingForDeadline"}
Open     == {"Created", "Running", "Paused"} \cup Waiting
Status   == Open \cup {"Closing"} \cup Terminal

(* Places of run_workflow inside wait_until_runnable: its receiver exists. *)
Subscribed == {"wait", "sleep", "sleepDeadline", "requests", "wake"}

TypeOK ==
  /\ status    \in Status
  /\ closing   \in Terminal \cup {"None"}
  /\ attention \in BOOLEAN
  /\ request   \in [Effects -> {"None", "Open", "Answered", "Cancelled"}]
  /\ journal   \in [Effects -> {"None", "Started", "Completed", "Failed"}]
  /\ run       \in {"None", "entry", "closing", "tasks", "actionError",
                    "finish", "release"}
  /\ token     \in BOOLEAN
  /\ wf        \in {"off", "get", "admit", "start", "exec", "charge", "decide",
                    "suspend", "close", "done"} \cup Subscribed
  /\ actions   \in {"off", "live", "done", "failed"}
  /\ branch    \in [Effects -> {"idle", "begun", "ready", "returning", "erring",
                                "done", "failed", "aborted",
                                "WaitingForInput", "WaitingForDeadline", "Paused"}]
  /\ result    \in {"None", "Paused"} \cup Waiting \cup Terminal
  /\ hint      \in SUBSET Effects
  /\ woken     \in BOOLEAN
  /\ starter   \in {"None", "check", "insert"}
  /\ canceller \in BOOLEAN
  /\ due       \in [Effects -> BOOLEAN]
  /\ spent     \in [Budgeted -> Nat]

(* create_session, whose caller goes on to SessionScheduler::start.        *)
Init ==
  /\ status    = "Created"
  /\ closing   = "None"
  /\ attention = FALSE
  /\ request   = [e \in Effects |-> "None"]
  /\ journal   = [e \in Effects |-> "None"]
  /\ run       = "None"
  /\ token     = FALSE
  /\ wf        = "off"
  /\ actions   = "off"
  /\ branch    = [e \in Effects |-> "idle"]
  /\ result    = "None"
  /\ hint      = {}
  /\ woken     = FALSE
  /\ starter   = "check"
  /\ canceller = FALSE
  /\ due       = [e \in Effects |-> FALSE]
  /\ spent     = [k \in Budgeted |-> 0]

Spend(k) ==
  /\ spent[k] < Budget[k]
  /\ spent' = [spent EXCEPT ![k] = @ + 1]
-----------------------------------------------------------------------------
(* Store calls that write the Session row.                                 *)

(* Mistake: the receiver is created only when there is nothing to do.      *)
PublishToSleepers == woken' = (woken \/ wf \in {"sleep", "sleepDeadline"})

(* A committed change is broadcast; it reaches whoever has subscribed.     *)
Publish == woken' = (woken \/ wf \in Subscribed)

(* transition_session(id, from, to): Ok for the same status or from one of *)
(* `from`, an error that changes nothing otherwise.                        *)
CanTransition(from, to) == status = to \/ status \in from

TransitionSession(from, to) ==
  /\ CanTransition(from, to)
  /\ status'  = to
  /\ closing' = "None"
  /\ UNCHANGED <<attention, request, journal>>

StartFrom  == {"Created", "Running"}
PauseFrom  == {"Running", "Paused"} \cup Waiting
ResumeFrom == {"Running", "Paused"} \cup Waiting

(* Mistake: a later outcome replaces the one the Session is Closing with.  *)
BeginClosingAgain(final) ==
  /\ IF status \notin Terminal
       THEN status' = "Closing" /\ closing' = final /\ attention' = FALSE
       ELSE UNCHANGED <<status, closing, attention>>
  /\ UNCHANGED <<request, journal>>

(* begin_session_closing: any open Session takes the outcome, one that is  *)
(* Closing or terminal keeps the one it has.                               *)
BeginClosing(final) ==
  /\ IF status \in Open
       THEN status' = "Closing" /\ closing' = final /\ attention' = FALSE
       ELSE UNCHANGED <<status, closing, attention>>
  /\ UNCHANGED <<request, journal>>

(* Mistake: the resources of the Session are not terminalized.             *)
FinishClosingOnly ==
  /\ status'  = IF status = "Closing" THEN closing ELSE status
  /\ closing' = "None"
  /\ UNCHANGED <<attention, request, journal>>

(* finish_session_closing, with terminalize_session_resources_tx           *)
FinishClosing ==
  /\ IF status = "Closing"
       THEN /\ status'  = closing
            /\ closing' = "None"
            /\ request' = [e \in Effects |-> IF request[e] = "Open"
                                               THEN "Cancelled" ELSE request[e]]
       ELSE UNCHANGED <<status, closing, request>>
  /\ UNCHANGED <<attention, journal>>
-----------------------------------------------------------------------------
(* SessionScheduler::start, called after create_session, by resume and by  *)
(* recover: a check of the stored status, then the handles map.            *)

StartCheck ==
  /\ starter = "check"
  /\ starter' = IF status \in Terminal THEN "None" ELSE "insert"
  /\ UNCHANGED <<store, tasks, exec, woken, canceller, env>>

StartInsert ==
  /\ starter  = "insert"
  /\ starter' = "None"
  /\ IF run = "None"
       THEN run' = "entry" /\ token' = FALSE
       ELSE UNCHANGED <<run, token>>
  /\ UNCHANGED <<store, wf, actions, exec, woken, canceller, env>>

(* SessionScheduler::pause                                                 *)
Pause ==
  /\ Spend("pause")
  /\ TransitionSession(PauseFrom, "Paused")
  /\ Publish
  /\ UNCHANGED <<tasks, exec, api, due>>

(* SessionScheduler::resume: resume_session, then start. One start is      *)
(* under way at a time: a second one finds the handle and returns.         *)
Resume ==
  /\ starter = "None"
  /\ Spend("resume")
  /\ TransitionSession(ResumeFrom, "Running")
  /\ Publish
  /\ starter' = "check"
  /\ UNCHANGED <<tasks, exec, canceller, due>>

(* Mistake: only the token is cancelled, the intent is not stored first.   *)
CancelBeginVolatile ==
  /\ ~canceller
  /\ status \in Open \/ (status = "Closing" /\ closing = "Cancelled")
  /\ canceller' = TRUE
  /\ UNCHANGED <<store, woken, tasks, exec, starter, env>>

(* SessionScheduler::cancel: first the durable intent ...                  *)
CancelBegin ==
  /\ ~canceller
  /\ status \in Open \/ (status = "Closing" /\ closing = "Cancelled")
  /\ BeginClosing("Cancelled")
  /\ canceller' = TRUE
  /\ Publish
  /\ UNCHANGED <<tasks, exec, starter, env>>

(* ... then the token, if the Session is scheduled in this process.        *)
CancelSignal ==
  /\ canceller
  /\ canceller' = FALSE
  /\ token' = (token \/ run # "None")
  /\ UNCHANGED <<store, run, wf, actions, exec, woken, starter, env>>

(* Mistake: an answered question also resumes a Paused Session.            *)
AnswerResumes(e) ==
  /\ request[e] = "Open"
  /\ request' = [request EXCEPT ![e] = "Answered"]
  /\ LET remaining == \E d \in Effects \ {e} : request[d] = "Open" IN
       /\ attention' = remaining
       /\ status' = IF ~remaining /\ status \in {"WaitingForInput", "Paused"}
                      THEN "Running" ELSE status
  /\ Publish
  /\ UNCHANGED <<closing, journal, tasks, exec, api, env>>

(* Mistake: the other open questions are forgotten.                        *)
AnswerIsLast(e) ==
  /\ request[e] = "Open"
  /\ request'   = [request EXCEPT ![e] = "Answered"]
  /\ attention' = FALSE
  /\ status'    = IF status = "WaitingForInput" THEN "Running" ELSE status
  /\ Publish
  /\ UNCHANGED <<closing, journal, tasks, exec, api, env>>

(* answer_human_request                                                    *)
Answer(e) ==
  /\ request[e] = "Open"
  /\ request' = [request EXCEPT ![e] = "Answered"]
  /\ LET remaining == \E d \in Effects \ {e} : request[d] = "Open" IN
       /\ attention' = remaining
       /\ status' = IF ~remaining /\ status = "WaitingForInput"
                      THEN "Running" ELSE status
  /\ Publish
  /\ UNCHANGED <<closing, journal, tasks, exec, api, env>>
-----------------------------------------------------------------------------
(* run_scheduled                                                           *)

(* A Session found Closing only needs its Actions to stop; any other one   *)
(* gets both tasks.                                                        *)
RunEntry ==
  /\ run = "entry"
  /\ actions' = "live"
  /\ IF status = "Closing"
       THEN run' = "closing" /\ UNCHANGED wf
       ELSE run' = "tasks"   /\ wf' = "get"
  /\ UNCHANGED <<store, token, exec, woken, api, env>>

(* ActionRunner::run_session returns once the Session closes or the run is *)
(* cancelled, after joining its Actions.                                   *)
ActionsStop ==
  /\ actions = "live"
  /\ status \notin Open \/ token
  /\ actions' = "done"
  /\ UNCHANGED <<store, run, token, wf, exec, woken, api, env>>

(* It also returns on the first error of an Action that is not Cancelled.  *)
ActionsFail ==
  /\ actions = "live"
  /\ Spend("fault")
  /\ actions' = "failed"
  /\ UNCHANGED <<store, run, token, wf, exec, woken, api, due>>

(* Both tasks returned, or the only one of a Closing Session did.          *)
RunJoin ==
  /\ actions = "done"
  /\ \/ run = "tasks" /\ wf = "done"
     \/ run = "closing"
  /\ run' = "finish"
  /\ UNCHANGED <<store, token, wf, actions, exec, woken, api, env>>

(* The error of the ActionRunner ends the run at once if it is awaited for *)
(* after the Workflow returned; if it is seen first, the Workflow is       *)
(* cancelled and awaited.                                                  *)
RunActionError ==
  /\ actions = "failed"
  /\ \/ run = "closing" /\ run' = "release"
     \/ run = "tasks" /\ wf = "done" /\ run' = "release"
     \/ run = "tasks" /\ run' = "actionError"
  /\ UNCHANGED <<store, token, wf, actions, exec, woken, api, env>>

RunFailActions ==
  /\ run = "actionError"
  /\ wf  = "done"
  /\ BeginClosing("Failed")
  /\ run' = "release"
  /\ Publish
  /\ UNCHANGED <<token, wf, actions, exec, api, env>>

(* finish_closing                                                          *)
RunFinish ==
  /\ run = "finish"
  /\ FinishClosing
  /\ run' = "release"
  /\ Publish
  /\ UNCHANGED <<token, wf, actions, exec, api, env>>

(* The outcome is returned and the handle removed.                         *)
RunRelease ==
  /\ run = "release"
  /\ run'     = "None"
  /\ token'   = FALSE
  /\ wf'      = "off"
  /\ actions' = "off"
  /\ UNCHANGED <<store, exec, woken, api, env>>
-----------------------------------------------------------------------------
(* run_workflow                                                            *)

(* Its token is a child of the run's; the error branch cancels it alone.   *)
Cancelled == token \/ run = "actionError"

WorkflowGet ==
  /\ wf = "get"
  /\ wf' = CASE status \in Terminal               -> "done"
             [] status \in {"Created", "Running"} -> "admit"
             [] OTHER                             -> "wait"
  /\ woken' = FALSE
  /\ UNCHANGED <<store, run, token, actions, exec, api, env>>

(* With an execution permit the status is read again.                      *)
WorkflowAdmit ==
  /\ wf = "admit"
  /\ \/ Cancelled /\ wf' = "done"
     \/ wf' = CASE status = "Created" -> "start"
                [] status = "Running" -> "exec"
                [] OTHER              -> "get"
  /\ UNCHANGED <<store, run, token, actions, exec, woken, api, env>>

WorkflowStart ==
  /\ wf = "start"
  /\ IF CanTransition(StartFrom, "Running")
       THEN TransitionSession(StartFrom, "Running") /\ wf' = "exec"
       ELSE UNCHANGED store /\ wf' = "done"
  /\ UNCHANGED <<run, token, actions, exec, woken, api, env>>

(* add_session_usage, after which the permit is dropped                    *)
WorkflowCharge ==
  /\ wf  = "charge"
  /\ wf' = "decide"
  /\ UNCHANGED <<store, run, token, actions, exec, woken, api, env>>

(* What to do with the execution's result, by the status read after it.    *)
WorkflowDecide ==
  /\ wf = "decide"
  /\ \/ /\ Cancelled
        /\ IF status \in Open
             THEN wf' = "close" /\ result' = "Cancelled"
             ELSE wf' = "done"  /\ result' = "None"
        /\ UNCHANGED hint
     \/ /\ ~Cancelled
        /\ IF status \in Terminal
             THEN wf' = "get" /\ result' = "None" /\ UNCHANGED hint
             ELSE \/ /\ result \in {"Completed", "Failed"}
                     /\ wf' = "close"
                     /\ UNCHANGED <<result, hint>>
                  \/ /\ result \in Waiting \cup {"Paused"}
                     /\ IF status = result
                          THEN wf' = "get" /\ result' = "None" /\ UNCHANGED hint
                          ELSE wf' = "suspend" /\ UNCHANGED <<result, hint>>
  /\ UNCHANGED <<store, run, token, actions, branch, woken, api, env>>

(* wait_session_for_input or wait_session_for_deadline; a suspension that  *)
(* says Paused has no such call. An error ends run_workflow.               *)
WorkflowSuspend ==
  /\ wf = "suspend"
  /\ IF result \in Waiting /\ CanTransition({"Running"}, result)
       THEN TransitionSession({"Running"}, result) /\ wf' = "get"
       ELSE UNCHANGED store /\ wf' = "done"
  /\ result' = "None"
  /\ UNCHANGED <<run, token, actions, branch, hint, woken, api, env>>

(* begin_session_closing with the chosen outcome; Ok or not, it returns.   *)
WorkflowClose ==
  /\ wf = "close"
  /\ BeginClosing(result)
  /\ wf'     = "done"
  /\ result' = "None"
  /\ UNCHANGED <<run, token, actions, branch, hint, woken, api, env>>
-----------------------------------------------------------------------------
(* wait_until_runnable                                                     *)

(* It returns to run_workflow's loop, or with an error that ends it.       *)
LeaveWait(next) ==
  /\ wf'    = next
  /\ hint'  = {}
  /\ woken' = FALSE

WaitRead ==
  /\ wf = "wait"
  /\ IF Cancelled \/ status \notin Open
       THEN LeaveWait("done")
       ELSE CASE status \in {"Created", "Running"} -> LeaveWait("get")
              [] status = "Paused"          -> wf' = "sleep"    /\ UNCHANGED <<hint, woken>>
              [] status = "WaitingForInput" -> wf' = "requests" /\ UNCHANGED <<hint, woken>>
              [] OTHER ->
                   IF hint = {}
                     THEN LeaveWait("done")
                     ELSE /\ wf' = IF \E e \in hint : due[e] THEN "wake" ELSE "sleepDeadline"
                          /\ UNCHANGED <<hint, woken>>
  /\ UNCHANGED <<store, run, token, actions, branch, result, api, env>>

(* Mistake: only an event, never the requests themselves, ends the wait.   *)
WaitRequestsForEvent ==
  /\ wf = "requests"
  /\ wf' = "sleep"
  /\ UNCHANGED <<store, run, token, actions, exec, woken, api, env>>

WaitRequests ==
  /\ wf = "requests"
  /\ wf' = IF \E e \in Effects : request[e] = "Open" THEN "sleep" ELSE "wake"
  /\ UNCHANGED <<store, run, token, actions, exec, woken, api, env>>

(* select!: the token, an event, or the deadline.                          *)
WaitSelect ==
  /\ wf \in {"sleep", "sleepDeadline"}
  /\ \/ Cancelled /\ LeaveWait("done")
     \/ woken /\ wf' = "wait" /\ woken' = FALSE /\ UNCHANGED hint
     \/ /\ wf = "sleepDeadline"
        /\ \E e \in hint : due[e]
        /\ wf' = "wake"
        /\ UNCHANGED <<hint, woken>>
  /\ UNCHANGED <<store, run, token, actions, branch, result, api, env>>

(* resume_session, decided on by an earlier read                           *)
WaitWake ==
  /\ wf = "wake"
  /\ IF CanTransition(ResumeFrom, "Running")
       THEN TransitionSession(ResumeFrom, "Running") /\ LeaveWait("get")
       ELSE UNCHANGED store /\ LeaveWait("done")
  /\ UNCHANGED <<run, token, actions, branch, result, api, env>>
-----------------------------------------------------------------------------
(* SessionEffectContext::handle, the durable effects of one execution.     *)

Suspension == {"WaitingForInput", "WaitingForDeadline", "Paused"}
InFlight   == {"begun", "ready", "returning", "erring"}

Reached(e) == branch[e] = "idle" /\ \A d \in Needs[e] : branch[d] = "done"

Goto(e, place) == branch' = [branch EXCEPT ![e] = place]

(* begin_session_effect replays what the journal has, or starts it.        *)
EffectBegin(e) ==
  /\ wf = "exec"
  /\ Reached(e)
  /\ \/ Cancelled /\ Goto(e, "aborted") /\ UNCHANGED journal
     \/ CASE journal[e] = "Completed" -> Goto(e, "done")    /\ UNCHANGED journal
          [] journal[e] = "Failed"    -> Goto(e, "failed")  /\ UNCHANGED journal
          [] journal[e] = "Started"   -> Goto(e, "begun")   /\ UNCHANGED journal
          [] OTHER -> IF status \in Terminal
                        THEN Goto(e, "failed") /\ UNCHANGED journal
                        ELSE Goto(e, "begun")  /\ journal' = [journal EXCEPT ![e] = "Started"]
  /\ UNCHANGED <<status, closing, attention, request, tasks, result, hint, woken, api, env>>

(* checkpoint; `wait` makes it a second time before it reads the clock.    *)
Checkpoint(e, pass) ==
  CASE Cancelled \/ status \notin Open -> Goto(e, "aborted")
    [] status \in Suspension           -> Goto(e, status)
    [] OTHER                           -> Goto(e, pass)

EffectCheckpoint(e) ==
  /\ wf = "exec"
  /\ branch[e] = "begun"
  /\ Checkpoint(e, "ready")
  /\ UNCHANGED <<store, tasks, result, hint, woken, api, env>>

(* dispatch of an effect that does not suspend (create_agent, Artifact     *)
(* publication, invoke_action, ...): it returns, fails or is cancelled.    *)
DispatchCall(e) ==
  /\ wf = "exec"
  /\ Kind[e] = "call"
  /\ branch[e] = "ready"
  /\ \/ Goto(e, "returning")
     \/ Goto(e, "erring")
     \/ Cancelled /\ Goto(e, "aborted")
  /\ UNCHANGED <<store, tasks, result, hint, woken, api, env>>

(* Mistake: a replayed wait is taken to have fired.                        *)
DispatchWaitReplayed(e) ==
  /\ wf = "exec"
  /\ Kind[e] = "wait"
  /\ branch[e] = "ready"
  /\ Checkpoint(e, "returning")
  /\ UNCHANGED <<store, tasks, result, hint, woken, api, env>>

(* wait: its deadline counts from the journaled started_at.                *)
DispatchWait(e) ==
  /\ wf = "exec"
  /\ Kind[e] = "wait"
  /\ branch[e] = "ready"
  /\ Checkpoint(e, IF due[e] THEN "returning" ELSE "WaitingForDeadline")
  /\ UNCHANGED <<store, tasks, result, hint, woken, api, env>>

(* ask_human: create_human_request_with_id unless the request exists, then *)
(* human_answer_or_suspend, in one Store call.                             *)
DispatchAsk(e) ==
  /\ wf = "exec"
  /\ Kind[e] = "ask"
  /\ branch[e] = "ready"
  /\ \/ /\ request[e] = "None"
        /\ status \in {"Running", "Paused"}
        /\ request'   = [request EXCEPT ![e] = "Open"]
        /\ attention' = TRUE
        /\ status'    = IF status = "Paused" THEN "Paused" ELSE "WaitingForInput"
        /\ Goto(e, "WaitingForInput")
     \/ /\ request[e] = "None"
        /\ status \notin {"Running", "Paused"}
        /\ Goto(e, "erring")
        /\ UNCHANGED <<status, request, attention>>
     \/ /\ request[e] # "None"
        /\ Goto(e, CASE request[e] = "Open"     -> "WaitingForInput"
                     [] request[e] = "Answered" -> "returning"
                     [] OTHER                   -> "aborted")
        /\ UNCHANGED <<status, request, attention>>
  /\ UNCHANGED <<closing, journal, tasks, result, hint, woken, api, env>>

(* finish_session_effect                                                   *)
EffectFinish(e) ==
  /\ wf = "exec"
  /\ branch[e] \in {"returning", "erring"}
  /\ journal[e] = "Started"
  /\ LET ok == branch[e] = "returning" IN
       /\ journal' = [journal EXCEPT ![e] = IF ok THEN "Completed" ELSE "Failed"]
       /\ Goto(e, IF ok THEN "done" ELSE "failed")
  /\ UNCHANGED <<status, closing, attention, request, tasks, result, hint, woken, api, env>>
-----------------------------------------------------------------------------
(* WorkflowInterpreter::execute returns.                                   *)

Return(value) ==
  /\ wf = "exec"
  /\ wf'     = "charge"
  /\ result' = value
  /\ branch' = [e \in Effects |-> "idle"]
  /\ UNCHANGED <<store, run, token, actions, woken, api, env>>

(* The first branch that fails drops its siblings wherever they are.       *)
ExecuteFail ==
  /\ \E e \in Effects : branch[e] \in {"failed", "aborted"}
  /\ Return("Failed")
  /\ UNCHANGED hint

(* Mistake: a branch that suspended counts as settled.                     *)
ExecuteCompleteSettled ==
  /\ \A e \in Effects : /\ branch[e] \notin InFlight \cup {"failed", "aborted"}
                        /\ ~Reached(e)
  /\ Return("Completed")
  /\ UNCHANGED hint

ExecuteComplete ==
  /\ \A e \in Effects : branch[e] = "done"
  /\ Return("Completed")
  /\ UNCHANGED hint

(* Mistake: the wake time is not part of the suspension.                   *)
ExecuteSuspendUntimed ==
  /\ \E e \in Effects : branch[e] \in Suspension
  /\ \A e \in Effects : /\ branch[e] \notin InFlight \cup {"failed", "aborted"}
                        /\ ~Reached(e)
  /\ Return(IF \E e \in Effects : branch[e] = "WaitingForInput"
              THEN "WaitingForInput" ELSE "WaitingForDeadline")
  /\ hint' = {}

(* aggregate_suspension, once no branch can go on.                         *)
ExecuteSuspend ==
  /\ \E e \in Effects : branch[e] \in Suspension
  /\ \A e \in Effects : /\ branch[e] \notin InFlight \cup {"failed", "aborted"}
                        /\ ~Reached(e)
  /\ Return(CASE status = "Paused" -> "Paused"
              [] status # "Paused" /\ \E e \in Effects : branch[e] = "WaitingForInput"
                                   -> "WaitingForInput"
              [] OTHER             -> "WaitingForDeadline")
  /\ hint' = {e \in Effects : branch[e] = "WaitingForDeadline"}
-----------------------------------------------------------------------------
(* The clock passes the deadline of a wait whose start is journaled.       *)
Elapse(e) ==
  /\ Kind[e] = "wait"
  /\ journal[e] = "Started"
  /\ ~due[e]
  /\ due' = [due EXCEPT ![e] = TRUE]
  /\ UNCHANGED <<store, tasks, exec, woken, api, spent>>

(* Mistake: a Session that was Closing is not recovered.                   *)
CrashRecoverOpen ==
  /\ Spend("crash")
  /\ run'       = "None"
  /\ token'     = FALSE
  /\ wf'        = "off"
  /\ actions'   = "off"
  /\ branch'    = [e \in Effects |-> "idle"]
  /\ result'    = "None"
  /\ hint'      = {}
  /\ woken'     = FALSE
  /\ starter'   = IF status \in Open THEN "check" ELSE "None"
  /\ canceller' = FALSE
  /\ UNCHANGED <<store, due>>

(* The process dies; the next one opens the Store and recovers every       *)
(* Session that is not terminal.                                           *)
CrashRecover ==
  /\ Spend("crash")
  /\ run'       = "None"
  /\ token'     = FALSE
  /\ wf'        = "off"
  /\ actions'   = "off"
  /\ branch'    = [e \in Effects |-> "idle"]
  /\ result'    = "None"
  /\ hint'      = {}
  /\ woken'     = FALSE
  /\ starter'   = IF status \in Terminal THEN "None" ELSE "check"
  /\ canceller' = FALSE
  /\ UNCHANGED <<store, due>>
-----------------------------------------------------------------------------
Scheduler ==
  \/ StartCheck \/ StartInsert \/ CancelSignal
  \/ RunEntry \/ ActionsStop \/ RunJoin \/ RunActionError \/ RunFailActions
  \/ RunFinish \/ RunRelease

Workflow ==
  \/ WorkflowGet \/ WorkflowAdmit \/ WorkflowStart \/ WorkflowCharge
  \/ WorkflowDecide \/ WorkflowSuspend \/ WorkflowClose
  \/ WaitRead \/ WaitRequests \/ WaitSelect \/ WaitWake

Execution ==
  \/ \E e \in Effects :
       \/ EffectBegin(e) \/ EffectCheckpoint(e) \/ EffectFinish(e)
       \/ DispatchCall(e) \/ DispatchWait(e) \/ DispatchAsk(e)
  \/ ExecuteFail \/ ExecuteComplete \/ ExecuteSuspend

User == Pause \/ Resume \/ CancelBegin

Next ==
  \/ Scheduler \/ Workflow \/ Execution \/ User
  \/ \E e \in Effects : Answer(e) \/ Elapse(e)
  \/ ActionsFail \/ CrashRecover

Spec == Init /\ [][Next]_vars

(* Tokio polls every task that can run and the Store thread serves every   *)
(* call it was sent, so each task takes its next step; clocks go on and    *)
(* people answer. Nobody has to pause, resume or cancel, and nothing has   *)
(* to fail.                                                                *)
Fairness ==
  /\ WF_vars(StartCheck) /\ WF_vars(StartInsert) /\ WF_vars(CancelSignal)
  /\ WF_vars(RunEntry) /\ WF_vars(ActionsStop) /\ WF_vars(RunJoin)
  /\ WF_vars(RunActionError) /\ WF_vars(RunFailActions)
  /\ WF_vars(RunFinish) /\ WF_vars(RunRelease)
  /\ WF_vars(Workflow) /\ WF_vars(Execution)
  /\ \A e \in Effects : WF_vars(Answer(e)) /\ WF_vars(Elapse(e))

FairSpec == Spec /\ Fairness
-----------------------------------------------------------------------------
(* Properties                                                              *)

Working == wf \in {"exec", "charge"}

OpenRequest == \E e \in Effects : request[e] = "Open"

(* finish_session_closing runs only after run_scheduled has joined the     *)
(* Workflow: no execution, and no usage still to be recorded, outlives the *)
(* Session, whichever of cancel, completion and failure closed it.         *)
TerminalIsQuiet == status \in Terminal => ~Working

(* terminalize_session_resources_tx leaves nobody an open question of a    *)
(* Session that is over, and none is asked afterwards.                     *)
TerminalResolvesRequests == status \in Terminal => ~OpenRequest

(* attention_required is kept by three different Store operations; until   *)
(* the Session closes it says exactly that a question is open, through any *)
(* pause, resume, restart or replay.                                       *)
AttentionTracksRequests == status \in Open => (attention <=> OpenRequest)

(* A Session completes with an output only when every durable effect of    *)
(* its Workflow completed, however often it was suspended or restarted.    *)
CompletedMeansAllDone ==
  status = "Completed" \/ closing = "Completed"
    => \A e \in Effects : journal[e] = "Completed"

(* A replayed ask_human or wait is never journaled as completed before its *)
(* answer was given or its deadline passed.                                *)
SuspendingEffectsWereDue ==
  \A e \in Effects : journal[e] = "Completed" =>
    /\ Kind[e] = "ask"  => request[e] = "Answered"
    /\ Kind[e] = "wait" => due[e]

(* wait_until_runnable subscribes before it reads, so it never sleeps      *)
(* through the change that made its Session runnable or Closing.           *)
NoLostWakeup ==
  ~woken =>
    /\ wf = "sleep"         => status = "Paused" \/ (status = "WaitingForInput" /\ OpenRequest)
    /\ wf = "sleepDeadline" => status = "WaitingForDeadline"

(* A user's pause ends by a user's resume or by closing. The one exception *)
(* is wait_until_runnable's resume_session, decided on before the pause.   *)
PauseEndsDeliberately ==
  [][status = "Paused" /\ status' # "Paused" =>
       \/ status' = "Closing"
       \/ status' = "Running" /\ starter = "None" /\ starter' = "check"
       \/ status' = "Running" /\ wf = "wake"]_vars

(* cancel stores its intent before any task sees the token, so a restart   *)
(* cannot lose it: run_workflow's own `cancelled by user` outcome is only  *)
(* ever stored for a Workflow cancelled because the ActionRunner failed.   *)
CancelledOnRequest ==
  [][closing # "Cancelled" /\ closing' = "Cancelled"
       => canceller' \/ run = "actionError"]_vars

(* The scheduler implements the lifecycle of a Session.                    *)
Lifecycle == INSTANCE SessionLifecycle WITH
  outcome <- CASE status = "Closing"   -> closing
               [] status \in Terminal  -> status
               [] OTHER                -> "None",
  working <- Working

ImplementsLifecycle == Lifecycle!Spec

(* If no Action fails the run, a Session that is Closing reaches its       *)
(* terminal status, across restarts.                                       *)
ClosingFinishes == Lifecycle!ClosingFinishes

(* Once its last question is answered, a Session does not go on waiting.   *)
AnswersAreNoticed ==
  (status = "WaitingForInput" /\ ~OpenRequest) ~> (status # "WaitingForInput")

(* Left alone, a Workflow that waits and asks, suspending and replaying    *)
(* each time, reaches a terminal status; so it does when it is cancelled.  *)
SessionsEnd == <>(status \in Terminal \/ spent["pause"] + spent["crash"] > 0)

(* "Restarts every non-terminal Session" (scheduler.rs, recover): a        *)
(* deadline that has passed wakes its Session, also after a restart.       *)
DeadlinesWake ==
  (status = "WaitingForDeadline" /\ \E e \in Effects : journal[e] = "Started" /\ due[e])
    ~> (status # "WaitingForDeadline")

=============================================================================
