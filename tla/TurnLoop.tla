------------------------------ MODULE TurnLoop ------------------------------
(***************************************************************************)
(* One Agent's Turns from create_turn_for_attempt to their end:            *)
(* run_scheduled_turn_inner and TurnEventSink (crates/session/src/lib.rs)  *)
(* around AgentRuntime::run (crates/agent/src/lib.rs).                     *)
(*                                                                         *)
(* The task works on a history in memory, saves it as records of the       *)
(* rollout (AgentRollout) and mirrors its calls as Step rows. A crash may  *)
(* come between any two Store calls and inside a commit; the Turn is then  *)
(* taken up again from the file. Tools run outside the Store and finish in *)
(* any order. Pausing and closing a Session are in ActionRunner.           *)
(***************************************************************************)
EXTENDS AgentRollout, FiniteSets

CONSTANTS
  Calls,      (* the tool calls a provider may make, each under its own id  *)
  Responses,  (* the sets of calls a response may carry                     *)
  Parallel,   (* calls of tools that supports_parallel                      *)
  Size(_),    (* estimate_input_item_tokens of an item                      *)
  Budget,     (* history_token_budget                                       *)
  CompactAt,  (* AUTO_COMPACT_PERCENT of it                                 *)
  PromptSize, (* tokens of COMPACTION_PROMPT                                *)
  KeepTokens, (* what compaction keeps of user messages: a third of Budget, *)
              (* COMPACT_USER_MESSAGE_MAX_TOKENS at most                    *)
  Moments,    (* bounds TLC's exploration: where the task is when an input  *)
              (* or a cancellation comes; it notices either at Top or while *)
              (* it samples                                                 *)
  MaxSteps    (* bounds TLC's exploration: model steps of a Turn            *)

ASSUME TurnAssumption ==
  /\ "compaction" \notin Calls
  /\ Responses \subseteq (SUBSET Calls) \ {{}}
  /\ \A S \in Responses : IsFiniteSet(S)
  /\ Parallel \subseteq Calls
  /\ {Budget, CompactAt, PromptSize, KeepTokens} \subseteq Nat
  /\ Moments \subseteq STRING
  /\ MaxSteps \in Nat

VARIABLES
  pc,         (* where the Agent's task is; "off" when it has none          *)
  task,       (* its memory                                                 *)
  tool,       (* tool[c]: the call in the task's FuturesUnordered           *)
  cancelled,  (* the Turn's CancellationToken                               *)
  steps,      (* steps[t][n]: Step rows of calls and of the compaction      *)
  ended,      (* Turns whose Action has ended                               *)
  ran,        (* ran[c]: how often the tool of c was started                *)
  produced,   (* calls whose tool returned                                  *)
  spent       (* tokens the provider has charged, one a sample              *)

volatile == <<pc, task, tool, cancelled>>
history == task.history
vars == <<rolloutVars, volatile, steps, ended, ran, produced, spent>>
-----------------------------------------------------------------------------
StepNames == Calls \cup {"compaction"}
OpenStep  == "running"

NoTask ==
  [turn |-> 0, resumed |-> FALSE, history |-> <<>>, context |-> <<>>,
   reason |-> "none", known |-> {}, step |-> 0, last |-> FALSE,
   final |-> FALSE, acks |-> {}, retry |-> 0, wasted |-> 0, total |-> 0,
   compacting |-> FALSE, verdict |-> "none"]

NoTools == [c \in Calls |-> "none"]

(* ModelInputItem                                                          *)
Ask(t)     == <<"ask", t>>
Said(i)    == <<Kind[i], i>>
Call(c)    == <<"call", c>>
Out(c)     == <<"out", c>>
Aborted(c) == <<"aborted", c>>
Answer(t)  == <<"answer", t>>
Summary    == <<"summary", 0>>
FinishNow  == <<"final", 0>>

UserItems == {"ask", "message", "finish", "summary", "final"}

Of(kinds, items) ==
  {c \in Calls : \E k \in kinds, n \in DOMAIN items : items[n] = <<k, c>>}
CallsIn(items) == Of({"call"}, items)
Answered(items) == Of({"out", "aborted"}, items)
Unanswered(items) == CallsIn(items) \ Answered(items)

(* F over the numbers in S, from the smallest on                           *)
Nth(S, n) == CHOOSE i \in S : Cardinality({j \in S : j <= i}) = n
InOrder(F(_), S) == [n \in 1..Cardinality(S) |-> F(Nth(S, n))]
Each(F(_), S) == LET s == SetToSeq(S) IN [n \in DOMAIN s |-> F(s[n])]

Tokens(items) ==
  LET Add(sum, item) == sum + Size(item) IN Replay(Add, 0, items)

(* trim_history: the first item and as many of the last ones as fit, less  *)
(* the outputs these would begin with. The last item stays if it fits or   *)
(* not, and two items are never trimmed.                                   *)
Trim(items, tokens) ==
  LET first == SubSeq(items, 1, 1)
      From(n) == SubSeq(items, n, Len(items))
      fits  == {n \in 2..Len(items) : Tokens(first \o From(n)) <= tokens} \cup {Len(items)}
      whole == {n \in Min(fits)..Len(items) : items[n][1] \notin {"out", "aborted"}}
  IN IF Tokens(items) <= tokens \/ Len(items) <= 2 THEN items
     ELSE first \o From(Min(whole \cup {Len(items) + 1}))

(* build_compacted_history: of the user messages the newest that fits and, *)
(* before it, as many as fit with it; then the summary                     *)
Compacted(items) ==
  LET asks   == {n \in DOMAIN items : items[n][1] \in UserItems}
      fitting == {n \in asks : Size(items[n]) <= KeepTokens}
      Item(n) == items[n]
      Since(n) == {m \in asks : n <= m /\ \E k \in fitting : m <= k}
      newest == {n \in asks : /\ \E k \in fitting : n <= k
                              /\ Tokens(InOrder(Item, Since(n))) <= KeepTokens}
  IN Append(InOrder(Item, newest), Summary)

Turn == task.turn

(* What the records say of calls                                           *)
Saved(S) ==
  UNION {Range(r.items) : r \in {x \in Range(Records) : x.kind = "checkpoint" /\ x.turn \in S}}
RecordedBy(t) ==
  {c \in Calls : \E r \in Range(Records) :
     r.kind = "checkpoint" /\ r.turn = t /\ ~r.replace /\ Call(c) \in Range(r.items)}
Recorded == LET saved == Saved(Turns) IN {c \in Calls : Call(c) \in saved}
-----------------------------------------------------------------------------
Init ==
  /\ RolloutInit
  /\ pc = "off" /\ task = NoTask /\ tool = NoTools /\ cancelled = FALSE
  /\ steps = [t \in Turns |-> [n \in StepNames |-> "none"]]
  /\ ended = {}
  /\ ran = [c \in Calls |-> 0]
  /\ produced = {}
  /\ spent = 0

At(label) == pc = label /\ StoreIdle

(* The event sink's HistoryCheckpoint, and what the task makes of it.      *)
Save(items, total, step, last, acks) ==
  LET appended == IsPrefix(task.context, items)
      new == IF appended THEN SubSeq(items, Len(task.context) + 1, Len(items)) ELSE items
  IN /\ Commit(Checkpoint(Turn, ~appended, new, step, total, last, acks))
     /\ task' = [task EXCEPT !.history = items, !.context = items,
                             !.total = total, !.reason = "none", !.last = last,
                             !.acks = {}, !.retry = 0, !.wasted = 0]

(* AgentRuntime::run returns an error                                      *)
Leave(verdict) ==
  /\ pc' = "ending"
  /\ task' = [task EXCEPT !.verdict = verdict]

-----------------------------------------------------------------------------
(* Beginning a Turn                                                        *)

(* create_turn_for_attempt, for the Agent's next Action                    *)
Attach(t) ==
  /\ At("off")
  /\ rows.status[t] = "none" /\ t \notin ended
  /\ \A u \in Turns : u < t => u \in ended
  /\ \A u \in Turns : rows.status[u] \notin OpenTurn
  /\ Commit(Created(t))
  /\ pc' = "start"
  /\ task' = [NoTask EXCEPT !.turn = t]
  /\ UNCHANGED <<tool, cancelled, steps, ended, ran, produced, spent>>

(* Mutant: a Turn that was never started is not found                      *)
TakeUpStarted(t) ==
  /\ At("off")
  /\ rows.status[t] = "Running" /\ t \notin ended
  /\ pc' = "start"
  /\ task' = [NoTask EXCEPT !.turn = t]
  /\ UNCHANGED <<rolloutVars, tool, cancelled, steps, ended, ran, produced, spent>>

(* prepare_turn finds the open Turn of an attempt that a crash left.       *)
TakeUp(t) ==
  /\ At("off")
  /\ rows.status[t] \in OpenTurn /\ t \notin ended
  /\ pc' = "start"
  /\ task' = [NoTask EXCEPT !.turn = t]
  /\ UNCHANGED <<rolloutVars, tool, cancelled, steps, ended, ran, produced, spent>>

(* start_turn; a Turn that is Running stays so without a record.           *)
StartTurn ==
  /\ At("start")
  /\ IF rows.status[Turn] = "Queued"
       THEN Commit(Updated(Turn, "Running", {})) /\ pc' = "load"
       ELSE /\ pc' = IF rows.status[Turn] = "Running" THEN "load" ELSE "left"
            /\ UNCHANGED rolloutVars
  /\ UNCHANGED <<task, tool, cancelled, steps, ended, ran, produced, spent>>

(* reconstruct_agent_rollout; a file that cannot be read, or that says the *)
(* Turn is over, leaves it Running.                                        *)
Load ==
  /\ At("load")
  /\ IF damaged THEN UNCHANGED rolloutVars ELSE Scan
  /\ LET read == Canonical'
     IN IF damaged \/ read.turn # Turn
          THEN pc' = "left" /\ UNCHANGED task
          ELSE /\ pc' = IF read.begun THEN "reconcile" ELSE "begin"
               /\ task' = [task EXCEPT
                    !.resumed = read.begun, !.history = read.context,
                    !.context = read.context, !.step = read.steps,
                    !.total = read.used, !.last = read.last]
  /\ UNCHANGED <<tool, cancelled, steps, ended, ran, produced, spent>>

(* reconcile_step_projections: the Turn's Running Steps end as the context *)
(* says, and every call of the context has a Step.                         *)
Canonically(n) ==
  CASE n \in Of({"aborted"}, history) -> "aborted"
    [] n \in Of({"out"}, history) -> "completed"
    [] OTHER -> "aborted"

(* Mutant: calls without a Step are passed over                            *)
ReconcileOpen ==
  /\ At("reconcile")
  /\ LET open == {n \in StepNames : steps[Turn][n] = OpenStep}
     IN \/ \E n \in open : /\ steps' = [steps EXCEPT ![Turn][n] = Canonically(n)]
                           /\ pc' = pc
        \/ open = {} /\ pc' = "repair" /\ UNCHANGED steps
  /\ UNCHANGED <<rolloutVars, task, tool, cancelled, ended, ran, produced, spent>>

Reconcile ==
  /\ At("reconcile")
  /\ LET open    == {n \in StepNames : steps[Turn][n] = OpenStep}
         missing == {c \in CallsIn(history) : steps[Turn][c] = "none"}
     IN \/ \E n \in open : /\ steps' = [steps EXCEPT ![Turn][n] = Canonically(n)]
                           /\ pc' = pc
        \/ /\ open = {}
           /\ \E c \in missing : steps' = [steps EXCEPT ![Turn][c] = OpenStep]
           /\ pc' = pc
        \/ /\ open \cup missing = {}
           /\ pc' = "repair"
           /\ UNCHANGED steps
  /\ UNCHANGED <<rolloutVars, task, tool, cancelled, ended, ran, produced, spent>>

(* Mutant: a resumed context is used as it is                              *)
RepairNothing ==
  /\ At("repair")
  /\ pc' = "begin"
  /\ UNCHANGED <<rolloutVars, task, tool, cancelled, steps, ended, ran, produced, spent>>

(* repair_interrupted_tool_calls                                           *)
Repair ==
  /\ At("repair")
  /\ pc' = "begin"
  /\ IF Unanswered(history) = {}
       THEN UNCHANGED <<rolloutVars, task>>
       ELSE Save(history \o Each(Aborted, Unanswered(history)),
                 task.total, task.step, task.last, {})
  /\ UNCHANGED <<tool, cancelled, steps, ended, ran, produced, spent>>

(* AgentRuntime::run up to its loop                                        *)
Begin ==
  /\ At("begin")
  /\ IF task.last
       THEN pc' = "complete" /\ UNCHANGED task
       ELSE /\ pc' = "top"
            /\ LET items == IF task.resumed THEN history ELSE Append(history, Ask(Turn))
               IN task' = [task EXCEPT
                    !.history = items, !.step = @ + 1,
                    !.known = CallsIn(items) \cup Answered(items)]
  /\ UNCHANGED <<rolloutVars, tool, cancelled, steps, ended, ran, produced, spent>>

(* Its working directory is gone, or its instructions and tools alone fill *)
(* the context window.                                                     *)
BeginFails ==
  /\ At("begin")
  /\ Leave("Failed")
  /\ UNCHANGED <<rolloutVars, tool, cancelled, steps, ended, ran, produced, spent>>
-----------------------------------------------------------------------------
(* The loop: claim the Agent's inputs, make the window fit, save, sample   *)

Top ==
  /\ At("top")
  /\ IF cancelled
       THEN Leave("Cancelled") /\ UNCHANGED rolloutVars
       ELSE /\ ClaimInputs(Turn)
            /\ LET got  == Claimable(Turn)
                   some(kind) == {i \in got : Kind[i] = kind}
               IN IF some("interrupt") # {}
                    THEN /\ pc' = "ending"
                         /\ task' = [task EXCEPT !.verdict = "Interrupted", !.acks = got]
                    ELSE /\ pc' = "window"
                         /\ task' = [task EXCEPT
                              !.acks = got,
                              !.final = @ \/ some("finish") # {},
                              !.history = @ \o (IF some("finish") = {} THEN <<>>
                                                ELSE <<Said(Max(some("finish")))>>)
                                            \o InOrder(Said, some("message"))]
  /\ UNCHANGED <<tool, cancelled, steps, ended, ran, produced, spent>>

(* ContextCompactionStarted, when the history has reached the trigger      *)
Crowded == Tokens(history) >= CompactAt /\ Len(history) > 2

CompactStart ==
  /\ At("window") /\ Crowded
  /\ steps' = [steps EXCEPT ![Turn]["compaction"] = OpenStep]
  /\ task' = [task EXCEPT !.compacting = TRUE]
  /\ pc' = "compacting"
  /\ UNCHANGED <<rolloutVars, tool, cancelled, ended, ran, produced, spent>>

(* compact_history's model call is sent what fits beside its prompt; the   *)
(* summary takes the place of the whole history.                           *)
CompactionRequest == Trim(history, IF Budget > PromptSize THEN Budget - PromptSize ELSE 1)

CompactDone ==
  /\ At("compacting")
  /\ spent' = spent + 1
  /\ task' = [task EXCEPT !.history = Compacted(@), !.reason = "compaction",
                          !.total = @ + 1, !.compacting = FALSE]
  /\ steps' = [steps EXCEPT ![Turn]["compaction"] = "completed"]
  /\ pc' = "prompt"
  /\ UNCHANGED <<rolloutVars, tool, cancelled, ended, ran, produced>>

CompactFails ==
  /\ At("compacting")
  /\ Leave("Failed")
  /\ UNCHANGED <<rolloutVars, tool, cancelled, steps, ended, ran, produced, spent>>

(* The HistoryCheckpoint before a sample, of what trim_history leaves of   *)
(* the history. ContextWindowExceeded is an error, and so is, to the event *)
(* sink, a history that neither extends the saved one nor was compacted or *)
(* trimmed.                                                                *)
Prompt ==
  /\ At("prompt") \/ (At("window") /\ ~Crowded)
  /\ LET all == IF task.final /\ (history = <<>> \/ Last(history) # FinishNow)
                  THEN Append(history, FinishNow) ELSE history
         items == Trim(all, Budget)
         strays == items = all /\ task.reason = "none" /\ ~IsPrefix(task.context, items)
     IN IF Tokens(items) > Budget \/ strays
          THEN Leave("Failed") /\ UNCHANGED rolloutVars
          ELSE /\ Save(items, task.total, task.step - 1, FALSE, task.acks)
               /\ pc' = "sample"
  /\ UNCHANGED <<tool, cancelled, steps, ended, ran, produced, spent>>

(* The final message is saved with its checkpoint_message.                 *)
SampleAnswer ==
  /\ At("sample")
  /\ spent' = spent + 1
  /\ Save(Append(history, Answer(Turn)), task.total + task.wasted + 1, task.step, TRUE, {})
  /\ pc' = "complete"
  /\ UNCHANGED <<tool, cancelled, steps, ended, ran, produced>>

(* Mutant: the calls are saved with their first output                     *)
SampleCallsUnsaved(S) ==
  /\ At("sample")
  /\ ~task.final /\ S \cap task.known = {} /\ S \cap Recorded = {}
  /\ task.step < MaxSteps
  /\ spent' = spent + 1
  /\ task' = [task EXCEPT !.history = @ \o Each(Call, S), !.known = @ \cup S,
                          !.total = @ + task.wasted + 1]
  /\ pc' = "announce"
  /\ UNCHANGED <<rolloutVars, tool, cancelled, steps, ended, ran, produced>>

(* reserve_tool_call_ids, then the checkpoint that makes the calls durable *)
(* before any is dispatched. Providers give every call a new id.           *)
SampleCalls(S) ==
  /\ At("sample")
  /\ ~task.final
  /\ S \cap task.known = {}
  /\ S \cap Recorded = {}
  /\ task.step < MaxSteps
  /\ spent' = spent + 1
  /\ LET items == history \o Each(Call, S)
         total == task.total + task.wasted + 1
     IN /\ Commit(Checkpoint(Turn, FALSE, Each(Call, S), task.step, total, FALSE, {}))
        /\ task' = [task EXCEPT !.history = items, !.context = items, !.total = total,
                                !.known = @ \cup S, !.retry = 0, !.wasted = 0]
  /\ pc' = "announce"
  /\ UNCHANGED <<tool, cancelled, steps, ended, ran, produced>>

(* A call id that is in use fails the Turn; what was sampled is charged    *)
(* with the failed model Step.                                             *)
SampleDuplicate ==
  /\ At("sample")
  /\ task.known # {}
  /\ spent' = spent + 1
  /\ ChargeTokens(task.wasted + 1)
  /\ Leave("Failed")
  /\ UNCHANGED <<tool, cancelled, steps, ended, ran, produced>>

(* An empty response or an incomplete stream with its usage                *)
SampleRetry ==
  /\ At("sample")
  /\ task.retry < 2 /\ MayHappen
  /\ mishaps' = [mishaps EXCEPT !.retry = @ + 1]
  /\ spent' = spent + 1
  /\ task' = [task EXCEPT !.retry = @ + 1, !.wasted = @ + 1]
  /\ UNCHANGED <<file, trailing, damaged, rows, projected, commit, pc, tool, cancelled, steps, ended, ran, produced>>

SampleFails ==
  /\ At("sample")
  /\ ChargeTokens(task.wasted)
  /\ Leave("Failed")
  /\ UNCHANGED <<tool, cancelled, steps, ended, ran, produced, spent>>

(* Waiting for a permit, the stream or a retry, a model call ends with the *)
(* token.                                                                  *)
SampleCancelled ==
  /\ At("sample") \/ At("compacting")
  /\ cancelled
  /\ Leave("Cancelled")
  /\ UNCHANGED <<rolloutVars, tool, cancelled, steps, ended, ran, produced, spent>>
-----------------------------------------------------------------------------
(* Tools                                                                   *)

(* ToolCallStarted for every call of the response, before any is polled    *)
Announce ==
  /\ At("announce")
  /\ LET waiting == {c \in Unanswered(history) : tool[c] = "none"}
         c == SetToSeq(waiting)[1]
     IN IF waiting = {}
          THEN pc' = "tools" /\ UNCHANGED <<tool, steps>>
          ELSE /\ steps' = [steps EXCEPT ![Turn][c] = OpenStep]
               /\ tool' = [tool EXCEPT ![c] = "queued"]
               /\ pc' = pc
  /\ UNCHANGED <<rolloutVars, task, cancelled, ended, ran, produced, spent>>

(* execute_tool behind the execution gate                                  *)
Dispatch(c) ==
  /\ pc = "tools" /\ tool[c] = "queued"
  /\ \A d \in Calls : tool[d] = "running" => {c, d} \subseteq Parallel
  /\ tool' = [tool EXCEPT ![c] = "running"]
  /\ ran' = [ran EXCEPT ![c] = @ + 1]
  /\ UNCHANGED <<rolloutVars, pc, task, cancelled, steps, ended, produced, spent>>

Return(c) ==
  /\ tool[c] = "running"
  /\ tool' = [tool EXCEPT ![c] = "done"]
  /\ produced' = produced \cup {c}
  /\ UNCHANGED <<rolloutVars, pc, task, cancelled, steps, ended, ran, spent>>

(* The next future that is ready: its output is saved, then its Step.      *)
Collect(c) ==
  /\ At("tools") /\ tool[c] = "done"
  /\ \A d \in Calls : tool[d] # "saved"
  /\ Save(Append(history, Out(c)), task.total, task.step, FALSE, {})
  /\ tool' = [tool EXCEPT ![c] = "saved"]
  /\ UNCHANGED <<pc, cancelled, steps, ended, ran, produced, spent>>

FinishStep(c) ==
  /\ At("tools") /\ tool[c] = "saved"
  /\ steps' = [steps EXCEPT ![Turn][c] = "completed"]
  /\ tool' = [tool EXCEPT ![c] = "none"]
  /\ IF \A d \in Calls : tool'[d] = "none"
       THEN pc' = "top" /\ task' = [task EXCEPT !.step = @ + 1]
       ELSE UNCHANGED <<pc, task>>
  /\ UNCHANGED <<rolloutVars, cancelled, ended, ran, produced, spent>>
-----------------------------------------------------------------------------
(* Ending a Turn                                                           *)

(* complete_turn asks the file for the answer it is to store.              *)
Complete ==
  /\ At("complete")
  /\ pc' = "left"
  /\ IF ~damaged /\ Canonical.turn = Turn /\ Canonical.last /\ rows.status[Turn] = "Running"
       THEN Commit(Updated(Turn, "Completed", {}))
       ELSE UNCHANGED rolloutVars
  /\ UNCHANGED <<task, tool, cancelled, steps, ended, ran, produced, spent>>

(* finish_pending: the Steps this task opened and has not finished. The    *)
(* futures of tools still running are dropped.                             *)
FinishPending ==
  /\ At("ending")
  /\ LET status == IF task.verdict = "Failed" THEN "failed" ELSE "cancelled"
         opened == {c \in Calls : tool[c] # "none"}
                     \cup (IF task.compacting THEN {"compaction"} ELSE {})
     IN steps' = [steps EXCEPT ![Turn] =
                    [n \in StepNames |-> IF n \in opened THEN status ELSE @[n]]]
  /\ tool' = NoTools
  /\ pc' = "end"
  /\ UNCHANGED <<rolloutVars, task, cancelled, ended, ran, produced, spent>>

(* cancel_turn, interrupt_turn_with_inputs or fail_turn                    *)
EndTurn ==
  /\ At("end")
  /\ pc' = "left"
  /\ IF rows.status[Turn] \in OpenTurn
       THEN Commit(Updated(Turn, task.verdict,
                           IF task.verdict = "Interrupted" THEN task.acks ELSE {}))
       ELSE UNCHANGED rolloutVars
  /\ UNCHANGED <<task, tool, cancelled, steps, ended, ran, produced, spent>>

(* The ActionRunner finishes the Turn's Action.                            *)
TaskEnds ==
  /\ At("left")
  /\ EndAction(Turn)
  /\ ended' = ended \cup {Turn}
  /\ pc' = "off" /\ task' = NoTask /\ tool' = NoTools /\ cancelled' = FALSE
  /\ UNCHANGED <<steps, ran, produced, spent>>

(* The same for a Turn that had ended before a crash                       *)
ActionRecovers(t) ==
  /\ At("off")
  /\ rows.status[t] \in TerminalTurn /\ t \notin ended
  /\ EndAction(t)
  /\ ended' = ended \cup {t}
  /\ UNCHANGED <<volatile, steps, ran, produced, spent>>
-----------------------------------------------------------------------------
(* The Store thread, people, other Agents and faults                       *)

CommitStep ==
  /\ AppendRecord \/ ProjectRecord
  /\ UNCHANGED <<volatile, steps, ended, ran, produced, spent>>

(* A checkpoint of the loop that fails is an error of the event sink; any  *)
(* other commit leaves run_scheduled_turn_inner with ?.                    *)
CommitFails ==
  /\ AppendFails
  /\ IF pc \in {"off", "left"} THEN UNCHANGED <<pc, task>>
     ELSE IF commit.record.kind = "checkpoint" /\ pc # "begin" THEN Leave("Failed")
     ELSE pc' = "left" /\ UNCHANGED task
  /\ UNCHANGED <<tool, cancelled, steps, ended, ran, produced, spent>>

Send(i) ==
  /\ pc \in Moments /\ BoundTo[i] \notin ended
  /\ SendInput(i)
  /\ UNCHANGED <<volatile, steps, ended, ran, produced, spent>>

(* TurnRuntime::cancel cancels the token of an active Turn, else the row.  *)
Cancel ==
  /\ pc \in Moments \ {"off", "left"} /\ ~cancelled
  /\ cancelled' = TRUE
  /\ UNCHANGED <<rolloutVars, pc, task, tool, steps, ended, ran, produced, spent>>

CancelRow(t) ==
  /\ At("off") \/ At("left")
  /\ rows.status[t] \in OpenTurn
  /\ Commit(Updated(t, "Cancelled", {}))
  /\ UNCHANGED <<volatile, steps, ended, ran, produced, spent>>

Crash(survives) ==
  /\ Reopen(survives)
  /\ pc' = "off" /\ task' = NoTask /\ tool' = NoTools /\ cancelled' = FALSE
  /\ UNCHANGED <<steps, ended, ran, produced, spent>>

TaskStep ==
  \/ \E t \in Turns : Attach(t) \/ TakeUp(t) \/ ActionRecovers(t)
  \/ StartTurn \/ Load \/ Reconcile \/ Repair \/ Begin \/ BeginFails
  \/ Top \/ CompactStart \/ CompactDone \/ CompactFails \/ Prompt
  \/ SampleAnswer \/ (\E S \in Responses : SampleCalls(S))
  \/ SampleDuplicate \/ SampleRetry \/ SampleFails \/ SampleCancelled
  \/ Announce \/ (\E c \in Calls : Dispatch(c) \/ Collect(c) \/ FinishStep(c))
  \/ Complete \/ FinishPending \/ EndTurn \/ TaskEnds

Next ==
  \/ TaskStep \/ CommitStep \/ CommitFails \/ Cancel
  \/ \E c \in Calls : Return(c)
  \/ \E i \in Inputs : Send(i)
  \/ \E t \in Turns : CancelRow(t)
  \/ \E survives \in BOOLEAN : Crash(survives)

Spec == Init /\ [][Next]_vars

(* The process keeps running its task and the Store, a provider answers or *)
(* fails, and a tool returns.                                              *)
FairSpec ==
  Spec /\ WF_vars(TaskStep) /\ WF_vars(CommitStep) /\ \A c \in Calls : WF_vars(Return(c))
-----------------------------------------------------------------------------
(* Every call of items has one output, after it; no output is there twice  *)
(* or before its call.                                                     *)
Paired(items) ==
  /\ \A n \in DOMAIN items : items[n][1] = "call" =>
       Cardinality({m \in DOMAIN items :
         items[m] \in {Out(items[n][2]), Aborted(items[n][2])} /\ m > n}) = 1
  /\ \A m, n \in DOMAIN items :
       /\ items[m][1] \in {"out", "aborted"} /\ m # n
       /\ items[n] \in {Call(items[m][2]), Out(items[m][2]), Aborted(items[m][2])}
       => items[n] = Call(items[m][2]) /\ n < m

(* Outputs without their call, and those that a record which replaces a    *)
(* context has kept. A compaction keeps none: the record is a trim's.      *)
Orphans(items) == Answered(items) \ CallsIn(items)
Trimmed ==
  {c \in Calls : \E r \in Range(Records) :
     r.kind = "checkpoint" /\ r.replace /\ c \in Answered(r.items)}

(* docs/prompt-model.md:63: whatever crashed, was cancelled, compacted or  *)
(* trimmed, in what a provider is sent, and in what the next Turn begins   *)
(* with, each call has exactly one output, and that after it. An output    *)
(* has lost its call only to a trim; a request to compact, which is not    *)
(* recorded, may have been trimmed between the two.                        *)
PairedContext ==
  /\ pc = "sample" /\ commit = Idle => Paired(history) /\ Orphans(history) \subseteq Trimmed
  /\ pc = "compacting" => Paired(CompactionRequest)
  /\ Paired(Canonical.committed) /\ Orphans(Canonical.committed) \subseteq Trimmed

DurableAnswer(c) ==
  LET saved == Saved(Turns)
  IN IF Out(c) \in saved THEN "result" ELSE IF Aborted(c) \in saved THEN "aborted" ELSE "none"

(* The calls as docs/runtime-kernel.md promises them: durable before they  *)
(* are dispatched, dispatched at most once, answered at most once and only *)
(* by what the tool returned or by `aborted`.                              *)
ToolCalls ==
  INSTANCE ToolCallContract WITH durable <- Recorded, runs <- ran,
                                 answer <- [c \in Calls |-> DurableAnswer(c)]
ImplementsToolCalls == ToolCalls!Spec

(* When a Turn has completed, each call it made has a terminal Step that   *)
(* says of the call what the rollout says, wherever a crash came between   *)
(* the two. (After a failed write a Step may say "failed" of a call whose  *)
(* output a restart finds in the file.)                                    *)
StepsMirrorCalls ==
  \A t \in Turns : rows.status[t] = "Completed" /\ mishaps.fault = 0 =>
    \A c \in RecordedBy(t) :
      steps[t][c] = IF DurableAnswer(c) = "result" THEN "completed" ELSE "aborted"

(* A message or a finish enters an Agent's context once, however often its *)
(* Turn is interrupted by a crash: in the record that shows it, it is      *)
(* acknowledged. And none is held for a Turn that is over.                 *)
InputsShownOnce ==
  /\ ClaimsEndWithTheirTurn
  /\ \A i \in Inputs :
       LET shown == {n \in DOMAIN Canonical.context : Canonical.context[n] = Said(i)}
       IN /\ Cardinality(shown) <= 1
          /\ shown # {} /\ commit = Idle /\ mishaps.fault = 0
               => rows.input[i] = "applied"

(* A Session is never charged more than its providers, though checkpoints  *)
(* repeat a Turn's total and replay projects them again; and it is charged *)
(* all of it when every Turn completed without a fault.                    *)
TokensAreCounted ==
  /\ rows.tokens <= spent
  /\ /\ mishaps.crash + mishaps.fault = 0
     /\ \A t \in Turns : rows.status[t] \in {"none", "Completed"}
     => rows.tokens = spent

(* A Turn that is open ends, through crashes and cancellations, unless a   *)
(* failed write has kept its end from the rollout.                         *)
TurnsEnd ==
  \A t \in Turns :
    rows.status[t] \in OpenTurn ~> rows.status[t] \in TerminalTurn \/ mishaps.fault > 0

=============================================================================
