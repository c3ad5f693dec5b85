----------------------- MODULE SessionScheduler_proofs -----------------------
(***************************************************************************)
(* Proofs about SessionScheduler, for every Workflow (any finite set of    *)
(* effects, of any kinds, in any order) and every number of pauses,        *)
(* resumes, restarts and failures.                                         *)
(***************************************************************************)
EXTENDS SessionScheduler, TLAPS

(* A Session has a closing_status exactly while it is Closing.             *)
ClosingHasOutcome == status = "Closing" <=> closing # "None"

(* run_workflow is a task of run_scheduled: it lives between the two       *)
(* spawns and the join.                                                    *)
WorkflowJoined ==
  /\ run \in {"None", "entry", "closing"} => wf = "off"
  /\ run \in {"finish", "release"}        => wf \in {"off", "done"}

(* cancel stores Closing before it touches the token.                      *)
CancelIsStored == token \/ canceller => status \notin Open

(* What run_workflow is about to store is an outcome, and a Cancelled one  *)
(* only if the Session was closed already or its Actions failed.           *)
CloseIsDecided ==
  wf = "close" =>
    /\ result \in Terminal
    /\ result = "Cancelled" => status \notin Open \/ run = "actionError"

(* What an execution believes of an effect is what the journal, the        *)
(* answers and the clock say.                                              *)
BranchesAreBacked ==
  \A e \in Effects :
    /\ branch[e] = "done" => journal[e] = "Completed"
    /\ branch[e] = "returning" => /\ Kind[e] = "ask"  => request[e] = "Answered"
                                  /\ Kind[e] = "wait" => due[e]

CompletionIsBacked ==
  result = "Completed" => \A e \in Effects : journal[e] = "Completed"

(* wait_until_runnable between its read of the status and of the requests  *)
RequestsReadWhileWaiting == wf = "requests" /\ ~woken => status = "WaitingForInput"

(* The inductive invariant: what the tasks may still do, ...               *)
Control ==
  ClosingHasOutcome /\ WorkflowJoined /\ CancelIsStored /\ CloseIsDecided /\ TerminalIsQuiet

(* ... which questions are open and who sleeps until they are not, ...     *)
Questions ==
  /\ TerminalResolvesRequests /\ AttentionTracksRequests
  /\ RequestsReadWhileWaiting /\ NoLostWakeup

(* ... and what the journal says of the execution.                         *)
Journaled ==
  /\ BranchesAreBacked /\ CompletionIsBacked
  /\ CompletedMeansAllDone /\ SuspendingEffectsWereDue

IInv == TypeOK /\ Control /\ Questions /\ Journaled
-----------------------------------------------------------------------------
(* Every Store call and every task step keeps the types. Storing the       *)
(* outcome of a Closing Session is where Control is needed.               *)
LEMMA TypeStep ==
  ASSUME TypeOK, Control, Next
  PROVE  TypeOK'
<1> USE SchedulerAssumption DEF store, tasks, exec, api, env,
            TypeOK, Status, Open, Waiting, Terminal, Subscribed, Budgeted, Control, ClosingHasOutcome, CloseIsDecided
<1>1. CASE StartCheck
  BY <1>1 DEF StartCheck
<1>2. CASE StartInsert
  <2>1. token' \in BOOLEAN
    BY <1>2, Zenon DEF StartInsert
  <2>2. QED
    BY <1>2, <2>1 DEF StartInsert
<1>3. CASE CancelSignal
  <2>1. token' \in BOOLEAN /\ canceller' \in BOOLEAN
    BY <1>3, Zenon DEF CancelSignal
  <2>2. QED
    BY <1>3, <2>1 DEF CancelSignal
<1>4. CASE RunEntry
  BY <1>4 DEF RunEntry
<1>5. CASE ActionsStop
  BY <1>5 DEF ActionsStop
<1>6. CASE RunJoin
  BY <1>6 DEF RunJoin
<1>7. CASE RunActionError
  BY <1>7 DEF RunActionError
<1>8. CASE RunFailActions
  <2>1. attention' \in BOOLEAN /\ woken' \in BOOLEAN
    BY <1>8, Zenon DEF RunFailActions, BeginClosing, Publish
  <2>2. QED
    BY <1>8, <2>1 DEF RunFailActions, BeginClosing, Publish
<1>9. CASE RunFinish
  BY <1>9 DEF RunFinish, FinishClosing, Publish
<1>10. CASE RunRelease
  <2>1. token' \in BOOLEAN
    BY <1>10, Zenon DEF RunRelease
  <2>2. QED
    BY <1>10, <2>1 DEF RunRelease
<1>11. CASE WorkflowGet
  <2>1. woken' \in BOOLEAN
    BY <1>11, Zenon DEF WorkflowGet
  <2>2. QED
    BY <1>11, <2>1 DEF WorkflowGet
<1>12. CASE WorkflowAdmit
  BY <1>12 DEF WorkflowAdmit, Cancelled
<1>13. CASE WorkflowStart
  BY <1>13 DEF WorkflowStart, CanTransition, TransitionSession, StartFrom
<1>14. CASE WorkflowCharge
  BY <1>14 DEF WorkflowCharge
<1>15. CASE WorkflowDecide
  BY <1>15 DEF WorkflowDecide, Cancelled
<1>16. CASE WorkflowSuspend
  BY <1>16 DEF WorkflowSuspend, CanTransition, TransitionSession
<1>17. CASE WorkflowClose
  <2>1. attention' \in BOOLEAN
    BY <1>17, Zenon DEF WorkflowClose, BeginClosing
  <2>2. QED
    BY <1>17, <2>1 DEF WorkflowClose, BeginClosing
<1>18. CASE WaitRead
  <2>1. woken' \in BOOLEAN
    BY <1>18, Zenon DEF WaitRead, LeaveWait, Cancelled
  <2>2. QED
    BY <1>18, <2>1 DEF WaitRead, LeaveWait, Cancelled
<1>19. CASE WaitRequests
  BY <1>19 DEF WaitRequests
<1>20. CASE WaitSelect
  <2>1. woken' \in BOOLEAN
    BY <1>20, Zenon DEF WaitSelect, LeaveWait, Cancelled
  <2>2. QED
    BY <1>20, <2>1 DEF WaitSelect, LeaveWait, Cancelled
<1>21. CASE WaitWake
  <2>1. woken' \in BOOLEAN
    BY <1>21, Zenon DEF WaitWake, LeaveWait, CanTransition, TransitionSession, ResumeFrom
  <2>2. QED
    BY <1>21, <2>1 DEF WaitWake, LeaveWait, CanTransition, TransitionSession, ResumeFrom
<1>22. CASE ExecuteFail
  BY <1>22 DEF ExecuteFail, Return
<1>23. CASE ExecuteComplete
  BY <1>23 DEF ExecuteComplete, Return
<1>24. CASE ExecuteSuspend
  BY <1>24 DEF ExecuteSuspend, Return, InFlight, Suspension, Reached
<1>25. CASE Pause
  BY <1>25 DEF Pause, Spend, Publish, CanTransition, TransitionSession, PauseFrom
<1>26. CASE Resume
  BY <1>26 DEF Resume, Spend, Publish, CanTransition, TransitionSession, ResumeFrom
<1>27. CASE CancelBegin
  <2>1. attention' \in BOOLEAN /\ canceller' \in BOOLEAN /\ woken' \in BOOLEAN
    BY <1>27, Zenon DEF CancelBegin, BeginClosing, Publish
  <2>2. QED
    BY <1>27, <2>1 DEF CancelBegin, BeginClosing, Publish
<1>28. CASE ActionsFail
  BY <1>28 DEF ActionsFail, Spend
<1>29. CASE CrashRecover
  <2>1. token' \in BOOLEAN /\ woken' \in BOOLEAN /\ canceller' \in BOOLEAN
    BY <1>29, Zenon DEF CrashRecover, Spend
  <2>2. QED
    BY <1>29, <2>1 DEF CrashRecover, Spend
<1>30. ASSUME NEW e \in Effects, EffectBegin(e) PROVE TypeOK'
  BY <1>30 DEF EffectBegin, Goto, Cancelled, Reached
<1>31. ASSUME NEW e \in Effects, EffectCheckpoint(e) PROVE TypeOK'
  BY <1>31 DEF EffectCheckpoint, Goto, Cancelled, Checkpoint, Suspension
<1>32. ASSUME NEW e \in Effects, EffectFinish(e) PROVE TypeOK'
  BY <1>32 DEF EffectFinish, Goto
<1>33. ASSUME NEW e \in Effects, DispatchCall(e) PROVE TypeOK'
  BY <1>33 DEF DispatchCall, Goto, Cancelled
<1>34. ASSUME NEW e \in Effects, DispatchWait(e) PROVE TypeOK'
  BY <1>34 DEF DispatchWait, Goto, Checkpoint, Cancelled, Suspension
<1>35. ASSUME NEW e \in Effects, DispatchAsk(e) PROVE TypeOK'
  <2>1. attention' \in BOOLEAN
    BY <1>35, Zenon DEF DispatchAsk, Goto
  <2>2. QED
    BY <1>35, <2>1 DEF DispatchAsk, Goto
<1>36. ASSUME NEW e \in Effects, Answer(e) PROVE TypeOK'
  BY <1>36 DEF Answer, Publish
<1>37. ASSUME NEW e \in Effects, Elapse(e) PROVE TypeOK'
  BY <1>37 DEF Elapse
<1>38. QED
  BY <1>1, <1>2, <1>3, <1>4, <1>5, <1>6, <1>7, <1>8, <1>9, <1>10, <1>11,
     <1>12, <1>13, <1>14, <1>15, <1>16, <1>17, <1>18, <1>19, <1>20,
     <1>21, <1>22, <1>23, <1>24, <1>25, <1>26, <1>27, <1>28, <1>29,
     <1>30, <1>31, <1>32, <1>33, <1>34, <1>35, <1>36, <1>37
     DEF Next, Scheduler, Workflow, Execution, User

(* No task outlives the join that lets finish_session_closing run, and no  *)
(* outcome but the first is stored.                                        *)
LEMMA ControlStep ==
  ASSUME TypeOK, Control, Next
  PROVE  Control'
<1> USE DEF store, tasks, exec, api, env,
            TypeOK, Working, Status, Open, Waiting, Terminal, Subscribed, Control, ClosingHasOutcome, WorkflowJoined, CancelIsStored, CloseIsDecided, TerminalIsQuiet
<1>1. CASE StartCheck
  BY <1>1 DEF StartCheck
<1>2. CASE StartInsert
  BY <1>2 DEF StartInsert
<1>3. CASE CancelSignal
  BY <1>3 DEF CancelSignal
<1>4. CASE RunEntry
  BY <1>4 DEF RunEntry
<1>5. CASE ActionsStop
  BY <1>5 DEF ActionsStop
<1>6. CASE RunJoin
  BY <1>6 DEF RunJoin
<1>7. CASE RunActionError
  BY <1>7 DEF RunActionError
<1>8. CASE RunFailActions
  BY <1>8 DEF RunFailActions, BeginClosing, Publish
<1>9. CASE RunFinish
  BY <1>9 DEF RunFinish, FinishClosing, Publish
<1>10. CASE RunRelease
  BY <1>10 DEF RunRelease
<1>11. CASE WorkflowGet
  BY <1>11 DEF WorkflowGet
<1>12. CASE WorkflowAdmit
  BY <1>12 DEF WorkflowAdmit, Cancelled
<1>13. CASE WorkflowStart
  BY <1>13 DEF WorkflowStart, CanTransition, TransitionSession, StartFrom
<1>14. CASE WorkflowCharge
  BY <1>14 DEF WorkflowCharge
<1>15. CASE WorkflowDecide
  BY <1>15 DEF WorkflowDecide, Cancelled
<1>16. CASE WorkflowSuspend
  BY <1>16 DEF WorkflowSuspend, CanTransition, TransitionSession
<1>17. CASE WorkflowClose
  BY <1>17 DEF WorkflowClose, BeginClosing
<1>18. CASE WaitRead
  BY <1>18 DEF WaitRead, LeaveWait, Cancelled
<1>19. CASE WaitRequests
  BY <1>19 DEF WaitRequests
<1>20. CASE WaitSelect
  BY <1>20 DEF WaitSelect, LeaveWait, Cancelled
<1>21. CASE WaitWake
  BY <1>21 DEF WaitWake, LeaveWait, CanTransition, TransitionSession, ResumeFrom
<1>22. CASE ExecuteFail
  BY <1>22 DEF ExecuteFail, Return
<1>23. CASE ExecuteComplete
  BY <1>23 DEF ExecuteComplete, Return
<1>24. CASE ExecuteSuspend
  BY <1>24 DEF ExecuteSuspend, Return, InFlight, Suspension, Reached
<1>25. CASE Pause
  BY <1>25 DEF Pause, Spend, Publish, CanTransition, TransitionSession, PauseFrom
<1>26. CASE Resume
  BY <1>26 DEF Resume, Spend, Publish, CanTransition, TransitionSession, ResumeFrom
<1>27. CASE CancelBegin
  BY <1>27 DEF CancelBegin, BeginClosing, Publish
<1>28. CASE ActionsFail
  BY <1>28 DEF ActionsFail, Spend
<1>29. CASE CrashRecover
  BY <1>29 DEF CrashRecover, Spend
<1>30. ASSUME NEW e \in Effects, EffectBegin(e) PROVE Control'
  BY <1>30 DEF EffectBegin, Goto, Cancelled, Reached
<1>31. ASSUME NEW e \in Effects, EffectCheckpoint(e) PROVE Control'
  BY <1>31 DEF EffectCheckpoint, Goto, Cancelled, Checkpoint, Suspension
<1>32. ASSUME NEW e \in Effects, EffectFinish(e) PROVE Control'
  BY <1>32 DEF EffectFinish, Goto
<1>33. ASSUME NEW e \in Effects, DispatchCall(e) PROVE Control'
  BY <1>33 DEF DispatchCall, Goto, Cancelled
<1>34. ASSUME NEW e \in Effects, DispatchWait(e) PROVE Control'
  BY <1>34 DEF DispatchWait, Goto, Checkpoint, Cancelled, Suspension
<1>35. ASSUME NEW e \in Effects, DispatchAsk(e) PROVE Control'
  BY <1>35 DEF DispatchAsk, Goto
<1>36. ASSUME NEW e \in Effects, Answer(e) PROVE Control'
  BY <1>36 DEF Answer, Publish
<1>37. ASSUME NEW e \in Effects, Elapse(e) PROVE Control'
  BY <1>37 DEF Elapse
<1>38. QED
  BY <1>1, <1>2, <1>3, <1>4, <1>5, <1>6, <1>7, <1>8, <1>9, <1>10, <1>11,
     <1>12, <1>13, <1>14, <1>15, <1>16, <1>17, <1>18, <1>19, <1>20,
     <1>21, <1>22, <1>23, <1>24, <1>25, <1>26, <1>27, <1>28, <1>29,
     <1>30, <1>31, <1>32, <1>33, <1>34, <1>35, <1>36, <1>37
     DEF Next, Scheduler, Workflow, Execution, User

(* Every Store operation that opens, answers or cancels a question, or     *)
(* moves a waiting Session, keeps the flag right and wakes the scheduler.  *)
(* WorkflowJoined: nobody asks a question of a Session that is over.       *)
LEMMA QuestionsStep ==
  ASSUME TypeOK, Control, Questions, Next
  PROVE  Questions'
<1> USE DEF store, tasks, exec, api, env,
            TypeOK, Subscribed, Status, Open, Waiting, Terminal, Questions, TerminalResolvesRequests, AttentionTracksRequests, RequestsReadWhileWaiting, NoLostWakeup, OpenRequest, Control, WorkflowJoined
<1>1. CASE StartCheck
  BY <1>1 DEF StartCheck
<1>2. CASE StartInsert
  BY <1>2 DEF StartInsert
<1>3. CASE CancelSignal
  BY <1>3 DEF CancelSignal
<1>4. CASE RunEntry
  BY <1>4 DEF RunEntry
<1>5. CASE ActionsStop
  BY <1>5 DEF ActionsStop
<1>6. CASE RunJoin
  BY <1>6 DEF RunJoin
<1>7. CASE RunActionError
  BY <1>7 DEF RunActionError
<1>8. CASE RunFailActions
  BY <1>8 DEF RunFailActions, BeginClosing, Publish
<1>9. CASE RunFinish
  BY <1>9 DEF RunFinish, FinishClosing, Publish
<1>10. CASE RunRelease
  BY <1>10 DEF RunRelease
<1>11. CASE WorkflowGet
  BY <1>11 DEF WorkflowGet
<1>12. CASE WorkflowAdmit
  BY <1>12 DEF WorkflowAdmit, Cancelled
<1>13. CASE WorkflowStart
  BY <1>13 DEF WorkflowStart, CanTransition, TransitionSession, StartFrom
<1>14. CASE WorkflowCharge
  BY <1>14 DEF WorkflowCharge
<1>15. CASE WorkflowDecide
  BY <1>15 DEF WorkflowDecide, Cancelled
<1>16. CASE WorkflowSuspend
  BY <1>16 DEF WorkflowSuspend, CanTransition, TransitionSession
<1>17. CASE WorkflowClose
  BY <1>17 DEF WorkflowClose, BeginClosing
<1>18. CASE WaitRead
  BY <1>18 DEF WaitRead, LeaveWait, Cancelled
<1>19. CASE WaitRequests
  BY <1>19 DEF WaitRequests
<1>20. CASE WaitSelect
  BY <1>20 DEF WaitSelect, LeaveWait, Cancelled
<1>21. CASE WaitWake
  BY <1>21 DEF WaitWake, LeaveWait, CanTransition, TransitionSession, ResumeFrom
<1>22. CASE ExecuteFail
  BY <1>22 DEF ExecuteFail, Return
<1>23. CASE ExecuteComplete
  BY <1>23 DEF ExecuteComplete, Return
<1>24. CASE ExecuteSuspend
  BY <1>24 DEF ExecuteSuspend, Return, InFlight, Suspension, Reached
<1>25. CASE Pause
  BY <1>25 DEF Pause, Spend, Publish, CanTransition, TransitionSession, PauseFrom
<1>26. CASE Resume
  BY <1>26 DEF Resume, Spend, Publish, CanTransition, TransitionSession, ResumeFrom
<1>27. CASE CancelBegin
  BY <1>27 DEF CancelBegin, BeginClosing, Publish
<1>28. CASE ActionsFail
  BY <1>28 DEF ActionsFail, Spend
<1>29. CASE CrashRecover
  BY <1>29 DEF CrashRecover, Spend
<1>30. ASSUME NEW e \in Effects, EffectBegin(e) PROVE Questions'
  BY <1>30 DEF EffectBegin, Goto, Cancelled, Reached
<1>31. ASSUME NEW e \in Effects, EffectCheckpoint(e) PROVE Questions'
  BY <1>31 DEF EffectCheckpoint, Goto, Cancelled, Checkpoint, Suspension
<1>32. ASSUME NEW e \in Effects, EffectFinish(e) PROVE Questions'
  BY <1>32 DEF EffectFinish, Goto
<1>33. ASSUME NEW e \in Effects, DispatchCall(e) PROVE Questions'
  BY <1>33 DEF DispatchCall, Goto, Cancelled
<1>34. ASSUME NEW e \in Effects, DispatchWait(e) PROVE Questions'
  BY <1>34 DEF DispatchWait, Goto, Checkpoint, Cancelled, Suspension
<1>35. ASSUME NEW e \in Effects, DispatchAsk(e) PROVE Questions'
  BY <1>35 DEF DispatchAsk, Goto
<1>36. ASSUME NEW e \in Effects, Answer(e) PROVE Questions'
  BY <1>36 DEF Answer, Publish
<1>37. ASSUME NEW e \in Effects, Elapse(e) PROVE Questions'
  BY <1>37 DEF Elapse
<1>38. QED
  BY <1>1, <1>2, <1>3, <1>4, <1>5, <1>6, <1>7, <1>8, <1>9, <1>10, <1>11,
     <1>12, <1>13, <1>14, <1>15, <1>16, <1>17, <1>18, <1>19, <1>20,
     <1>21, <1>22, <1>23, <1>24, <1>25, <1>26, <1>27, <1>28, <1>29,
     <1>30, <1>31, <1>32, <1>33, <1>34, <1>35, <1>36, <1>37
     DEF Next, Scheduler, Workflow, Execution, User

(* A branch goes on only with what is journaled, and what is journaled as  *)
(* completed stays so, through suspension, replay and restart.            *)
LEMMA JournaledStep ==
  ASSUME TypeOK, Control, Journaled, Next
  PROVE  Journaled'
<1> USE DEF store, tasks, exec, api, env,
            TypeOK, Status, Open, Waiting, Terminal, Journaled, BranchesAreBacked, CompletionIsBacked, CompletedMeansAllDone, SuspendingEffectsWereDue, Control, CloseIsDecided, ClosingHasOutcome
<1>1. CASE StartCheck
  BY <1>1 DEF StartCheck
<1>2. CASE StartInsert
  BY <1>2 DEF StartInsert
<1>3. CASE CancelSignal
  BY <1>3 DEF CancelSignal
<1>4. CASE RunEntry
  BY <1>4 DEF RunEntry
<1>5. CASE ActionsStop
  BY <1>5 DEF ActionsStop
<1>6. CASE RunJoin
  BY <1>6 DEF RunJoin
<1>7. CASE RunActionError
  BY <1>7 DEF RunActionError
<1>8. CASE RunFailActions
  BY <1>8 DEF RunFailActions, BeginClosing, Publish
<1>9. CASE RunFinish
  BY <1>9 DEF RunFinish, FinishClosing, Publish
<1>10. CASE RunRelease
  BY <1>10 DEF RunRelease
<1>11. CASE WorkflowGet
  BY <1>11 DEF WorkflowGet
<1>12. CASE WorkflowAdmit
  BY <1>12 DEF WorkflowAdmit, Cancelled
<1>13. CASE WorkflowStart
  BY <1>13 DEF WorkflowStart, CanTransition, TransitionSession, StartFrom
<1>14. CASE WorkflowCharge
  BY <1>14 DEF WorkflowCharge
<1>15. CASE WorkflowDecide
  BY <1>15 DEF WorkflowDecide, Cancelled
<1>16. CASE WorkflowSuspend
  BY <1>16 DEF WorkflowSuspend, CanTransition, TransitionSession
<1>17. CASE WorkflowClose
  BY <1>17 DEF WorkflowClose, BeginClosing
<1>18. CASE WaitRead
  BY <1>18 DEF WaitRead, LeaveWait, Cancelled
<1>19. CASE WaitRequests
  BY <1>19 DEF WaitRequests
<1>20. CASE WaitSelect
  BY <1>20 DEF WaitSelect, LeaveWait, Cancelled
<1>21. CASE WaitWake
  BY <1>21 DEF WaitWake, LeaveWait, CanTransition, TransitionSession, ResumeFrom
<1>22. CASE ExecuteFail
  BY <1>22 DEF ExecuteFail, Return
<1>23. CASE ExecuteComplete
  BY <1>23 DEF ExecuteComplete, Return
<1>24. CASE ExecuteSuspend
  BY <1>24 DEF ExecuteSuspend, Return, InFlight, Suspension, Reached
<1>25. CASE Pause
  BY <1>25 DEF Pause, Spend, Publish, CanTransition, TransitionSession, PauseFrom
<1>26. CASE Resume
  BY <1>26 DEF Resume, Spend, Publish, CanTransition, TransitionSession, ResumeFrom
<1>27. CASE CancelBegin
  BY <1>27 DEF CancelBegin, BeginClosing, Publish
<1>28. CASE ActionsFail
  BY <1>28 DEF ActionsFail, Spend
<1>29. CASE CrashRecover
  BY <1>29 DEF CrashRecover, Spend
<1>30. ASSUME NEW e \in Effects, EffectBegin(e) PROVE Journaled'
  BY <1>30 DEF EffectBegin, Goto, Cancelled, Reached
<1>31. ASSUME NEW e \in Effects, EffectCheckpoint(e) PROVE Journaled'
  BY <1>31 DEF EffectCheckpoint, Goto, Cancelled, Checkpoint, Suspension
<1>32. ASSUME NEW e \in Effects, EffectFinish(e) PROVE Journaled'
  BY <1>32 DEF EffectFinish, Goto
<1>33. ASSUME NEW e \in Effects, DispatchCall(e) PROVE Journaled'
  BY <1>33 DEF DispatchCall, Goto, Cancelled
<1>34. ASSUME NEW e \in Effects, DispatchWait(e) PROVE Journaled'
  BY <1>34 DEF DispatchWait, Goto, Checkpoint, Cancelled, Suspension
<1>35. ASSUME NEW e \in Effects, DispatchAsk(e) PROVE Journaled'
  BY <1>35 DEF DispatchAsk, Goto
<1>36. ASSUME NEW e \in Effects, Answer(e) PROVE Journaled'
  BY <1>36 DEF Answer, Publish
<1>37. ASSUME NEW e \in Effects, Elapse(e) PROVE Journaled'
  BY <1>37 DEF Elapse
<1>38. QED
  BY <1>1, <1>2, <1>3, <1>4, <1>5, <1>6, <1>7, <1>8, <1>9, <1>10, <1>11,
     <1>12, <1>13, <1>14, <1>15, <1>16, <1>17, <1>18, <1>19, <1>20,
     <1>21, <1>22, <1>23, <1>24, <1>25, <1>26, <1>27, <1>28, <1>29,
     <1>30, <1>31, <1>32, <1>33, <1>34, <1>35, <1>36, <1>37
     DEF Next, Scheduler, Workflow, Execution, User

(* The initial states satisfy the invariant, every step keeps it.          *)
THEOREM Invariance == Spec => []IInv
<1>1. Init => IInv
  <2> SUFFICES ASSUME Init PROVE IInv
    OBVIOUS
  <2>1. /\ attention \in BOOLEAN /\ token \in BOOLEAN /\ woken \in BOOLEAN
        /\ canceller \in BOOLEAN /\ due \in [Effects -> BOOLEAN]
    BY Zenon DEF Init
  <2>2. TypeOK
    BY <2>1, SchedulerAssumption
       DEF Init, TypeOK, Status, Open, Waiting, Terminal, Subscribed, Budgeted
  <2>3. Control
    BY DEF Init, Control, ClosingHasOutcome, WorkflowJoined, CancelIsStored,
           CloseIsDecided, TerminalIsQuiet, Working, Terminal
  <2>4. Questions
    BY DEF Init, Questions, TerminalResolvesRequests, AttentionTracksRequests,
           RequestsReadWhileWaiting, NoLostWakeup, OpenRequest, Terminal
  <2>5. Journaled
    BY DEF Init, Journaled, BranchesAreBacked, CompletionIsBacked,
           CompletedMeansAllDone, SuspendingEffectsWereDue
  <2>6. QED
    BY <2>2, <2>3, <2>4, <2>5 DEF IInv
<1>2. IInv /\ [Next]_vars => IInv'
  <2> SUFFICES ASSUME IInv, [Next]_vars PROVE IInv'
    OBVIOUS
  <2>1. CASE Next
    BY <2>1, TypeStep, ControlStep, QuestionsStep, JournaledStep DEF IInv
  <2>2. CASE UNCHANGED vars
    BY <2>2
       DEF vars, store, tasks, exec, api, env, IInv, TypeOK,
           Control, ClosingHasOutcome, WorkflowJoined, CancelIsStored, CloseIsDecided,
           TerminalIsQuiet, Working, Questions, TerminalResolvesRequests,
           AttentionTracksRequests, RequestsReadWhileWaiting, NoLostWakeup, OpenRequest,
           Journaled, BranchesAreBacked, CompletionIsBacked, CompletedMeansAllDone,
           SuspendingEffectsWereDue
  <2>3. QED
    BY <2>1, <2>2
<1>3. QED
  BY <1>1, <1>2, PTL DEF Spec

(* Every stored Session and every task place is one the code has.          *)
THEOREM TypeCorrect == Spec => []TypeOK
<1>1. IInv => TypeOK
  BY DEF IInv
<1>2. QED
  BY <1>1, Invariance, PTL

(* No execution outlives its Session: finish_session_closing runs only     *)
(* after run_scheduled joined the Workflow, on every path to Closing.      *)
THEOREM TerminalSessionsAreQuiet == Spec => []TerminalIsQuiet
<1>1. IInv => TerminalIsQuiet
  BY DEF IInv, Control
<1>2. QED
  BY <1>1, Invariance, PTL

(* No question is open in a Session that is over.                          *)
THEOREM QuestionsAreResolved == Spec => []TerminalResolvesRequests
<1>1. IInv => TerminalResolvesRequests
  BY DEF IInv, Questions
<1>2. QED
  BY <1>1, Invariance, PTL

(* attention_required says that a question is open.                        *)
THEOREM QuestionsAreTracked == Spec => []AttentionTracksRequests
<1>1. IInv => AttentionTracksRequests
  BY DEF IInv, Questions
<1>2. QED
  BY <1>1, Invariance, PTL

(* wait_until_runnable never sleeps through the change it waits for.       *)
THEOREM WakeupsAreNotLost == Spec => []NoLostWakeup
<1>1. IInv => NoLostWakeup
  BY DEF IInv, Questions
<1>2. QED
  BY <1>1, Invariance, PTL

(* Completed means that every durable effect completed.                    *)
THEOREM CompletionIsEarned == Spec => []CompletedMeansAllDone
<1>1. IInv => CompletedMeansAllDone
  BY DEF IInv, Journaled
<1>2. QED
  BY <1>1, Invariance, PTL

(* An ask_human or wait completes only with its answer, or past its        *)
(* deadline.                                                               *)
THEOREM SuspensionsAreDue == Spec => []SuspendingEffectsWereDue
<1>1. IInv => SuspendingEffectsWereDue
  BY DEF IInv, Journaled
<1>2. QED
  BY <1>1, Invariance, PTL
-----------------------------------------------------------------------------
(* Who may take a Session out of Paused                                    *)
PauseStep ==
  status = "Paused" /\ status' # "Paused" =>
    \/ status' = "Closing"
    \/ status' = "Running" /\ starter = "None" /\ starter' = "check"
    \/ status' = "Running" /\ wf = "wake"

(* Who may store the outcome Cancelled                                     *)
CancelStep ==
  closing # "Cancelled" /\ closing' = "Cancelled" => canceller' \/ run = "actionError"

(* No answer, deadline, execution or restart ends a pause.                 *)
LEMMA OnlyResumeEndsPause ==
  ASSUME Next
  PROVE  PauseStep
<1> USE DEF store, tasks, exec, api, env,
            PauseStep, Terminal, Open, Waiting
<1>1. CASE StartCheck
  BY <1>1 DEF StartCheck
<1>2. CASE StartInsert
  BY <1>2 DEF StartInsert
<1>3. CASE CancelSignal
  BY <1>3 DEF CancelSignal
<1>4. CASE RunEntry
  BY <1>4 DEF RunEntry
<1>5. CASE ActionsStop
  BY <1>5 DEF ActionsStop
<1>6. CASE RunJoin
  BY <1>6 DEF RunJoin
<1>7. CASE RunActionError
  BY <1>7 DEF RunActionError
<1>8. CASE RunFailActions
  BY <1>8 DEF RunFailActions, BeginClosing, Publish
<1>9. CASE RunFinish
  BY <1>9 DEF RunFinish, FinishClosing, Publish
<1>10. CASE RunRelease
  BY <1>10 DEF RunRelease
<1>11. CASE WorkflowGet
  BY <1>11 DEF WorkflowGet
<1>12. CASE WorkflowAdmit
  BY <1>12 DEF WorkflowAdmit, Cancelled
<1>13. CASE WorkflowStart
  BY <1>13 DEF WorkflowStart, CanTransition, TransitionSession, StartFrom
<1>14. CASE WorkflowCharge
  BY <1>14 DEF WorkflowCharge
<1>15. CASE WorkflowDecide
  BY <1>15 DEF WorkflowDecide, Cancelled
<1>16. CASE WorkflowSuspend
  BY <1>16 DEF WorkflowSuspend, CanTransition, TransitionSession
<1>17. CASE WorkflowClose
  BY <1>17 DEF WorkflowClose, BeginClosing
<1>18. CASE WaitRead
  BY <1>18 DEF WaitRead, LeaveWait, Cancelled
<1>19. CASE WaitRequests
  BY <1>19 DEF WaitRequests
<1>20. CASE WaitSelect
  BY <1>20 DEF WaitSelect, LeaveWait, Cancelled
<1>21. CASE WaitWake
  BY <1>21 DEF WaitWake, LeaveWait, CanTransition, TransitionSession, ResumeFrom
<1>22. CASE ExecuteFail
  BY <1>22 DEF ExecuteFail, Return
<1>23. CASE ExecuteComplete
  BY <1>23 DEF ExecuteComplete, Return
<1>24. CASE ExecuteSuspend
  BY <1>24 DEF ExecuteSuspend, Return, InFlight, Suspension, Reached
<1>25. CASE Pause
  BY <1>25 DEF Pause, Spend, Publish, CanTransition, TransitionSession, PauseFrom
<1>26. CASE Resume
  BY <1>26 DEF Resume, Spend, Publish, CanTransition, TransitionSession, ResumeFrom
<1>27. CASE CancelBegin
  BY <1>27 DEF CancelBegin, BeginClosing, Publish
<1>28. CASE ActionsFail
  BY <1>28 DEF ActionsFail, Spend
<1>29. CASE CrashRecover
  BY <1>29 DEF CrashRecover, Spend
<1>30. ASSUME NEW e \in Effects, EffectBegin(e) PROVE PauseStep
  BY <1>30 DEF EffectBegin, Goto, Cancelled, Reached
<1>31. ASSUME NEW e \in Effects, EffectCheckpoint(e) PROVE PauseStep
  BY <1>31 DEF EffectCheckpoint, Goto, Cancelled, Checkpoint, Suspension
<1>32. ASSUME NEW e \in Effects, EffectFinish(e) PROVE PauseStep
  BY <1>32 DEF EffectFinish, Goto
<1>33. ASSUME NEW e \in Effects, DispatchCall(e) PROVE PauseStep
  BY <1>33 DEF DispatchCall, Goto, Cancelled
<1>34. ASSUME NEW e \in Effects, DispatchWait(e) PROVE PauseStep
  BY <1>34 DEF DispatchWait, Goto, Checkpoint, Cancelled, Suspension
<1>35. ASSUME NEW e \in Effects, DispatchAsk(e) PROVE PauseStep
  BY <1>35 DEF DispatchAsk, Goto
<1>36. ASSUME NEW e \in Effects, Answer(e) PROVE PauseStep
  BY <1>36 DEF Answer, Publish
<1>37. ASSUME NEW e \in Effects, Elapse(e) PROVE PauseStep
  BY <1>37 DEF Elapse
<1>38. QED
  BY <1>1, <1>2, <1>3, <1>4, <1>5, <1>6, <1>7, <1>8, <1>9, <1>10, <1>11,
     <1>12, <1>13, <1>14, <1>15, <1>16, <1>17, <1>18, <1>19, <1>20,
     <1>21, <1>22, <1>23, <1>24, <1>25, <1>26, <1>27, <1>28, <1>29,
     <1>30, <1>31, <1>32, <1>33, <1>34, <1>35, <1>36, <1>37
     DEF Next, Scheduler, Workflow, Execution, User

(* cancel stores its intent itself: CancelIsStored, CloseIsDecided.        *)
LEMMA OnlyCancelCancels ==
  ASSUME TypeOK, Control, Next
  PROVE  CancelStep
<1> USE DEF store, tasks, exec, api, env,
            TypeOK, CancelStep, Status, Open, Waiting, Terminal, Control, CancelIsStored, CloseIsDecided, ClosingHasOutcome
<1>1. CASE StartCheck
  BY <1>1 DEF StartCheck
<1>2. CASE StartInsert
  BY <1>2 DEF StartInsert
<1>3. CASE CancelSignal
  BY <1>3 DEF CancelSignal
<1>4. CASE RunEntry
  BY <1>4 DEF RunEntry
<1>5. CASE ActionsStop
  BY <1>5 DEF ActionsStop
<1>6. CASE RunJoin
  BY <1>6 DEF RunJoin
<1>7. CASE RunActionError
  BY <1>7 DEF RunActionError
<1>8. CASE RunFailActions
  BY <1>8 DEF RunFailActions, BeginClosing, Publish
<1>9. CASE RunFinish
  BY <1>9 DEF RunFinish, FinishClosing, Publish
<1>10. CASE RunRelease
  BY <1>10 DEF RunRelease
<1>11. CASE WorkflowGet
  BY <1>11 DEF WorkflowGet
<1>12. CASE WorkflowAdmit
  BY <1>12 DEF WorkflowAdmit, Cancelled
<1>13. CASE WorkflowStart
  BY <1>13 DEF WorkflowStart, CanTransition, TransitionSession, StartFrom
<1>14. CASE WorkflowCharge
  BY <1>14 DEF WorkflowCharge
<1>15. CASE WorkflowDecide
  BY <1>15 DEF WorkflowDecide, Cancelled
<1>16. CASE WorkflowSuspend
  BY <1>16 DEF WorkflowSuspend, CanTransition, TransitionSession
<1>17. CASE WorkflowClose
  BY <1>17 DEF WorkflowClose, BeginClosing
<1>18. CASE WaitRead
  BY <1>18 DEF WaitRead, LeaveWait, Cancelled
<1>19. CASE WaitRequests
  BY <1>19 DEF WaitRequests
<1>20. CASE WaitSelect
  BY <1>20 DEF WaitSelect, LeaveWait, Cancelled
<1>21. CASE WaitWake
  BY <1>21 DEF WaitWake, LeaveWait, CanTransition, TransitionSession, ResumeFrom
<1>22. CASE ExecuteFail
  BY <1>22 DEF ExecuteFail, Return
<1>23. CASE ExecuteComplete
  BY <1>23 DEF ExecuteComplete, Return
<1>24. CASE ExecuteSuspend
  BY <1>24 DEF ExecuteSuspend, Return, InFlight, Suspension, Reached
<1>25. CASE Pause
  BY <1>25 DEF Pause, Spend, Publish, CanTransition, TransitionSession, PauseFrom
<1>26. CASE Resume
  BY <1>26 DEF Resume, Spend, Publish, CanTransition, TransitionSession, ResumeFrom
<1>27. CASE CancelBegin
  BY <1>27 DEF CancelBegin, BeginClosing, Publish
<1>28. CASE ActionsFail
  BY <1>28 DEF ActionsFail, Spend
<1>29. CASE CrashRecover
  BY <1>29 DEF CrashRecover, Spend
<1>30. ASSUME NEW e \in Effects, EffectBegin(e) PROVE CancelStep
  BY <1>30 DEF EffectBegin, Goto, Cancelled, Reached
<1>31. ASSUME NEW e \in Effects, EffectCheckpoint(e) PROVE CancelStep
  BY <1>31 DEF EffectCheckpoint, Goto, Cancelled, Checkpoint, Suspension
<1>32. ASSUME NEW e \in Effects, EffectFinish(e) PROVE CancelStep
  BY <1>32 DEF EffectFinish, Goto
<1>33. ASSUME NEW e \in Effects, DispatchCall(e) PROVE CancelStep
  BY <1>33 DEF DispatchCall, Goto, Cancelled
<1>34. ASSUME NEW e \in Effects, DispatchWait(e) PROVE CancelStep
  BY <1>34 DEF DispatchWait, Goto, Checkpoint, Cancelled, Suspension
<1>35. ASSUME NEW e \in Effects, DispatchAsk(e) PROVE CancelStep
  BY <1>35 DEF DispatchAsk, Goto
<1>36. ASSUME NEW e \in Effects, Answer(e) PROVE CancelStep
  BY <1>36 DEF Answer, Publish
<1>37. ASSUME NEW e \in Effects, Elapse(e) PROVE CancelStep
  BY <1>37 DEF Elapse
<1>38. QED
  BY <1>1, <1>2, <1>3, <1>4, <1>5, <1>6, <1>7, <1>8, <1>9, <1>10, <1>11,
     <1>12, <1>13, <1>14, <1>15, <1>16, <1>17, <1>18, <1>19, <1>20,
     <1>21, <1>22, <1>23, <1>24, <1>25, <1>26, <1>27, <1>28, <1>29,
     <1>30, <1>31, <1>32, <1>33, <1>34, <1>35, <1>36, <1>37
     DEF Next, Scheduler, Workflow, Execution, User

(* A pause ends by the user's resume or by closing, but for the one race   *)
(* of wait_until_runnable's own resume_session.                            *)
THEOREM PausesEndDeliberately == Spec => PauseEndsDeliberately
<1>1. [Next]_vars => [PauseStep]_vars
  BY OnlyResumeEndsPause
<1>2. QED
  BY <1>1, PTL DEF Spec, PauseEndsDeliberately, PauseStep

(* The outcome Cancelled is stored by cancel, or for failed Actions.       *)
THEOREM CancelledOnlyOnRequest == Spec => CancelledOnRequest
<1>1. IInv /\ [Next]_vars => [CancelStep]_vars
  BY OnlyCancelCancels DEF IInv
<1>2. QED
  BY <1>1, Invariance, PTL DEF Spec, CancelledOnRequest, CancelStep
-----------------------------------------------------------------------------
(* One step of the scheduler is a step of the lifecycle or none of it.     *)
(* Working ends before Finish: WorkflowJoined.                             *)
LEMMA LifecycleStep ==
  ASSUME TypeOK, Control, Next
  PROVE  [Lifecycle!Next]_(Lifecycle!vars)
<1> USE DEF store, tasks, exec, api, env,
            TypeOK, Working, Status, Open, Waiting, Terminal, Control, ClosingHasOutcome, WorkflowJoined, CancelIsStored, CloseIsDecided, TerminalIsQuiet, Lifecycle!Next, Lifecycle!vars, Lifecycle!Begin, Lifecycle!End, Lifecycle!Suspend, Lifecycle!Pause, Lifecycle!Resume, Lifecycle!Close, Lifecycle!Finish, Lifecycle!Open, Lifecycle!Waiting, Lifecycle!Terminal
<1>1. CASE StartCheck
  BY <1>1 DEF StartCheck
<1>2. CASE StartInsert
  BY <1>2 DEF StartInsert
<1>3. CASE CancelSignal
  BY <1>3 DEF CancelSignal
<1>4. CASE RunEntry
  BY <1>4 DEF RunEntry
<1>5. CASE ActionsStop
  BY <1>5 DEF ActionsStop
<1>6. CASE RunJoin
  BY <1>6 DEF RunJoin
<1>7. CASE RunActionError
  BY <1>7 DEF RunActionError
<1>8. CASE RunFailActions
  BY <1>8 DEF RunFailActions, BeginClosing, Publish
<1>9. CASE RunFinish
  BY <1>9 DEF RunFinish, FinishClosing, Publish
<1>10. CASE RunRelease
  BY <1>10 DEF RunRelease
<1>11. CASE WorkflowGet
  BY <1>11 DEF WorkflowGet
<1>12. CASE WorkflowAdmit
  BY <1>12 DEF WorkflowAdmit, Cancelled
<1>13. CASE WorkflowStart
  BY <1>13 DEF WorkflowStart, CanTransition, TransitionSession, StartFrom
<1>14. CASE WorkflowCharge
  BY <1>14 DEF WorkflowCharge
<1>15. CASE WorkflowDecide
  BY <1>15 DEF WorkflowDecide, Cancelled
<1>16. CASE WorkflowSuspend
  BY <1>16 DEF WorkflowSuspend, CanTransition, TransitionSession
<1>17. CASE WorkflowClose
  BY <1>17 DEF WorkflowClose, BeginClosing
<1>18. CASE WaitRead
  BY <1>18 DEF WaitRead, LeaveWait, Cancelled
<1>19. CASE WaitRequests
  BY <1>19 DEF WaitRequests
<1>20. CASE WaitSelect
  BY <1>20 DEF WaitSelect, LeaveWait, Cancelled
<1>21. CASE WaitWake
  BY <1>21 DEF WaitWake, LeaveWait, CanTransition, TransitionSession, ResumeFrom
<1>22. CASE ExecuteFail
  BY <1>22 DEF ExecuteFail, Return
<1>23. CASE ExecuteComplete
  BY <1>23 DEF ExecuteComplete, Return
<1>24. CASE ExecuteSuspend
  BY <1>24 DEF ExecuteSuspend, Return, InFlight, Suspension, Reached
<1>25. CASE Pause
  BY <1>25 DEF Pause, Spend, Publish, CanTransition, TransitionSession, PauseFrom
<1>26. CASE Resume
  BY <1>26 DEF Resume, Spend, Publish, CanTransition, TransitionSession, ResumeFrom
<1>27. CASE CancelBegin
  BY <1>27 DEF CancelBegin, BeginClosing, Publish
<1>28. CASE ActionsFail
  BY <1>28 DEF ActionsFail, Spend
<1>29. CASE CrashRecover
  BY <1>29 DEF CrashRecover, Spend
<1>30. ASSUME NEW e \in Effects, EffectBegin(e) PROVE [Lifecycle!Next]_(Lifecycle!vars)
  BY <1>30 DEF EffectBegin, Goto, Cancelled, Reached
<1>31. ASSUME NEW e \in Effects, EffectCheckpoint(e) PROVE [Lifecycle!Next]_(Lifecycle!vars)
  BY <1>31 DEF EffectCheckpoint, Goto, Cancelled, Checkpoint, Suspension
<1>32. ASSUME NEW e \in Effects, EffectFinish(e) PROVE [Lifecycle!Next]_(Lifecycle!vars)
  BY <1>32 DEF EffectFinish, Goto
<1>33. ASSUME NEW e \in Effects, DispatchCall(e) PROVE [Lifecycle!Next]_(Lifecycle!vars)
  BY <1>33 DEF DispatchCall, Goto, Cancelled
<1>34. ASSUME NEW e \in Effects, DispatchWait(e) PROVE [Lifecycle!Next]_(Lifecycle!vars)
  BY <1>34 DEF DispatchWait, Goto, Checkpoint, Cancelled, Suspension
<1>35. ASSUME NEW e \in Effects, DispatchAsk(e) PROVE [Lifecycle!Next]_(Lifecycle!vars)
  BY <1>35 DEF DispatchAsk, Goto
<1>36. ASSUME NEW e \in Effects, Answer(e) PROVE [Lifecycle!Next]_(Lifecycle!vars)
  BY <1>36 DEF Answer, Publish
<1>37. ASSUME NEW e \in Effects, Elapse(e) PROVE [Lifecycle!Next]_(Lifecycle!vars)
  BY <1>37 DEF Elapse
<1>38. QED
  BY <1>1, <1>2, <1>3, <1>4, <1>5, <1>6, <1>7, <1>8, <1>9, <1>10, <1>11,
     <1>12, <1>13, <1>14, <1>15, <1>16, <1>17, <1>18, <1>19, <1>20,
     <1>21, <1>22, <1>23, <1>24, <1>25, <1>26, <1>27, <1>28, <1>29,
     <1>30, <1>31, <1>32, <1>33, <1>34, <1>35, <1>36, <1>37
     DEF Next, Scheduler, Workflow, Execution, User

(* SessionScheduler implements SessionLifecycle.                           *)
THEOREM Implementation == Spec => ImplementsLifecycle
<1>1. Init => Lifecycle!Init
  BY DEF Init, Lifecycle!Init, Working, Terminal
<1>2. IInv /\ [Next]_vars => [Lifecycle!Next]_(Lifecycle!vars)
  <2> SUFFICES ASSUME IInv, [Next]_vars PROVE [Lifecycle!Next]_(Lifecycle!vars)
    OBVIOUS
  <2>1. CASE Next
    BY <2>1, LifecycleStep DEF IInv
  <2>2. CASE UNCHANGED vars
    BY <2>2 DEF vars, store, tasks, Lifecycle!vars, Working
  <2>3. QED
    BY <2>1, <2>2
<1>3. QED
  BY <1>1, <1>2, Invariance, PTL DEF Spec, ImplementsLifecycle, Lifecycle!Spec
=============================================================================
