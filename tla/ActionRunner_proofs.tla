------------------------- MODULE ActionRunner_proofs -------------------------
(***************************************************************************)
(* Proofs about ActionRunner, for any finite number of Actions and Agents  *)
(* and any number of pauses, restarts, errors, interrupts and cancels.     *)
(***************************************************************************)
EXTENDS ActionRunner, TLAPS

(* An attempt and its Action are Running together.                         *)
AttemptFollows == \A a \in Actions : attempt[a] = "Running" <=> action[a] = "Running"

(* The task of an Action runs an attempt, or finishes one, ...             *)
OnAttempt ==
  {"reopen", "look", "prepare", "track", "finish", "settleTurn", "settleFinish"} \cup
  InTurn

(* ... and meanwhile nobody takes the Running Action away from it.         *)
AttemptsAreOwned ==
  \A a \in Actions :
    /\ task[a] # "none"     => action[a] # "None"
    /\ task[a] \in OnAttempt => action[a] = "Running"

OneTaskPerAgent ==
  \A a, b \in Actions :
    AgentOf[a] = AgentOf[b] /\ task[a] # "none" /\ task[b] # "none" => a = b

(* Actions are created in order, and spawned, running or interrupted only  *)
(* with the earlier ones of the Agent behind them.                         *)
InOrder ==
  \A a \in Actions : \A b \in Earlier(a) :
    /\ action[a] # "None" => action[b] # "None"
    /\ task[a] # "none" \/ action[a] \in {"Running", "Interrupted"}
         => action[b] \in Settled

(* run_session outlives its tasks.                                         *)
TasksAreJoined ==
  runner \in {"off", "done", "failed"} => \A a \in Actions : task[a] = "none"

(* The run is only stopped once Closing is stored; it is done when nothing *)
(* is left to settle, and the Session ends after it.                       *)
EndsInOrder ==
  /\ stop => session \in {"Closing", "Ended"}
  /\ runner \in {"drain", "settle", "done"} => stop
  /\ session = "Ended" => runner = "done"
  /\ runner = "done" => \A a \in Actions : action[a] \notin Pending

(* Whoever is about to finish an attempt knows with what.                  *)
VerdictsAreKnown ==
  \A a \in Actions :
    /\ task[a] = "finish" => outcome[a] # "None"
    /\ task[a] \in {"settleTurn", "settleFinish"} => outcome[a] \in Settled

(* A task learns that its Turn completed exactly when it did.              *)
OutcomesAreTrue ==
  \A a \in Actions :
    /\ task[a] \in {"prepare", "track", "settleTurn"} \cup InTurn =>
         turn[a] # "Completed"
    /\ task[a] = "settleTurn" => outcome[a] = "Cancelled"
    /\ task[a] \in {"finish", "settleFinish"} =>
         (outcome[a] = "Completed" <=> turn[a] = "Completed")

(* The inductive invariant: who may work on which Action, ...              *)
Queueing ==
  AttemptFollows /\ AttemptsAreOwned /\ OneTaskPerAgent /\ InOrder /\ VerdictsAreKnown

(* ... how the run and the Session end, ...                                *)
Ending == TasksAreJoined /\ EndsInOrder

(* ... and what becomes of the results.                                    *)
Results == OutcomesAreTrue /\ ResultsAreKept

IInv == TypeOK /\ Queueing /\ Ending /\ Results
-----------------------------------------------------------------------------
(* A bounded disturbance is counted.                                       *)
LEMMA SpendType ==
  ASSUME TypeOK, NEW k \in Budgeted, Spend(k)
  PROVE  spent' \in [Budgeted -> Nat]
BY DEF TypeOK, Spend

(* A broadcast reaches tasks of Actions only.                              *)
LEMMA PublishType ==
  ASSUME Publish, woken \in SUBSET Actions
  PROVE  woken' \in SUBSET Actions
BY DEF Publish

(* Whatever a Turn ends with, and also if it is over already, its task     *)
(* goes on to finish the attempt.                                          *)
LEMMA EndTurnType ==
  ASSUME TypeOK, NEW a \in Actions,
         NEW s \in {"Completed", "Cancelled", "Interrupted", "Failed"},
         EndTurn(a, s), UNCHANGED <<calls, spent>>
  PROVE  TypeOK'
<1> USE DEF rows, turns, calls, Settled, Unstarted, Pending, ActiveTurn, InTurn,
            Ended, Places, Budgeted, TypeOK
<1>1. woken' \in SUBSET Actions
  BY PublishType DEF EndTurn
<1>2. turn' \in [Actions -> {"None", "Interrupted"} \cup ActiveTurn \cup Settled]
  BY DEF EndTurn
<1>3. PICK result \in {"Completed", "Cancelled", "Interrupted", "Failed"} :
         Leave(a, result)
  BY DEF EndTurn
<1>4. QED
  BY <1>1, <1>2, <1>3 DEF Leave, Go

(* Every step keeps the types.                                             *)
LEMMA TypeStep ==
  ASSUME TypeOK, Next
  PROVE  TypeOK'
<1> USE RunnerAssumption
     DEF rows, turns, calls, Settled, Unstarted, Pending, ActiveTurn, InTurn, Ended,
         Places, Budgeted, TypeOK
<1>1. CASE RunnerStart
  BY <1>1 DEF RunnerStart
<1>2. CASE RunnerSpawn
  BY <1>2 DEF RunnerSpawn, Spawn, FirstPending, Earlier, Siblings, Busy
<1>3. CASE RunnerBreak
  BY <1>3 DEF RunnerBreak, Spawned
<1>4. CASE RunnerDrained
  BY <1>4 DEF RunnerDrained, Spawned
<1>5. CASE SettleDone
  BY <1>5 DEF SettleDone, Spawned
<1>6. CASE Pause
  <2>1. spent' \in [Budgeted -> Nat]
    BY <1>6, SpendType DEF Pause, TypeOK
  <2>2. QED
    BY <1>6, <2>1 DEF Pause, Spend, Publish
<1>7. CASE Resume
  BY <1>7 DEF Resume, Publish
<1>8. CASE Close
  BY <1>8 DEF Close, Publish
<1>9. CASE CancelRun
  BY <1>9 DEF CancelRun, Spawned
<1>10. CASE CloseFailed
  BY <1>10 DEF CloseFailed, Publish
<1>11. CASE End
  BY <1>11 DEF End, Publish
<1>12. CASE OtherEvent
  BY <1>12 DEF OtherEvent, Publish
<1>13. CASE Crash
  <2>1. spent' \in [Budgeted -> Nat]
    BY <1>13, SpendType DEF Crash, TypeOK
  <2>2. QED
    BY <1>13, <2>1 DEF Crash, Spend
<1>14. ASSUME NEW a \in Actions, RunnerJoin(a) PROVE TypeOK'
  BY <1>14 DEF RunnerJoin, Go
<1>15. ASSUME NEW a \in Actions, RunnerJoinError(a) PROVE TypeOK'
  BY <1>15 DEF RunnerJoinError, RunnerFail
<1>16. ASSUME NEW a \in Actions, SettlePending(a) PROVE TypeOK'
  BY <1>16 DEF SettlePending, Spawned, Publish, CancelPending
<1>17. ASSUME NEW a \in Actions, SettleLook(a) PROVE TypeOK'
  BY <1>17 DEF SettleLook, Spawned, Go
<1>18. ASSUME NEW a \in Actions, SettleTurn(a) PROVE TypeOK'
  <2>1. turn' \in [Actions -> {"None", "Interrupted"} \cup ActiveTurn \cup Settled]
    BY <1>18 DEF SettleTurn
  <2>2. woken' \in SUBSET Actions
    BY <1>18, PublishType DEF SettleTurn
  <2>3. task' \in [Actions -> Places] /\ turnToken' \in SUBSET Actions
    BY <1>18 DEF SettleTurn, Go
  <2>4. QED
    BY <1>18, <2>1, <2>2, <2>3 DEF SettleTurn
<1>19. ASSUME NEW a \in Actions, SettleTurnError(a) PROVE TypeOK'
  BY <1>19 DEF SettleTurnError, RunnerFail
<1>20. ASSUME NEW a \in Actions, SettleFinish(a) PROVE TypeOK'
  BY <1>20 DEF SettleFinish, Publish, Go, CanFinish, FinishAction
<1>21. ASSUME NEW a \in Actions, TaskRead(a) PROVE TypeOK'
  BY <1>21 DEF TaskRead, Go
<1>22. ASSUME NEW a \in Actions, TaskBarred(a) PROVE TypeOK'
  BY <1>22 DEF TaskBarred, Go, Barred
<1>23. ASSUME NEW a \in Actions, TaskGate(a) PROVE TypeOK'
  BY <1>23 DEF TaskGate, Go, Barred
<1>24. ASSUME NEW a \in Actions, TaskReopen(a) PROVE TypeOK'
  BY <1>24 DEF TaskReopen, Go
<1>25. ASSUME NEW a \in Actions, TaskStart(a) PROVE TypeOK'
  BY <1>25 DEF TaskStart, Publish, Go, CanStart
<1>26. ASSUME NEW a \in Actions, TaskStartError(a) PROVE TypeOK'
  BY <1>26 DEF TaskStartError, Go, CanStart
<1>27. ASSUME NEW a \in Actions, TaskPrepare(a) PROVE TypeOK'
  <2>1. turn' \in [Actions -> {"None", "Interrupted"} \cup ActiveTurn \cup Settled]
    BY <1>27 DEF TaskPrepare
  <2>2. task' \in [Actions -> Places] /\ outcome' \in [Actions -> {"None",
  "Interrupted"} \cup Settled]
    BY <1>27 DEF TaskPrepare, Go
  <2>3. woken' \in SUBSET Actions
    BY <1>27 DEF TaskPrepare, Publish
  <2>4. QED
    BY <1>27, <2>1, <2>2, <2>3 DEF TaskPrepare
<1>28. ASSUME NEW a \in Actions, TaskFinish(a) PROVE TypeOK'
  BY <1>28 DEF TaskFinish, Publish, Go, CanFinish, FinishAction, Verdict
<1>29. ASSUME NEW a \in Actions, TaskWithdraw(a) PROVE TypeOK'
  <2>1. woken' \in SUBSET Actions
    BY <1>29, PublishType DEF TaskWithdraw, CancelPending
  <2>2. /\ action' \in [Actions -> {"None"} \cup Pending \cup Settled]
        /\ interrupt' \in SUBSET Actions
    <3>1. CASE action[a] \in Unstarted
      <4>1. action' \in [Actions -> {"None"} \cup Pending \cup Settled]
        BY <1>29, <3>1 DEF TaskWithdraw, CancelPending
      <4>2. interrupt' \in SUBSET Actions
        BY <1>29, <3>1 DEF TaskWithdraw, CancelPending
      <4>3. QED
        BY <4>1, <4>2
    <3>2. CASE action[a] \notin Unstarted
      BY <1>29, <3>2 DEF TaskWithdraw
    <3>3. QED
      BY <3>1, <3>2
  <2>3. attempt' = attempt /\ turn' = turn
    BY <1>29 DEF TaskWithdraw, CancelPending
  <2>4. task' \in [Actions -> Places]
    BY <1>29 DEF TaskWithdraw, Go
  <2>5. QED
    BY <1>29, <2>1, <2>2, <2>3, <2>4 DEF TaskWithdraw
<1>30. ASSUME NEW a \in Actions, TurnTrack(a) PROVE TypeOK'
  BY <1>30 DEF TurnTrack, Go
<1>31. ASSUME NEW a \in Actions, TurnEnter(a) PROVE TypeOK'
  BY <1>31 DEF TurnEnter, Publish, Go
<1>32. ASSUME NEW a \in Actions, TurnEnterCancelled(a) PROVE TypeOK'
  BY <1>32 DEF TurnEnterCancelled, Leave, Go
<1>33. ASSUME NEW a \in Actions, TurnTop(a) PROVE TypeOK'
  BY <1>33 DEF TurnTop, Stopped, Step, Go
<1>34. ASSUME NEW a \in Actions, TurnCheckpoint(a) PROVE TypeOK'
  BY <1>34 DEF TurnCheckpoint, Step, Go
<1>35. ASSUME NEW a \in Actions, TurnPause(a) PROVE TypeOK'
  <2>1. task' \in [Actions -> Places]
    BY <1>35 DEF TurnPause, Go
  <2>2. turn' \in [Actions -> {"None", "Interrupted"} \cup ActiveTurn \cup Settled]
    BY <1>35 DEF TurnPause
  <2>3. woken' \in SUBSET Actions
    BY <1>35, PublishType DEF TurnPause
  <2>4. QED
    BY <1>35, <2>1, <2>2, <2>3 DEF TurnPause
<1>36. ASSUME NEW a \in Actions, TurnWake(a) PROVE TypeOK'
  BY <1>36 DEF TurnWake, Step, Go
<1>37. ASSUME NEW a \in Actions, TurnPausedStopped(a) PROVE TypeOK'
  BY <1>37 DEF TurnPausedStopped, Stopped, Step, Go
<1>38. ASSUME NEW a \in Actions, TurnClaim(a) PROVE TypeOK'
  BY <1>38 DEF TurnClaim, Publish, Go
<1>39. ASSUME NEW a \in Actions, WorkOn(a) PROVE TypeOK'
  BY <1>39 DEF WorkOn, Publish, Step, Go, Calls
<1>40. ASSUME NEW a \in Actions, WorkAnswer(a) PROVE TypeOK'
  BY <1>40 DEF WorkAnswer, Publish, Go, Calls
<1>41. ASSUME NEW a \in Actions, WorkStopped(a) PROVE TypeOK'
  BY <1>41 DEF WorkStopped, Go, Stopped, Calls
<1>42. ASSUME NEW a \in Actions, TurnComplete(a) PROVE TypeOK'
  BY <1>42, EndTurnType DEF TurnComplete
<1>43. ASSUME NEW a \in Actions, TurnCancel(a) PROVE TypeOK'
  <2>1. CASE turn[a] = "Cancelled"
    <3>1. Leave(a, "Cancelled") /\ UNCHANGED <<turn, woken, calls, spent>>
      BY <1>43, <2>1 DEF TurnCancel
    <3>2. task' \in [Actions -> Places]
      BY <3>1 DEF Leave, Go
    <3>3. outcome' \in [Actions -> {"None", "Interrupted"} \cup Settled]
      BY <3>1 DEF Leave
    <3>4. QED
      BY <3>1, <3>2, <3>3 DEF Leave
  <2>2. CASE turn[a] # "Cancelled"
    BY <1>43, <2>2, EndTurnType DEF TurnCancel
  <2>3. QED
    BY <2>1, <2>2
<1>44. ASSUME NEW a \in Actions, TurnInterrupt(a) PROVE TypeOK'
  BY <1>44, EndTurnType DEF TurnInterrupt
<1>45. ASSUME NEW a \in Actions, TurnFail(a) PROVE TypeOK'
  BY <1>45, EndTurnType DEF TurnFail
<1>46. ASSUME NEW a \in Actions, TaskPrepareError(a) PROVE TypeOK'
  BY <1>46 DEF TaskPrepareError, Spend, Go
<1>47. ASSUME NEW a \in Actions, TurnEnterError(a) PROVE TypeOK'
  <2>1. spent' \in [Budgeted -> Nat]
    BY <1>47, SpendType DEF TurnEnterError
  <2>2. turn' \in [Actions -> {"None", "Interrupted"} \cup ActiveTurn \cup Settled]
    BY <1>47 DEF TurnEnterError
  <2>3. QED
    BY <1>47, <2>1, <2>2 DEF TurnEnterError, Publish, Leave, Go
<1>48. ASSUME NEW a \in Actions, WorkError(a) PROVE TypeOK'
  BY <1>48 DEF WorkError, Spend, Go, Calls
<1>49. ASSUME NEW a \in Actions, Invoke(a) PROVE TypeOK'
  BY <1>49 DEF Invoke, Earlier, Siblings, Publish
<1>50. ASSUME NEW a \in Actions, HumanInterrupt(a) PROVE TypeOK'
  <2>1. spent' \in [Budgeted -> Nat]
    BY <1>50, SpendType DEF HumanInterrupt, TypeOK
  <2>2. QED
    BY <1>50, <2>1 DEF HumanInterrupt, Spend, Publish
<1>51. ASSUME NEW a \in Actions, KillRunning(a) PROVE TypeOK'
  BY <1>51 DEF KillRunning
<1>52. ASSUME NEW a \in Actions, CancelTurn(a) PROVE TypeOK'
  <2>1. spent' \in [Budgeted -> Nat]
    BY <1>52, SpendType DEF CancelTurn
  <2>2. turnToken' \in SUBSET Actions /\ unsent' \in SUBSET Actions
    <3>1. turnToken \in SUBSET Actions /\ unsent \in SUBSET Actions
      BY DEF TypeOK
    <3>2. \/ turnToken' = turnToken \cup {a} /\ unsent' = unsent
          \/ turnToken' = turnToken /\ unsent' = unsent \cup {a}
      BY <1>52 DEF CancelTurn
    <3>3. QED
      BY <1>52, <3>1, <3>2
  <2>3. QED
    BY <1>52, <2>1, <2>2 DEF CancelTurn
<1>53. ASSUME NEW a \in Actions, CancelTurnRow(a) PROVE TypeOK'
  <2>1. turn' \in [Actions -> {"None", "Interrupted"} \cup ActiveTurn \cup Settled]
    BY <1>53 DEF CancelTurnRow
  <2>2. woken' \in SUBSET Actions /\ unsent' \in SUBSET Actions
    BY <1>53, PublishType DEF CancelTurnRow
  <2>3. QED
    BY <1>53, <2>1, <2>2 DEF CancelTurnRow
<1>54. ASSUME NEW g \in Agents, InterruptAgent(g) PROVE TypeOK'
  <2>1. spent' \in [Budgeted -> Nat]
    BY <1>54, SpendType DEF InterruptAgent
  <2>2. action' \in [Actions -> {"None"} \cup Pending \cup Settled]
    BY <1>54 DEF InterruptAgent
  <2>3. interrupt' \in SUBSET Actions /\ kill' \in SUBSET Actions
    BY <1>54 DEF InterruptAgent
  <2>4. woken' \in SUBSET Actions
    BY <1>54 DEF InterruptAgent, Publish
  <2>5. QED
    BY <1>54, <2>1, <2>2, <2>3, <2>4 DEF InterruptAgent
<1>55. QED
  BY <1>1, <1>2, <1>3, <1>4, <1>5, <1>6, <1>7, <1>8, <1>9, <1>10, <1>11,
     <1>12, <1>13, <1>14, <1>15, <1>16, <1>17, <1>18, <1>19, <1>20, <1>21,
     <1>22, <1>23, <1>24, <1>25, <1>26, <1>27, <1>28, <1>29, <1>30, <1>31,
     <1>32, <1>33, <1>34, <1>35, <1>36, <1>37, <1>38, <1>39, <1>40, <1>41,
     <1>42, <1>43, <1>44, <1>45, <1>46, <1>47, <1>48, <1>49, <1>50, <1>51,
     <1>52, <1>53, <1>54
  DEF Next, Runner, Task, Turn, Faults, Others

(* Every step keeps the queue of an Agent: attempts belong to the one task *)
(* of the Agent, and Actions start in order. RunnerSpawn needs that the    *)
(* earlier Actions exist, TaskFinish and SettleFinish that their Action is *)
(* Running.                                                                *)
LEMMA QueueingStep ==
  ASSUME TypeOK, Queueing, Next
  PROVE  Queueing'
<1> USE RunnerAssumption
     DEF rows, turns, calls, Settled, Unstarted, Pending, ActiveTurn, InTurn, Ended,
         Places, TypeOK, Queueing, AttemptFollows, AttemptsAreOwned, OnAttempt,
         OneTaskPerAgent, InOrder, VerdictsAreKnown, Siblings, Earlier
<1>1. CASE RunnerStart
  BY <1>1 DEF RunnerStart
<1>2. CASE RunnerSpawn
  <2>1. /\ UNCHANGED <<action, attempt, outcome>>
        /\ \A a \in Actions : task'[a] = IF a \in Spawn THEN "read" ELSE task[a]
    BY <1>2 DEF RunnerSpawn
  <2>2. \A a \in Spawn : /\ a \in Actions /\ action[a] \in Pending
                         /\ \A b \in Earlier(a) : action[b] \notin Pending
                         /\ \A b \in Siblings(a) : task[b] = "none"
    BY DEF Spawn, FirstPending, Busy
  <2>3. AttemptFollows' /\ AttemptsAreOwned' /\ VerdictsAreKnown'
    BY <2>1, <2>2
  <2>4. InOrder'
    <3>1. \A a \in Spawn : \A b \in Earlier(a) : action[b] \in Settled
      BY <2>2
    <3>2. QED
      BY <2>1, <3>1
  <2>5. OneTaskPerAgent'
    <3>1. ASSUME NEW a \in Spawn, NEW b \in Spawn, AgentOf[a] = AgentOf[b]
          PROVE  a = b
      <4>1. a \in Nat /\ b \in Nat
        BY <2>2
      <4>2. ~(a < b) /\ ~(b < a)
        BY <2>2, <3>1
      <4>3. QED
        BY <4>1, <4>2
    <3>2. \A a \in Spawn, b \in Actions : AgentOf[a] = AgentOf[b] => task[b] = "none"
      BY <2>2
    <3>3. QED
      BY <2>1, <3>1, <3>2
  <2>6. QED
    BY <2>3, <2>4, <2>5
<1>3. CASE RunnerBreak
  BY <1>3 DEF RunnerBreak, Spawned
<1>4. CASE RunnerDrained
  BY <1>4 DEF RunnerDrained, Spawned
<1>5. CASE SettleDone
  BY <1>5 DEF SettleDone, Spawned
<1>6. CASE Pause
  BY <1>6 DEF Pause
<1>7. CASE Resume
  BY <1>7 DEF Resume
<1>8. CASE Close
  BY <1>8 DEF Close
<1>9. CASE CancelRun
  BY <1>9 DEF CancelRun, Spawned
<1>10. CASE CloseFailed
  BY <1>10 DEF CloseFailed
<1>11. CASE End
  BY <1>11 DEF End
<1>12. CASE OtherEvent
  BY <1>12 DEF OtherEvent
<1>13. CASE Crash
  BY <1>13 DEF Crash
<1>14. ASSUME NEW a \in Actions, RunnerJoin(a) PROVE Queueing'
  BY <1>14 DEF RunnerJoin, Go
<1>15. ASSUME NEW a \in Actions, RunnerJoinError(a) PROVE Queueing'
  BY <1>15 DEF RunnerJoinError, RunnerFail
<1>16. ASSUME NEW a \in Actions, SettlePending(a) PROVE Queueing'
  BY <1>16 DEF SettlePending, Spawned, CancelPending
<1>17. ASSUME NEW a \in Actions, SettleLook(a) PROVE Queueing'
  BY <1>17 DEF SettleLook, Spawned, Go
<1>18. ASSUME NEW a \in Actions, SettleTurn(a) PROVE Queueing'
  <2>1. CASE a \in active
    BY <1>18, <2>1 DEF SettleTurn, Go
  <2>2. CASE ~(a \in active)
    BY <1>18, <2>2 DEF SettleTurn, Go
  <2>3. QED
    BY <2>1, <2>2
<1>19. ASSUME NEW a \in Actions, SettleTurnError(a) PROVE Queueing'
  BY <1>19 DEF SettleTurnError, RunnerFail
<1>20. ASSUME NEW a \in Actions, SettleFinish(a) PROVE Queueing'
  <2>1. /\ action' = [action EXCEPT ![a] = outcome[a]]
        /\ attempt' = [attempt EXCEPT ![a] = outcome[a]]
        /\ task' = [task EXCEPT ![a] = "none"]
        /\ action[a] = "Running"
        /\ outcome[a] \in Settled
    BY <1>20 DEF SettleFinish, FinishAction, Go
  <2>2. AttemptFollows' /\ AttemptsAreOwned'
    BY <2>1
  <2>3. OneTaskPerAgent'
    <3>1. \A b \in Actions : task'[b] # "none" => task[b] # "none"
      BY <2>1
    <3>2. QED
      BY <3>1
  <2>4. InOrder'
    BY <2>1
  <2>5. VerdictsAreKnown'
    BY <1>20, <2>1 DEF SettleFinish
  <2>6. QED
    BY <2>2, <2>3, <2>4, <2>5
<1>21. ASSUME NEW a \in Actions, TaskRead(a) PROVE Queueing'
  BY <1>21 DEF TaskRead, Go
<1>22. ASSUME NEW a \in Actions, TaskBarred(a) PROVE Queueing'
  BY <1>22 DEF TaskBarred, Go, Barred
<1>23. ASSUME NEW a \in Actions, TaskGate(a) PROVE Queueing'
  BY <1>23 DEF TaskGate, Go, Barred
<1>24. ASSUME NEW a \in Actions, TaskReopen(a) PROVE Queueing'
  BY <1>24 DEF TaskReopen, Go
<1>25. ASSUME NEW a \in Actions, TaskStart(a) PROVE Queueing'
  <2>1. /\ action' = [action EXCEPT ![a] = "Running"]
        /\ attempt' = [attempt EXCEPT ![a] = "Running"]
        /\ task' = [task EXCEPT ![a] = "prepare"]
        /\ outcome' = outcome
        /\ task[a] = "start" /\ action[a] \in Unstarted
    BY <1>25 DEF TaskStart, Go, CanStart
  <2>2. AttemptFollows' /\ AttemptsAreOwned' /\ VerdictsAreKnown'
    BY <2>1
  <2>3. OneTaskPerAgent'
    <3>1. \A b \in Actions : task'[b] # "none" => task[b] # "none"
      BY <2>1
    <3>2. QED
      BY <3>1
  <2>4. InOrder'
    <3>1. SUFFICES ASSUME NEW b \in Actions, NEW c \in Earlier(b)
                   PROVE  /\ action'[b] # "None" => action'[c] # "None"
                          /\ task'[b] # "none" \/ action'[b] \in {"Running", "Interrupted"}
                               => action'[c] \in Settled
      OBVIOUS
    <3>2. CASE b = a
      BY <2>1, <3>2
    <3>3. CASE b # a
      BY <2>1, <3>3
    <3>4. QED
      BY <3>2, <3>3
  <2>5. QED
    BY <2>2, <2>3, <2>4
<1>26. ASSUME NEW a \in Actions, TaskStartError(a) PROVE Queueing'
  BY <1>26 DEF TaskStartError, Go, CanStart
<1>27. ASSUME NEW a \in Actions, TaskPrepare(a) PROVE Queueing'
  BY <1>27 DEF TaskPrepare, Go
<1>28. ASSUME NEW a \in Actions, TaskFinish(a) PROVE Queueing'
  <2>1. CASE CanFinish(a, Verdict(a))
    <3>1. /\ Verdict(a) \in {"Interrupted"} \cup Settled
          /\ action' = [action EXCEPT ![a] = Verdict(a)]
          /\ attempt' = [attempt EXCEPT ![a] = Verdict(a)]
      BY <1>28, <2>1 DEF TaskFinish, FinishAction, Verdict
    <3>2. PICK p \in {"ok", "withdraw", "gate"} : task' = [task EXCEPT ![a] = p]
      BY <1>28, <2>1 DEF TaskFinish, Go
    <3>3. QED
      BY <1>28, <3>1, <3>2 DEF TaskFinish
  <2>2. CASE ~CanFinish(a, Verdict(a))
    BY <1>28, <2>2 DEF TaskFinish, Go
  <2>3. QED
    BY <2>1, <2>2
<1>29. ASSUME NEW a \in Actions, TaskWithdraw(a) PROVE Queueing'
  <2>1. CASE action[a] \in Unstarted
    <3>1. action' = [action EXCEPT ![a] = "Cancelled"]
      BY <1>29, <2>1 DEF TaskWithdraw, CancelPending
    <3>2. QED
      BY <1>29, <2>1, <3>1 DEF TaskWithdraw, CancelPending, Go
  <2>2. CASE action[a] \notin Unstarted
    BY <1>29, <2>2 DEF TaskWithdraw, Go
  <2>3. QED
    BY <2>1, <2>2
<1>30. ASSUME NEW a \in Actions, TurnTrack(a) PROVE Queueing'
  BY <1>30 DEF TurnTrack, Go
<1>31. ASSUME NEW a \in Actions, TurnEnter(a) PROVE Queueing'
  BY <1>31 DEF TurnEnter, Go
<1>32. ASSUME NEW a \in Actions, TurnEnterCancelled(a) PROVE Queueing'
  BY <1>32 DEF TurnEnterCancelled, Leave, Go
<1>33. ASSUME NEW a \in Actions, TurnTop(a) PROVE Queueing'
  BY <1>33 DEF TurnTop, Step, Go
<1>34. ASSUME NEW a \in Actions, TurnCheckpoint(a) PROVE Queueing'
  BY <1>34 DEF TurnCheckpoint, Step, Go
<1>35. ASSUME NEW a \in Actions, TurnPause(a) PROVE Queueing'
  BY <1>35 DEF TurnPause, Go
<1>36. ASSUME NEW a \in Actions, TurnWake(a) PROVE Queueing'
  <2>1. /\ UNCHANGED <<action, attempt, outcome>>
        /\ task[a] = "paused"
        /\ task' = [task EXCEPT ![a] = "checkpoint"]
    BY <1>36 DEF TurnWake, Step, Go
  <2>2. QED
    BY <2>1
<1>37. ASSUME NEW a \in Actions, TurnPausedStopped(a) PROVE Queueing'
  BY <1>37 DEF TurnPausedStopped, Step, Go
<1>38. ASSUME NEW a \in Actions, TurnClaim(a) PROVE Queueing'
  BY <1>38 DEF TurnClaim, Go
<1>39. ASSUME NEW a \in Actions, WorkOn(a) PROVE Queueing'
  BY <1>39 DEF WorkOn, Step, Go
<1>40. ASSUME NEW a \in Actions, WorkAnswer(a) PROVE Queueing'
  BY <1>40 DEF WorkAnswer, Go
<1>41. ASSUME NEW a \in Actions, WorkStopped(a) PROVE Queueing'
  BY <1>41 DEF WorkStopped, Go
<1>42. ASSUME NEW a \in Actions, TurnComplete(a) PROVE Queueing'
  BY <1>42 DEF TurnComplete, EndTurn, Leave, Go
<1>43. ASSUME NEW a \in Actions, TurnCancel(a) PROVE Queueing'
  BY <1>43 DEF TurnCancel, Leave, Go, EndTurn
<1>44. ASSUME NEW a \in Actions, TurnInterrupt(a) PROVE Queueing'
  BY <1>44 DEF TurnInterrupt, EndTurn, Leave, Go
<1>45. ASSUME NEW a \in Actions, TurnFail(a) PROVE Queueing'
  BY <1>45 DEF TurnFail, EndTurn, Leave, Go
<1>46. ASSUME NEW a \in Actions, TaskPrepareError(a) PROVE Queueing'
  <2>1. /\ UNCHANGED <<action, attempt>>
        /\ task[a] = "prepare"
        /\ task' = [task EXCEPT ![a] = "finish"]
        /\ outcome' = [outcome EXCEPT ![a] = "Failed"]
    BY <1>46 DEF TaskPrepareError, Go
  <2>2. AttemptFollows' /\ AttemptsAreOwned'
    BY <2>1
  <2>3. \A b \in Actions : task'[b] # "none" => task[b] # "none"
    BY <2>1
  <2>4. OneTaskPerAgent'
    BY <2>3
  <2>5. InOrder'
    BY <2>1, <2>3
  <2>6. VerdictsAreKnown'
    BY <2>1
  <2>7. QED
    BY <2>2, <2>4, <2>5, <2>6
<1>47. ASSUME NEW a \in Actions, TurnEnterError(a) PROVE Queueing'
  BY <1>47 DEF TurnEnterError, Leave, Go
<1>48. ASSUME NEW a \in Actions, WorkError(a) PROVE Queueing'
  <2>1. /\ UNCHANGED <<action, attempt, outcome>>
        /\ task[a] = "work"
        /\ task' = [task EXCEPT ![a] = "fail"]
    BY <1>48 DEF WorkError, Go
  <2>2. QED
    BY <2>1
<1>49. ASSUME NEW a \in Actions, Invoke(a) PROVE Queueing'
  <2>1. AttemptFollows'
    BY <1>49 DEF Invoke
  <2>2. AttemptsAreOwned'
    BY <1>49 DEF Invoke
  <2>3. OneTaskPerAgent'
    BY <1>49 DEF Invoke
  <2>4. InOrder'
    BY <1>49 DEF Invoke
  <2>5. VerdictsAreKnown'
    BY <1>49 DEF Invoke
  <2>6. QED
    BY <2>1, <2>2, <2>3, <2>4, <2>5
<1>50. ASSUME NEW a \in Actions, HumanInterrupt(a) PROVE Queueing'
  BY <1>50 DEF HumanInterrupt
<1>51. ASSUME NEW a \in Actions, KillRunning(a) PROVE Queueing'
  BY <1>51 DEF KillRunning
<1>52. ASSUME NEW a \in Actions, CancelTurn(a) PROVE Queueing'
  BY <1>52 DEF CancelTurn
<1>53. ASSUME NEW a \in Actions, CancelTurnRow(a) PROVE Queueing'
  BY <1>53 DEF CancelTurnRow
<1>54. ASSUME NEW g \in Agents, InterruptAgent(g) PROVE Queueing'
  BY <1>54 DEF InterruptAgent
<1>55. QED
  BY <1>1, <1>2, <1>3, <1>4, <1>5, <1>6, <1>7, <1>8, <1>9, <1>10, <1>11,
     <1>12, <1>13, <1>14, <1>15, <1>16, <1>17, <1>18, <1>19, <1>20, <1>21,
     <1>22, <1>23, <1>24, <1>25, <1>26, <1>27, <1>28, <1>29, <1>30, <1>31,
     <1>32, <1>33, <1>34, <1>35, <1>36, <1>37, <1>38, <1>39, <1>40, <1>41,
     <1>42, <1>43, <1>44, <1>45, <1>46, <1>47, <1>48, <1>49, <1>50, <1>51,
     <1>52, <1>53, <1>54
  DEF Next, Runner, Task, Turn, Faults, Others

(* Every step keeps the order of the end: Closing is stored, the tasks are *)
(* joined, what is left is settled, the Session ends.                      *)
LEMMA EndingStep ==
  ASSUME TypeOK, Queueing, Ending, Next
  PROVE  Ending'
<1> USE RunnerAssumption
     DEF rows, turns, calls, Settled, Unstarted, Pending, ActiveTurn, InTurn, Ended,
         Places, TypeOK, Queueing, AttemptFollows, AttemptsAreOwned, OnAttempt,
         VerdictsAreKnown, Ending, TasksAreJoined, EndsInOrder
<1>1. CASE RunnerStart
  BY <1>1 DEF RunnerStart
<1>2. CASE RunnerSpawn
  BY <1>2 DEF RunnerSpawn, Spawn, FirstPending, Earlier, Siblings, Busy
<1>3. CASE RunnerBreak
  BY <1>3 DEF RunnerBreak, Spawned
<1>4. CASE RunnerDrained
  BY <1>4 DEF RunnerDrained, Spawned
<1>5. CASE SettleDone
  BY <1>5 DEF SettleDone, Spawned
<1>6. CASE Pause
  BY <1>6 DEF Pause
<1>7. CASE Resume
  BY <1>7 DEF Resume
<1>8. CASE Close
  BY <1>8 DEF Close
<1>9. CASE CancelRun
  BY <1>9 DEF CancelRun, Spawned
<1>10. CASE CloseFailed
  BY <1>10 DEF CloseFailed
<1>11. CASE End
  BY <1>11 DEF End
<1>12. CASE OtherEvent
  BY <1>12 DEF OtherEvent
<1>13. CASE Crash
  BY <1>13 DEF Crash
<1>14. ASSUME NEW a \in Actions, RunnerJoin(a) PROVE Ending'
  BY <1>14 DEF RunnerJoin, Go
<1>15. ASSUME NEW a \in Actions, RunnerJoinError(a) PROVE Ending'
  BY <1>15 DEF RunnerJoinError, RunnerFail
<1>16. ASSUME NEW a \in Actions, SettlePending(a) PROVE Ending'
  BY <1>16 DEF SettlePending, Spawned, CancelPending
<1>17. ASSUME NEW a \in Actions, SettleLook(a) PROVE Ending'
  BY <1>17 DEF SettleLook, Spawned, Go
<1>18. ASSUME NEW a \in Actions, SettleTurn(a) PROVE Ending'
  BY <1>18 DEF SettleTurn, Go
<1>19. ASSUME NEW a \in Actions, SettleTurnError(a) PROVE Ending'
  BY <1>19 DEF SettleTurnError, RunnerFail
<1>20. ASSUME NEW a \in Actions, SettleFinish(a) PROVE Ending'
  BY <1>20 DEF SettleFinish, Go, CanFinish, FinishAction
<1>21. ASSUME NEW a \in Actions, TaskRead(a) PROVE Ending'
  BY <1>21 DEF TaskRead, Go
<1>22. ASSUME NEW a \in Actions, TaskBarred(a) PROVE Ending'
  BY <1>22 DEF TaskBarred, Go, Barred
<1>23. ASSUME NEW a \in Actions, TaskGate(a) PROVE Ending'
  BY <1>23 DEF TaskGate, Go, Barred
<1>24. ASSUME NEW a \in Actions, TaskReopen(a) PROVE Ending'
  BY <1>24 DEF TaskReopen, Go
<1>25. ASSUME NEW a \in Actions, TaskStart(a) PROVE Ending'
  BY <1>25 DEF TaskStart, Go, CanStart
<1>26. ASSUME NEW a \in Actions, TaskStartError(a) PROVE Ending'
  BY <1>26 DEF TaskStartError, Go, CanStart
<1>27. ASSUME NEW a \in Actions, TaskPrepare(a) PROVE Ending'
  BY <1>27 DEF TaskPrepare, Siblings, Go
<1>28. ASSUME NEW a \in Actions, TaskFinish(a) PROVE Ending'
  BY <1>28 DEF TaskFinish, Go, CanFinish, FinishAction, Verdict
<1>29. ASSUME NEW a \in Actions, TaskWithdraw(a) PROVE Ending'
  BY <1>29 DEF TaskWithdraw, Go, CancelPending
<1>30. ASSUME NEW a \in Actions, TurnTrack(a) PROVE Ending'
  BY <1>30 DEF TurnTrack, Go
<1>31. ASSUME NEW a \in Actions, TurnEnter(a) PROVE Ending'
  BY <1>31 DEF TurnEnter, Go
<1>32. ASSUME NEW a \in Actions, TurnEnterCancelled(a) PROVE Ending'
  BY <1>32 DEF TurnEnterCancelled, Leave, Go
<1>33. ASSUME NEW a \in Actions, TurnTop(a) PROVE Ending'
  BY <1>33 DEF TurnTop, Step, Go
<1>34. ASSUME NEW a \in Actions, TurnCheckpoint(a) PROVE Ending'
  BY <1>34 DEF TurnCheckpoint, Step, Go
<1>35. ASSUME NEW a \in Actions, TurnPause(a) PROVE Ending'
  BY <1>35 DEF TurnPause, Go
<1>36. ASSUME NEW a \in Actions, TurnWake(a) PROVE Ending'
  BY <1>36 DEF TurnWake, Step, Go
<1>37. ASSUME NEW a \in Actions, TurnPausedStopped(a) PROVE Ending'
  BY <1>37 DEF TurnPausedStopped, Step, Go
<1>38. ASSUME NEW a \in Actions, TurnClaim(a) PROVE Ending'
  BY <1>38 DEF TurnClaim, Go
<1>39. ASSUME NEW a \in Actions, WorkOn(a) PROVE Ending'
  BY <1>39 DEF WorkOn, Step, Go
<1>40. ASSUME NEW a \in Actions, WorkAnswer(a) PROVE Ending'
  BY <1>40 DEF WorkAnswer, Go
<1>41. ASSUME NEW a \in Actions, WorkStopped(a) PROVE Ending'
  BY <1>41 DEF WorkStopped, Go
<1>42. ASSUME NEW a \in Actions, TurnComplete(a) PROVE Ending'
  BY <1>42 DEF TurnComplete, EndTurn, Leave, Go
<1>43. ASSUME NEW a \in Actions, TurnCancel(a) PROVE Ending'
  BY <1>43 DEF TurnCancel, Leave, Go, EndTurn
<1>44. ASSUME NEW a \in Actions, TurnInterrupt(a) PROVE Ending'
  BY <1>44 DEF TurnInterrupt, EndTurn, Leave, Go
<1>45. ASSUME NEW a \in Actions, TurnFail(a) PROVE Ending'
  BY <1>45 DEF TurnFail, EndTurn, Leave, Go
<1>46. ASSUME NEW a \in Actions, TaskPrepareError(a) PROVE Ending'
  BY <1>46 DEF TaskPrepareError, Go
<1>47. ASSUME NEW a \in Actions, TurnEnterError(a) PROVE Ending'
  BY <1>47 DEF TurnEnterError, Leave, Go
<1>48. ASSUME NEW a \in Actions, WorkError(a) PROVE Ending'
  BY <1>48 DEF WorkError, Go
<1>49. ASSUME NEW a \in Actions, Invoke(a) PROVE Ending'
  BY <1>49 DEF Invoke, Earlier, Siblings
<1>50. ASSUME NEW a \in Actions, HumanInterrupt(a) PROVE Ending'
  BY <1>50 DEF HumanInterrupt
<1>51. ASSUME NEW a \in Actions, KillRunning(a) PROVE Ending'
  BY <1>51 DEF KillRunning
<1>52. ASSUME NEW a \in Actions, CancelTurn(a) PROVE Ending'
  BY <1>52 DEF CancelTurn
<1>53. ASSUME NEW a \in Actions, CancelTurnRow(a) PROVE Ending'
  BY <1>53 DEF CancelTurnRow
<1>54. ASSUME NEW g \in Agents, InterruptAgent(g) PROVE Ending'
  BY <1>54 DEF InterruptAgent
<1>55. QED
  BY <1>1, <1>2, <1>3, <1>4, <1>5, <1>6, <1>7, <1>8, <1>9, <1>10, <1>11,
     <1>12, <1>13, <1>14, <1>15, <1>16, <1>17, <1>18, <1>19, <1>20, <1>21,
     <1>22, <1>23, <1>24, <1>25, <1>26, <1>27, <1>28, <1>29, <1>30, <1>31,
     <1>32, <1>33, <1>34, <1>35, <1>36, <1>37, <1>38, <1>39, <1>40, <1>41,
     <1>42, <1>43, <1>44, <1>45, <1>46, <1>47, <1>48, <1>49, <1>50, <1>51,
     <1>52, <1>53, <1>54
  DEF Next, Runner, Task, Turn, Faults, Others

(* Every step keeps results: only TurnComplete completes a Turn, and the   *)
(* task that does so, or finds it done, completes the Action.              *)
LEMMA ResultsStep ==
  ASSUME TypeOK, Queueing, Results, Next
  PROVE  Results'
<1> USE RunnerAssumption
     DEF rows, turns, calls, Settled, Unstarted, Pending, ActiveTurn, InTurn, Ended,
         Places, TypeOK, Queueing, AttemptFollows, AttemptsAreOwned, OnAttempt,
         VerdictsAreKnown, Results, OutcomesAreTrue, ResultsAreKept
<1>1. CASE RunnerStart
  BY <1>1 DEF RunnerStart
<1>2. CASE RunnerSpawn
  BY <1>2 DEF RunnerSpawn, Spawn, FirstPending, Earlier, Siblings, Busy
<1>3. CASE RunnerBreak
  BY <1>3 DEF RunnerBreak, Spawned
<1>4. CASE RunnerDrained
  BY <1>4 DEF RunnerDrained, Spawned
<1>5. CASE SettleDone
  BY <1>5 DEF SettleDone, Spawned
<1>6. CASE Pause
  BY <1>6 DEF Pause
<1>7. CASE Resume
  BY <1>7 DEF Resume
<1>8. CASE Close
  BY <1>8 DEF Close
<1>9. CASE CancelRun
  BY <1>9 DEF CancelRun, Spawned
<1>10. CASE CloseFailed
  BY <1>10 DEF CloseFailed
<1>11. CASE End
  BY <1>11 DEF End
<1>12. CASE OtherEvent
  BY <1>12 DEF OtherEvent
<1>13. CASE Crash
  BY <1>13 DEF Crash
<1>14. ASSUME NEW a \in Actions, RunnerJoin(a) PROVE Results'
  BY <1>14 DEF RunnerJoin, Go
<1>15. ASSUME NEW a \in Actions, RunnerJoinError(a) PROVE Results'
  BY <1>15 DEF RunnerJoinError, RunnerFail
<1>16. ASSUME NEW a \in Actions, SettlePending(a) PROVE Results'
  BY <1>16 DEF SettlePending, Spawned, CancelPending
<1>17. ASSUME NEW a \in Actions, SettleLook(a) PROVE Results'
  BY <1>17 DEF SettleLook, Spawned, Go
<1>18. ASSUME NEW a \in Actions, SettleTurn(a) PROVE Results'
  BY <1>18 DEF SettleTurn, Go
<1>19. ASSUME NEW a \in Actions, SettleTurnError(a) PROVE Results'
  BY <1>19 DEF SettleTurnError, RunnerFail
<1>20. ASSUME NEW a \in Actions, SettleFinish(a) PROVE Results'
  BY <1>20 DEF SettleFinish, Go, CanFinish, FinishAction
<1>21. ASSUME NEW a \in Actions, TaskRead(a) PROVE Results'
  BY <1>21 DEF TaskRead, Go
<1>22. ASSUME NEW a \in Actions, TaskBarred(a) PROVE Results'
  BY <1>22 DEF TaskBarred, Go, Barred
<1>23. ASSUME NEW a \in Actions, TaskGate(a) PROVE Results'
  BY <1>23 DEF TaskGate, Go, Barred
<1>24. ASSUME NEW a \in Actions, TaskReopen(a) PROVE Results'
  BY <1>24 DEF TaskReopen, Go
<1>25. ASSUME NEW a \in Actions, TaskStart(a) PROVE Results'
  BY <1>25 DEF TaskStart, Go, CanStart
<1>26. ASSUME NEW a \in Actions, TaskStartError(a) PROVE Results'
  BY <1>26 DEF TaskStartError, Go, CanStart
<1>27. ASSUME NEW a \in Actions, TaskPrepare(a) PROVE Results'
  BY <1>27 DEF TaskPrepare, Siblings, Go
<1>28. ASSUME NEW a \in Actions, TaskFinish(a) PROVE Results'
  BY <1>28 DEF TaskFinish, Go, CanFinish, FinishAction, Verdict
<1>29. ASSUME NEW a \in Actions, TaskWithdraw(a) PROVE Results'
  BY <1>29 DEF TaskWithdraw, Go, CancelPending
<1>30. ASSUME NEW a \in Actions, TurnTrack(a) PROVE Results'
  BY <1>30 DEF TurnTrack, Go
<1>31. ASSUME NEW a \in Actions, TurnEnter(a) PROVE Results'
  BY <1>31 DEF TurnEnter, Go
<1>32. ASSUME NEW a \in Actions, TurnEnterCancelled(a) PROVE Results'
  BY <1>32 DEF TurnEnterCancelled, Leave, Go
<1>33. ASSUME NEW a \in Actions, TurnTop(a) PROVE Results'
  BY <1>33 DEF TurnTop, Step, Go
<1>34. ASSUME NEW a \in Actions, TurnCheckpoint(a) PROVE Results'
  BY <1>34 DEF TurnCheckpoint, Step, Go
<1>35. ASSUME NEW a \in Actions, TurnPause(a) PROVE Results'
  BY <1>35 DEF TurnPause, Go
<1>36. ASSUME NEW a \in Actions, TurnWake(a) PROVE Results'
  BY <1>36 DEF TurnWake, Step, Go
<1>37. ASSUME NEW a \in Actions, TurnPausedStopped(a) PROVE Results'
  BY <1>37 DEF TurnPausedStopped, Step, Go
<1>38. ASSUME NEW a \in Actions, TurnClaim(a) PROVE Results'
  BY <1>38 DEF TurnClaim, Go
<1>39. ASSUME NEW a \in Actions, WorkOn(a) PROVE Results'
  BY <1>39 DEF WorkOn, Step, Go
<1>40. ASSUME NEW a \in Actions, WorkAnswer(a) PROVE Results'
  BY <1>40 DEF WorkAnswer, Go
<1>41. ASSUME NEW a \in Actions, WorkStopped(a) PROVE Results'
  BY <1>41 DEF WorkStopped, Go
<1>42. ASSUME NEW a \in Actions, TurnComplete(a) PROVE Results'
  BY <1>42 DEF TurnComplete, EndTurn, Leave, Go
<1>43. ASSUME NEW a \in Actions, TurnCancel(a) PROVE Results'
  BY <1>43 DEF TurnCancel, Leave, Go, EndTurn
<1>44. ASSUME NEW a \in Actions, TurnInterrupt(a) PROVE Results'
  BY <1>44 DEF TurnInterrupt, EndTurn, Leave, Go
<1>45. ASSUME NEW a \in Actions, TurnFail(a) PROVE Results'
  BY <1>45 DEF TurnFail, EndTurn, Leave, Go
<1>46. ASSUME NEW a \in Actions, TaskPrepareError(a) PROVE Results'
  BY <1>46 DEF TaskPrepareError, Go
<1>47. ASSUME NEW a \in Actions, TurnEnterError(a) PROVE Results'
  BY <1>47 DEF TurnEnterError, Leave, Go
<1>48. ASSUME NEW a \in Actions, WorkError(a) PROVE Results'
  BY <1>48 DEF WorkError, Go
<1>49. ASSUME NEW a \in Actions, Invoke(a) PROVE Results'
  BY <1>49 DEF Invoke, Earlier, Siblings
<1>50. ASSUME NEW a \in Actions, HumanInterrupt(a) PROVE Results'
  BY <1>50 DEF HumanInterrupt
<1>51. ASSUME NEW a \in Actions, KillRunning(a) PROVE Results'
  BY <1>51 DEF KillRunning
<1>52. ASSUME NEW a \in Actions, CancelTurn(a) PROVE Results'
  BY <1>52 DEF CancelTurn
<1>53. ASSUME NEW a \in Actions, CancelTurnRow(a) PROVE Results'
  BY <1>53 DEF CancelTurnRow
<1>54. ASSUME NEW g \in Agents, InterruptAgent(g) PROVE Results'
  BY <1>54 DEF InterruptAgent
<1>55. QED
  BY <1>1, <1>2, <1>3, <1>4, <1>5, <1>6, <1>7, <1>8, <1>9, <1>10, <1>11,
     <1>12, <1>13, <1>14, <1>15, <1>16, <1>17, <1>18, <1>19, <1>20, <1>21,
     <1>22, <1>23, <1>24, <1>25, <1>26, <1>27, <1>28, <1>29, <1>30, <1>31,
     <1>32, <1>33, <1>34, <1>35, <1>36, <1>37, <1>38, <1>39, <1>40, <1>41,
     <1>42, <1>43, <1>44, <1>45, <1>46, <1>47, <1>48, <1>49, <1>50, <1>51,
     <1>52, <1>53, <1>54
  DEF Next, Runner, Task, Turn, Faults, Others
-----------------------------------------------------------------------------
(* Initially there is nothing to do, and nothing runs.                     *)
LEMMA InitIInv == Init => IInv
<1> SUFFICES ASSUME Init PROVE IInv
  OBVIOUS
<1> USE RunnerAssumption DEF Init, Pending, Unstarted, Settled, ActiveTurn, Budgeted
<1>1. TypeOK
  BY DEF TypeOK, Places
<1>2. Queueing
  BY DEF Queueing, AttemptFollows, AttemptsAreOwned, OnAttempt, InTurn,
         OneTaskPerAgent, InOrder, VerdictsAreKnown, Siblings, Earlier
<1>3. Ending /\ Results
  BY DEF Ending, Results, TasksAreJoined, EndsInOrder, OutcomesAreTrue,
         ResultsAreKept, InTurn
<1>4. QED
  BY <1>1, <1>2, <1>3 DEF IInv

(* A step of somebody else changes nothing.                                *)
LEMMA StutterIInv == IInv /\ UNCHANGED vars => IInv'
BY RunnerAssumption
   DEF vars, rows, turns, calls, IInv, TypeOK, Queueing, Ending, Results,
       AttemptFollows, AttemptsAreOwned, OnAttempt, OneTaskPerAgent, InOrder,
       VerdictsAreKnown, TasksAreJoined, EndsInOrder, OutcomesAreTrue,
       ResultsAreKept, InTurn, Ended, Places, Pending, Unstarted, Settled,
       ActiveTurn, Siblings, Earlier, Budgeted

(* The inductive invariant holds in every reachable state.                 *)
THEOREM Invariance == Spec => []IInv
<1>1. IInv /\ [Next]_vars => IInv'
  <2> SUFFICES ASSUME IInv, [Next]_vars PROVE IInv'
    OBVIOUS
  <2>1. CASE Next
    BY <2>1, TypeStep, QueueingStep, EndingStep, ResultsStep DEF IInv
  <2>2. CASE UNCHANGED vars
    BY <2>2, StutterIInv
  <2>3. QED
    BY <2>1, <2>2
<1>2. QED
  BY <1>1, InitIInv, PTL DEF Spec

(* Every stored row and every task place stays in its type.                *)
THEOREM TypeCorrect == Spec => []TypeOK
<1>1. IInv => TypeOK
  BY DEF IInv
<1>2. QED
  BY <1>1, Invariance, PTL

(* An Agent never has two Running Actions (run_session,                    *)
(* start_action_attempt).                                                  *)
THEOREM OneRunning == Spec => []OneRunningPerAgent
<1>1. IInv => OneRunningPerAgent
  BY DEF IInv, Queueing, InOrder, VerdictsAreKnown, OneRunningPerAgent, Settled
<1>2. QED
  BY <1>1, Invariance, PTL

(* The model works only for the Running Action of a Session that has not   *)
(* ended, one per Agent (run_session, run_scheduled_turn_inner).           *)
THEOREM WorkAccounted == Spec => []WorkIsAccounted
<1>1. IInv => WorkIsAccounted
  BY DEF IInv, TypeOK, Queueing, Ending, AttemptFollows, AttemptsAreOwned,
         OneTaskPerAgent, TasksAreJoined, EndsInOrder, VerdictsAreKnown, OnAttempt,
         InTurn, Siblings, WorkIsAccounted
<1>2. QED
  BY <1>1, Invariance, PTL

(* A completed Turn completes its Action, also across a restart or a       *)
(* close, and nothing else does (finish_action,                            *)
(* finish_running_action_during_close).                                    *)
THEOREM ResultsKept == Spec => []ResultsAreKept
<1>1. IInv => ResultsAreKept
  BY DEF IInv, Results
<1>2. QED
  BY <1>1, Invariance, PTL

(* A Session that has ended has settled its Actions and joined its tasks   *)
(* (cancel_remaining_actions, finish_session_closing).                     *)
THEOREM EndSettled == Spec => []EndedIsSettled
<1>1. IInv => EndedIsSettled
  BY DEF IInv, Ending, TasksAreJoined, EndsInOrder, VerdictsAreKnown, EndedIsSettled
<1>2. QED
  BY <1>1, Invariance, PTL
-----------------------------------------------------------------------------
(* Every step is a step of the queue, or none that the queue can see.      *)
LEMMA QueueStep ==
  ASSUME IInv, Next
  PROVE  [Queue!Next]_action
<1> USE DEF rows, Settled, Unstarted, InTurn, Pending, IInv, TypeOK, Queueing,
            AttemptsAreOwned, OnAttempt, InOrder, VerdictsAreKnown, OutcomesAreTrue,
            Results
<1>1. CASE RunnerStart
  BY <1>1 DEF RunnerStart
<1>2. CASE RunnerSpawn
  BY <1>2 DEF RunnerSpawn
<1>3. CASE RunnerBreak
  BY <1>3 DEF RunnerBreak
<1>4. CASE RunnerDrained
  BY <1>4 DEF RunnerDrained
<1>5. CASE SettleDone
  BY <1>5 DEF SettleDone
<1>6. CASE Pause
  BY <1>6 DEF Pause
<1>7. CASE Resume
  BY <1>7 DEF Resume
<1>8. CASE Close
  BY <1>8 DEF Close
<1>9. CASE CancelRun
  BY <1>9 DEF CancelRun
<1>10. CASE CloseFailed
  BY <1>10 DEF CloseFailed
<1>11. CASE End
  BY <1>11 DEF End
<1>12. CASE OtherEvent
  BY <1>12 DEF OtherEvent
<1>13. CASE Crash
  BY <1>13 DEF Crash
<1>14. ASSUME NEW a \in Actions, RunnerJoin(a) PROVE [Queue!Next]_action
  BY <1>14 DEF RunnerJoin
<1>15. ASSUME NEW a \in Actions, RunnerJoinError(a) PROVE [Queue!Next]_action
  BY <1>15 DEF RunnerJoinError, RunnerFail
<1>16. ASSUME NEW a \in Actions, SettlePending(a) PROVE [Queue!Next]_action
  <2>1. Queue!Withdraw({a})
    BY <1>16 DEF SettlePending, CancelPending, Queue!Withdraw, Queue!Unstarted
  <2>2. QED
    BY <2>1 DEF Queue!Next
<1>17. ASSUME NEW a \in Actions, SettleLook(a) PROVE [Queue!Next]_action
  BY <1>17 DEF SettleLook
<1>18. ASSUME NEW a \in Actions, SettleTurn(a) PROVE [Queue!Next]_action
  BY <1>18 DEF SettleTurn
<1>19. ASSUME NEW a \in Actions, SettleTurnError(a) PROVE [Queue!Next]_action
  BY <1>19 DEF SettleTurnError, RunnerFail
<1>20. ASSUME NEW a \in Actions, SettleFinish(a) PROVE [Queue!Next]_action
  <2>1. Queue!Settle(a)
    BY <1>20 DEF SettleFinish, FinishAction, Queue!Settle, Queue!Settled
  <2>2. QED
    BY <2>1 DEF Queue!Next
<1>21. ASSUME NEW a \in Actions, TaskRead(a) PROVE [Queue!Next]_action
  BY <1>21 DEF TaskRead
<1>22. ASSUME NEW a \in Actions, TaskBarred(a) PROVE [Queue!Next]_action
  BY <1>22 DEF TaskBarred
<1>23. ASSUME NEW a \in Actions, TaskGate(a) PROVE [Queue!Next]_action
  BY <1>23 DEF TaskGate
<1>24. ASSUME NEW a \in Actions, TaskReopen(a) PROVE [Queue!Next]_action
  BY <1>24 DEF TaskReopen
<1>25. ASSUME NEW a \in Actions, TaskStart(a) PROVE [Queue!Next]_action
  <2>1. Queue!Start(a)
    BY <1>25
       DEF TaskStart, CanStart, Earlier, Siblings, Queue!Start, Queue!Earlier,
           Queue!Unstarted, Queue!Settled
  <2>2. QED
    BY <2>1 DEF Queue!Next
<1>26. ASSUME NEW a \in Actions, TaskStartError(a) PROVE [Queue!Next]_action
  BY <1>26 DEF TaskStartError
<1>27. ASSUME NEW a \in Actions, TaskPrepare(a) PROVE [Queue!Next]_action
  BY <1>27 DEF TaskPrepare
<1>28. ASSUME NEW a \in Actions, TaskFinish(a) PROVE [Queue!Next]_action
  <2>1. CASE CanFinish(a, Verdict(a))
    <3>1. action' = [action EXCEPT ![a] = Verdict(a)] /\ action[a] = "Running"
      BY <1>28, <2>1 DEF TaskFinish, FinishAction
    <3>2. Verdict(a) \in {"Interrupted"} \cup Settled
      BY <1>28 DEF TaskFinish, Verdict
    <3>3. Queue!Interrupt(a) \/ Queue!Settle(a)
      BY <3>1, <3>2 DEF Queue!Interrupt, Queue!Settle, Queue!Settled
    <3>4. QED
      BY <3>3 DEF Queue!Next
  <2>2. CASE ~CanFinish(a, Verdict(a))
    BY <1>28, <2>2 DEF TaskFinish
  <2>3. QED
    BY <2>1, <2>2
<1>29. ASSUME NEW a \in Actions, TaskWithdraw(a) PROVE [Queue!Next]_action
  <2>1. CASE action[a] \in Unstarted
    <3>1. Queue!Withdraw({a})
      BY <1>29, <2>1
         DEF TaskWithdraw, CancelPending, Queue!Withdraw, Queue!Unstarted
    <3>2. QED
      BY <3>1 DEF Queue!Next
  <2>2. CASE action[a] \notin Unstarted
    BY <1>29, <2>2 DEF TaskWithdraw
  <2>3. QED
    BY <2>1, <2>2
<1>30. ASSUME NEW a \in Actions, TurnTrack(a) PROVE [Queue!Next]_action
  BY <1>30 DEF TurnTrack
<1>31. ASSUME NEW a \in Actions, TurnEnter(a) PROVE [Queue!Next]_action
  BY <1>31 DEF TurnEnter
<1>32. ASSUME NEW a \in Actions, TurnEnterCancelled(a) PROVE [Queue!Next]_action
  BY <1>32 DEF TurnEnterCancelled, Leave
<1>33. ASSUME NEW a \in Actions, TurnTop(a) PROVE [Queue!Next]_action
  BY <1>33 DEF TurnTop, Step
<1>34. ASSUME NEW a \in Actions, TurnCheckpoint(a) PROVE [Queue!Next]_action
  BY <1>34 DEF TurnCheckpoint, Step
<1>35. ASSUME NEW a \in Actions, TurnPause(a) PROVE [Queue!Next]_action
  BY <1>35 DEF TurnPause
<1>36. ASSUME NEW a \in Actions, TurnWake(a) PROVE [Queue!Next]_action
  BY <1>36 DEF TurnWake, Step
<1>37. ASSUME NEW a \in Actions, TurnPausedStopped(a) PROVE [Queue!Next]_action
  BY <1>37 DEF TurnPausedStopped, Step
<1>38. ASSUME NEW a \in Actions, TurnClaim(a) PROVE [Queue!Next]_action
  BY <1>38 DEF TurnClaim
<1>39. ASSUME NEW a \in Actions, WorkOn(a) PROVE [Queue!Next]_action
  BY <1>39 DEF WorkOn, Step
<1>40. ASSUME NEW a \in Actions, WorkAnswer(a) PROVE [Queue!Next]_action
  BY <1>40 DEF WorkAnswer
<1>41. ASSUME NEW a \in Actions, WorkStopped(a) PROVE [Queue!Next]_action
  BY <1>41 DEF WorkStopped
<1>42. ASSUME NEW a \in Actions, TurnComplete(a) PROVE [Queue!Next]_action
  BY <1>42 DEF TurnComplete, EndTurn, Leave
<1>43. ASSUME NEW a \in Actions, TurnCancel(a) PROVE [Queue!Next]_action
  BY <1>43 DEF TurnCancel, Leave, EndTurn
<1>44. ASSUME NEW a \in Actions, TurnInterrupt(a) PROVE [Queue!Next]_action
  BY <1>44 DEF TurnInterrupt, EndTurn, Leave
<1>45. ASSUME NEW a \in Actions, TurnFail(a) PROVE [Queue!Next]_action
  BY <1>45 DEF TurnFail, EndTurn, Leave
<1>46. ASSUME NEW a \in Actions, TaskPrepareError(a) PROVE [Queue!Next]_action
  BY <1>46 DEF TaskPrepareError
<1>47. ASSUME NEW a \in Actions, TurnEnterError(a) PROVE [Queue!Next]_action
  BY <1>47 DEF TurnEnterError, Leave
<1>48. ASSUME NEW a \in Actions, WorkError(a) PROVE [Queue!Next]_action
  BY <1>48 DEF WorkError
<1>49. ASSUME NEW a \in Actions, Invoke(a) PROVE [Queue!Next]_action
  <2>1. Queue!Admit(a)
    BY <1>49 DEF Invoke, Earlier, Siblings, Queue!Admit, Queue!Earlier
  <2>2. QED
    BY <2>1 DEF Queue!Next
<1>50. ASSUME NEW a \in Actions, HumanInterrupt(a) PROVE [Queue!Next]_action
  BY <1>50 DEF HumanInterrupt
<1>51. ASSUME NEW a \in Actions, KillRunning(a) PROVE [Queue!Next]_action
  BY <1>51 DEF KillRunning
<1>52. ASSUME NEW a \in Actions, CancelTurn(a) PROVE [Queue!Next]_action
  BY <1>52 DEF CancelTurn
<1>53. ASSUME NEW a \in Actions, CancelTurnRow(a) PROVE [Queue!Next]_action
  BY <1>53 DEF CancelTurnRow
<1>54. ASSUME NEW g \in Agents, InterruptAgent(g) PROVE [Queue!Next]_action
  <2> DEFINE S == {a \in Actions : AgentOf[a] = g /\ action[a] \in Unstarted}
  <2>1. action' = [a \in Actions |-> IF a \in S THEN "Cancelled" ELSE action[a]]
    BY <1>54 DEF InterruptAgent
  <2>2. Queue!Withdraw(S)
    BY <2>1 DEF Queue!Withdraw, Queue!Unstarted
  <2>3. QED
    BY <2>2 DEF Queue!Next
<1>55. QED
  BY <1>1, <1>2, <1>3, <1>4, <1>5, <1>6, <1>7, <1>8, <1>9, <1>10, <1>11,
     <1>12, <1>13, <1>14, <1>15, <1>16, <1>17, <1>18, <1>19, <1>20, <1>21,
     <1>22, <1>23, <1>24, <1>25, <1>26, <1>27, <1>28, <1>29, <1>30, <1>31,
     <1>32, <1>33, <1>34, <1>35, <1>36, <1>37, <1>38, <1>39, <1>40, <1>41,
     <1>42, <1>43, <1>44, <1>45, <1>46, <1>47, <1>48, <1>49, <1>50, <1>51,
     <1>52, <1>53, <1>54
  DEF Next, Runner, Task, Turn, Faults, Others

(* ActionRunner implements ActionQueue: the Actions of an Agent start in   *)
(* the order of their creation, and what is settled stays settled.         *)
THEOREM Implementation == Spec => ImplementsQueue
<1>1. Init => Queue!Init
  BY DEF Init, Queue!Init
<1>2. IInv /\ [Next]_vars => [Queue!Next]_action
  <2> SUFFICES ASSUME IInv, [Next]_vars PROVE [Queue!Next]_action
    OBVIOUS
  <2>1. CASE Next
    BY <2>1, QueueStep
  <2>2. CASE UNCHANGED vars
    BY <2>2 DEF vars, rows
  <2>3. QED
    BY <2>1, <2>2
<1>3. QED
  BY <1>1, <1>2, Invariance, PTL DEF Spec, ImplementsQueue, Queue!Spec
=============================================================================
