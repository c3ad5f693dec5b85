--------------------------- MODULE MCActionRunner ---------------------------
(***************************************************************************)
(* Instances of ActionRunner for TLC: a Workflow's Agent `root` and the    *)
(* Agent `child` it spawned, and how much disturbance a behaviour holds.   *)
(***************************************************************************)
EXTENDS ActionRunner

Family == [g \in Agents |-> IF g = "child" THEN "root" ELSE "nobody"]

(* two Actions of the Workflow on one Agent                                *)
LineActions == {1, 2}
LineAgentOf == [a \in LineActions |-> "root"]
LineTasks   == {}

(* an Action of the Workflow, and one task for the child                   *)
PairActions == {1, 2}
PairAgentOf == [a \in PairActions |-> IF a = 1 THEN "root" ELSE "child"]
PairTasks   == {2}

(* one Action of the Workflow                                              *)
OneAction  == {1}
OneAgentOf == [a \in OneAction |-> "root"]
NoTasks    == {}

Spending(pauses, crashes, faults, interrupts, parents, cancels) ==
  [k \in Budgeted |-> CASE k = "pause"     -> pauses
                        [] k = "crash"     -> crashes
                        [] k = "fault"     -> faults
                        [] k = "interrupt" -> interrupts
                        [] k = "parent"    -> parents
                        [] OTHER           -> cancels]

Human     == Spending(1, 2, 1, 2, 0, 1)
Guided    == Spending(0, 1, 0, 1, 1, 0)
Calm      == Spending(0, 0, 0, 0, 0, 0)
=============================================================================
