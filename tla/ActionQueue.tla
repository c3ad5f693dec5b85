----------------------------- MODULE ActionQueue -----------------------------
(***************************************************************************)
(* What the ActionRunner promises to whoever schedules Actions on Agents,  *)
(* without saying how attempts, Turns, tokens and restarts deliver it:     *)
(*                                                                         *)
(*   - an Agent works on its Actions in the order they were scheduled: one *)
(*     starts, or starts again after an interruption, only when all the    *)
(*     earlier ones are settled;                                           *)
(*   - work that has not started can be withdrawn, work that is Running    *)
(*     ends by itself;                                                     *)
(*   - a settled Action keeps its outcome.                                 *)
(*                                                                         *)
(* Actions are numbered in the order of their creation.                    *)
(***************************************************************************)
EXTENDS Naturals

CONSTANTS
  Actions,   (* ActionInvocation ids                                        *)
  AgentOf    (* AgentOf[a]: the Agent that is to do a                       *)

VARIABLE action   (* ActionStatus of each Action, "None" before it exists   *)

Settled   == {"Completed", "Failed", "Cancelled"}
Unstarted == {"Scheduled", "Interrupted"}

Earlier(a) == {b \in Actions : AgentOf[b] = AgentOf[a] /\ b < a}

Init == action = [a \in Actions |-> "None"]

Admit(a) ==
  /\ action[a] = "None"
  /\ \A b \in Earlier(a) : action[b] # "None"
  /\ action' = [action EXCEPT ![a] = "Scheduled"]

Start(a) ==
  /\ action[a] \in Unstarted
  /\ \A b \in Earlier(a) : action[b] \in Settled
  /\ action' = [action EXCEPT ![a] = "Running"]

Interrupt(a) ==
  /\ action[a] = "Running"
  /\ action' = [action EXCEPT ![a] = "Interrupted"]

Settle(a) ==
  /\ action[a] = "Running"
  /\ \E s \in Settled : action' = [action EXCEPT ![a] = s]

Withdraw(S) ==
  /\ \A a \in S : action[a] \in Unstarted
  /\ action' = [a \in Actions |-> IF a \in S THEN "Cancelled" ELSE action[a]]

Next ==
  \/ \E a \in Actions : Admit(a) \/ Start(a) \/ Interrupt(a) \/ Settle(a)
  \/ \E S \in SUBSET Actions : Withdraw(S)

Spec == Init /\ [][Next]_action
=============================================================================
