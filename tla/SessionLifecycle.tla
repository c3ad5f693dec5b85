-------------------------- MODULE SessionLifecycle --------------------------
(***************************************************************************)
(* What one Session promises to everybody who watches it, without saying   *)
(* how the scheduler, the interpreter and the Store deliver it:            *)
(*                                                                         *)
(*   - its status only moves along the edges below;                        *)
(*   - once it is Closing its outcome is decided and cannot be replaced;   *)
(*   - a Workflow execution begins only in a Running Session, one at a     *)
(*     time, and is over before a terminal status is committed;            *)
(*   - a terminal status is final.                                         *)
(*                                                                         *)
(* SessionScheduler implements this specification.                         *)
(***************************************************************************)
VARIABLES
  status,    (* SessionStatus of the stored Session                         *)
  outcome,   (* the terminal status chosen when it began Closing, or "None" *)
  working    (* the interpreter is executing the Workflow                   *)

vars == <<status, outcome, working>>

Terminal == {"Completed", "Failed", "Cancelled"}
Waiting  == {"WaitingForInput", "WaitingForDeadline"}
Open     == {"Created", "Running", "Paused"} \cup Waiting
Status   == Open \cup {"Closing"} \cup Terminal

TypeOK ==
  /\ status  \in Status
  /\ outcome \in Terminal \cup {"None"}
  /\ working \in BOOLEAN

Init ==
  /\ status  = "Created"
  /\ outcome = "None"
  /\ working = FALSE

(* An execution begins; the first one also starts the Session.             *)
Begin ==
  /\ status \in {"Created", "Running"}
  /\ ~working
  /\ status'  = "Running"
  /\ working' = TRUE
  /\ UNCHANGED outcome

(* The execution returns, or the process running it dies.                  *)
End ==
  /\ working
  /\ working' = FALSE
  /\ UNCHANGED <<status, outcome>>

(* Human and deadline suspensions.                                         *)
Suspend ==
  /\ status  = "Running"
  /\ status' \in Waiting
  /\ UNCHANGED <<outcome, working>>

Pause ==
  /\ status \in {"Running"} \cup Waiting
  /\ status' = "Paused"
  /\ UNCHANGED <<outcome, working>>

Resume ==
  /\ status \in {"Paused"} \cup Waiting
  /\ status' = "Running"
  /\ UNCHANGED <<outcome, working>>

Close ==
  /\ status \in Open
  /\ status'  = "Closing"
  /\ outcome' \in Terminal
  /\ UNCHANGED working

Finish ==
  /\ status = "Closing"
  /\ ~working
  /\ status' = outcome
  /\ UNCHANGED <<outcome, working>>

Next == Begin \/ End \/ Suspend \/ Pause \/ Resume \/ Close \/ Finish

Spec == Init /\ [][Next]_vars
-----------------------------------------------------------------------------
(* A Session that is Closing reaches a terminal status.                    *)
ClosingFinishes == (status = "Closing") ~> (status \in Terminal)
=============================================================================
