------------------------- MODULE MCSessionScheduler -------------------------
(***************************************************************************)
(* Instances of SessionScheduler for TLC: small Workflows, and how many    *)
(* pauses, resumes, crashes and ActionRunner failures a behaviour holds.   *)
(***************************************************************************)
EXTENDS SessionScheduler

(* parallel { ask_human, wait }, then an ordinary effect of both results   *)
ForkEffects == {"ask", "wait", "call"}
ForkKind    == [e \in ForkEffects |-> e]
ForkNeeds   == [e \in ForkEffects |-> IF e = "call" THEN {"ask", "wait"} ELSE {}]

(* a wait, then parallel { ask_human, ask_human }                          *)
PollEffects == {"wait", "left", "right"}
PollKind    == [e \in PollEffects |-> IF e = "wait" THEN e ELSE "ask"]
PollNeeds   == [e \in PollEffects |-> IF e = "wait" THEN {} ELSE {"wait"}]

(* one wait                                                                *)
WaitEffects == {"wait"}
WaitKind    == [e \in WaitEffects |-> "wait"]
WaitNeeds   == [e \in WaitEffects |-> {}]

Spending(pauses, resumes, crashes, faults) ==
  [k \in Budgeted |-> CASE k = "pause"  -> pauses
                        [] k = "resume" -> resumes
                        [] k = "crash"  -> crashes
                        [] OTHER        -> faults]

Everything  == Spending(1, 2, 1, 1)
Interrupted == Spending(1, 1, 1, 0)
OneCrash    == Spending(0, 0, 1, 0)
=============================================================================
