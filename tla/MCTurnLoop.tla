----------------------------- MODULE MCTurnLoop -----------------------------
(***************************************************************************)
(* Two Turns of an Agent with two calls, one of a parallel tool, a message *)
(* that may arrive at any time and a finish or an interrupt for Turn 1.    *)
(***************************************************************************)
EXTENDS TurnLoop

MCTurns   == 1..2
MCInputs  == 1..2
MCBoundTo == <<0, 1>>

MCResponses == {Calls}

(* With a budget of 10, two outputs make the task compact, and a trim cuts *)
(* a call off the request; the loop trims when a finish follows two aborted *)
(* calls; the second question and the summary exceed the window.            *)
MCSize(item) ==
  CASE item[1] = "finish" -> 2
    [] item[1] \in {"out", "final"} \/ item = Ask(2) -> 3
    [] item[1] = "summary" -> 8
    [] OTHER -> 1

MCWithFinish    == <<"message", "finish">>
=============================================================================
