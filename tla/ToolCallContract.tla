-------------------------- MODULE ToolCallContract --------------------------
(***************************************************************************)
(* What docs/runtime-kernel.md promises of a model's tool calls, across    *)
(* crashes: a call is durable before it is dispatched, it is dispatched at *)
(* most once, a result is durable only if the tool produced it, and a call *)
(* that lost its result receives one `aborted` instead.                    *)
(***************************************************************************)
EXTENDS Naturals

CONSTANT Calls

VARIABLES
  durable,   (* calls in the canonical rollout                              *)
  runs,      (* runs[c]: how often c has been dispatched                    *)
  produced,  (* calls whose tool has returned                               *)
  answer     (* answer[c]: the durable output, "none" before there is one   *)

vars == <<durable, runs, produced, answer>>

Init ==
  /\ durable  = {}
  /\ runs     = [c \in Calls |-> 0]
  /\ produced = {}
  /\ answer   = [c \in Calls |-> "none"]

(* One model response is one record: all its calls become durable at once. *)
Record(S) ==
  /\ S # {}
  /\ S \cap durable = {}
  /\ durable' = durable \cup S
  /\ UNCHANGED <<runs, produced, answer>>

Dispatch(c) ==
  /\ c \in durable
  /\ runs[c] = 0
  /\ answer[c] = "none"
  /\ runs' = [runs EXCEPT ![c] = 1]
  /\ UNCHANGED <<durable, produced, answer>>

Return(c) ==
  /\ runs[c] = 1
  /\ produced' = produced \cup {c}
  /\ UNCHANGED <<durable, runs, answer>>

Answer(c) ==
  /\ c \in produced
  /\ answer[c] = "none"
  /\ answer' = [answer EXCEPT ![c] = "result"]
  /\ UNCHANGED <<durable, runs, produced>>

(* Recovery answers every open call of the Turn in one record.             *)
Abort(S) ==
  /\ S # {}
  /\ S \subseteq {c \in durable : answer[c] = "none"}
  /\ answer' = [c \in Calls |-> IF c \in S THEN "aborted" ELSE answer[c]]
  /\ UNCHANGED <<durable, runs, produced>>

Next ==
  \/ \E S \in SUBSET Calls : Record(S) \/ Abort(S)
  \/ \E c \in Calls : Dispatch(c) \/ Return(c) \/ Answer(c)

Spec == Init /\ [][Next]_vars
=============================================================================
