---------------------------- MODULE AgentRollout ----------------------------
(***************************************************************************)
(* The durable side of one Agent: its JSONL rollout                        *)
(* (crates/store/src/rollout.rs), the SQLite rows projected from it, and   *)
(* the inputs addressed to it (crates/store/src/database.rs).              *)
(*                                                                         *)
(* commit_agent_rollout_item_locked appends a record and then projects it. *)
(* The Store thread runs one call at a time, so nothing of the process     *)
(* comes in between; a crash or a failed write may.                        *)
(***************************************************************************)
EXTENDS Naturals, SequencesExt

CONSTANTS
  Turns,      (* 1 .. n, in the order of their creation                     *)
  Inputs,     (* AgentInputs, numbered in the order of their creation       *)
  Kind,       (* Kind[i]: AgentInputKind                                    *)
  BoundTo,    (* BoundTo[i]: the Turn of the input's Action, 0 for none     *)
  MaxMishaps  (* bounds TLC's exploration: crashes, failed writes, retries  *)

ASSUME RolloutAssumption ==
  /\ Turns \subseteq Nat \ {0}
  /\ Inputs \subseteq Nat
  /\ Kind \in [Inputs -> {"message", "interrupt", "finish"}]
  /\ BoundTo \in [Inputs -> Turns \cup {0}]
  /\ MaxMishaps \in Nat

VARIABLES
  file,       (* the readable records of the rollout                        *)
  trailing,   (* what a failed append left behind them: nothing, half a     *)
              (* record, or a whole one that was not acknowledged           *)
  damaged,    (* a record was appended after a trailing one: scan fails     *)
  rows,       (* Turn, input and usage rows of SQLite                       *)
  projected,  (* agent_rollout_projection.last_sequence                     *)
  commit,     (* the commit the Store thread is at                          *)
  mishaps     (* crashes, write faults and retried samples so far           *)

rolloutVars == <<file, trailing, damaged, rows, projected, commit, mishaps>>

TerminalTurn == {"Completed", "Failed", "Interrupted", "Cancelled"}
OpenTurn     == {"Queued", "Running"}

(* AgentRolloutItem                                                        *)
Created(t) == [kind |-> "created", turn |-> t, acks |-> {}]
Checkpoint(t, replace, items, steps, used, last, acks) ==
  [kind |-> "checkpoint", turn |-> t, replace |-> replace, items |-> items,
   steps |-> steps, used |-> used, last |-> last, acks |-> acks]
Updated(t, status, acks) ==
  [kind |-> "updated", turn |-> t, status |-> status, acks |-> acks]

(* Op over the records in their order, as FoldLeft, which TLC evaluates    *)
(* over sets of indices                                                    *)
Replay(Op(_, _), base, records) ==
  LET upTo[n \in 0..Len(records)] ==
        IF n = 0 THEN base ELSE Op(upTo[n - 1], records[n])
  IN upTo[Len(records)]

Idle == [at |-> "none"]

Torn == [kind |-> "torn"]
-----------------------------------------------------------------------------
(* Reading the file back: reconstruct_file                                 *)

NoTurn(context) ==
  [committed |-> context, turn |-> 0, context |-> <<>>, begun |-> FALSE,
   steps |-> 0, used |-> 0, last |-> FALSE]

(* apply_record: a Completed or Interrupted Turn commits its context, a    *)
(* Failed or Cancelled one leaves no trace of it.                          *)
Read(state, r) ==
  CASE r.kind = "created" ->
         [NoTurn(state.committed) EXCEPT !.turn = r.turn,
                                         !.context = state.committed]
    [] r.kind = "checkpoint" ->
         [state EXCEPT !.context = IF r.replace THEN r.items ELSE @ \o r.items,
                       !.begun = TRUE, !.steps = r.steps, !.used = r.used,
                       !.last = r.last]
    [] r.kind = "updated" ->
         CASE r.status \in {"Completed", "Interrupted"} -> NoTurn(state.context)
           [] r.status \in {"Failed", "Cancelled"} -> NoTurn(state.committed)
           [] OTHER -> state

Canonical == Replay(Read, NoTurn(<<>>), file)

-----------------------------------------------------------------------------
(* Projecting records to SQLite: apply_rollout_record_tx                   *)

(* Mutants: no acknowledgement; every total charged                        *)
AcknowledgeNone(db, ids) == db
WholeTotal(a, b) == a

(* apply_agent_input_acknowledgements_tx                                   *)
Acknowledge(db, ids) ==
  [db EXCEPT !.input = [i \in Inputs |-> IF i \in ids THEN "applied" ELSE @[i]]]

(* A terminal Turn gives back what it claimed and did not acknowledge.     *)
Requeue(db, t) ==
  LET mine == {i \in Inputs : db.input[i] = "claimed" /\ db.owner[i] = t}
  IN [db EXCEPT
        !.input = [i \in Inputs |-> IF i \in mine THEN "pending" ELSE @[i]],
        !.owner = [i \in Inputs |-> IF i \in mine THEN 0 ELSE @[i]]]

Saturating(a, b) == IF a > b THEN a - b ELSE 0

Project(db, r) ==
  CASE r.kind = "created" -> [db EXCEPT !.status[r.turn] = "Queued"]
    [] r.kind = "checkpoint" ->
         [Acknowledge(db, r.acks) EXCEPT
            !.tokens = @ + Saturating(r.used, db.used[r.turn]),
            !.used[r.turn] = r.used,
            !.last[r.turn] = r.last]
    [] r.kind = "updated" ->
         LET next == [Acknowledge(db, r.acks) EXCEPT !.status[r.turn] = r.status]
         IN IF r.status \in TerminalTurn THEN Requeue(next, r.turn) ELSE next

EmptyRows ==
  [status |-> [t \in Turns |-> "none"], used |-> [t \in Turns |-> 0],
   last |-> [t \in Turns |-> FALSE], tokens |-> 0,
   input |-> [i \in Inputs |-> "none"], owner |-> [i \in Inputs |-> 0]]

RolloutInit ==
  /\ file      = <<>>
  /\ trailing  = <<>>
  /\ damaged   = FALSE
  /\ rows      = EmptyRows
  /\ projected = 0
  /\ commit    = Idle
  /\ mishaps   = [crash |-> 0, fault |-> 0, retry |-> 0]
-----------------------------------------------------------------------------
(* The Store thread                                                        *)

StoreIdle == commit = Idle
MayHappen == mishaps.crash + mishaps.fault + mishaps.retry < MaxMishaps

(* commit_agent_rollout_item_locked up to its append: validate_rollout_item*)
(* wants every acknowledged input claimed by the Turn.                     *)
Commit(r) ==
  /\ StoreIdle
  /\ \A i \in r.acks : rows.input[i] = "claimed" /\ rows.owner[i] = r.turn
  /\ commit' = [at |-> "append", record |-> r]
  /\ UNCHANGED <<file, trailing, damaged, rows, projected, mishaps>>

(* rollout::append. Neither it nor replay_agent_rollout_locked, which finds*)
(* its cached sequence equal to the projected one, looks at what a failed  *)
(* append left behind: the record ends a torn line, or carries the sequence*)
(* of the one before it.                                                   *)
AppendRecord ==
  /\ commit.at = "append"
  /\ IF ~damaged /\ trailing = <<>> /\ projected = Len(file)
       THEN /\ file' = Append(file, commit.record)
            /\ commit' = [commit EXCEPT !.at = "project"]
            /\ UNCHANGED <<damaged, rows, projected>>
       ELSE /\ damaged' = TRUE
            /\ rows' = Project(rows, commit.record)
            /\ projected' = projected + 1
            /\ commit' = Idle
            /\ UNCHANGED file
  /\ UNCHANGED <<trailing, mishaps>>

(* The projection and its sequence are one SQLite transaction.             *)
ProjectRecord ==
  /\ commit.at = "project"
  /\ rows' = Project(rows, commit.record)
  /\ projected' = projected + 1
  /\ commit' = Idle
  /\ UNCHANGED <<file, trailing, damaged, mishaps>>

(* write_all, flush or sync_data returns an error. The caller continues    *)
(* with it.                                                                *)
AppendFails ==
  /\ commit.at = "append"
  /\ MayHappen
  /\ mishaps' = [mishaps EXCEPT !.fault = @ + 1]
  /\ \/ UNCHANGED trailing
     \/ trailing = <<>> /\ trailing' \in {<<Torn>>, <<commit.record>>}
  /\ commit' = Idle
  /\ UNCHANGED <<file, damaged, rows, projected>>

(* rollout::scan drops a torn last record and accepts a whole one.         *)
Whole == IF trailing = <<Torn>> THEN <<>> ELSE trailing
Records == file \o Whole

Scan ==
  /\ StoreIdle /\ ~damaged
  /\ file' = Records
  /\ trailing' = <<>>
  /\ UNCHANGED <<damaged, rows, projected, commit, mishaps>>

(* Mutant: a Store that opens without replay                               *)
ReopenStale(survives) ==
  /\ ~damaged /\ MayHappen
  /\ mishaps' = [mishaps EXCEPT !.crash = @ + 1]
  /\ survives => commit.at = "append" /\ trailing = <<>>
  /\ file' = IF survives THEN Append(file, commit.record) ELSE Records
  /\ projected' = Len(file')
  /\ trailing' = <<>>
  /\ commit' = Idle
  /\ UNCHANGED <<damaged, rows>>

(* The process dies and a new one opens the Store:                         *)
(* replay_all_agent_rollouts scans the file and projects what SQLite has   *)
(* not seen. A scan that fails keeps the Store closed.                     *)
Reopen(survives) ==
  /\ ~damaged
  /\ MayHappen
  /\ mishaps' = [mishaps EXCEPT !.crash = @ + 1]
  /\ survives => commit.at = "append" /\ trailing = <<>>
  /\ LET read == IF survives THEN Append(file, commit.record) ELSE Records
         unseen == SubSeq(read, projected + 1, Len(read))
     IN /\ file' = read
        /\ rows' = Replay(Project, rows, unseen)
        /\ projected' = Len(read)
  /\ trailing' = <<>>
  /\ commit' = Idle
  /\ UNCHANGED damaged

-----------------------------------------------------------------------------
(* Inputs                                                                  *)

(* create_agent_input_with_id by people and by other Agents                *)
SendInput(i) ==
  /\ StoreIdle
  /\ rows.input[i] = "none"
  /\ \A j \in Inputs : j < i => rows.input[j] # "none"
  /\ rows' = [rows EXCEPT !.input[i] = "pending"]
  /\ UNCHANGED <<file, trailing, damaged, projected, commit, mishaps>>

(* The rows claim_agent_inputs returns to Turn t                           *)
Claimable(t) ==
  {i \in Inputs : /\ \/ rows.input[i] = "pending"
                     \/ rows.input[i] = "claimed" /\ rows.owner[i] = t
                  /\ BoundTo[i] \in {0, t}}

(* claim_agent_inputs                                                      *)
ClaimInputs(t) ==
  /\ StoreIdle
  /\ rows.status[t] \in OpenTurn
  /\ rows' = [rows EXCEPT
       !.input = [i \in Inputs |-> IF i \in Claimable(t) THEN "claimed" ELSE @[i]],
       !.owner = [i \in Inputs |-> IF i \in Claimable(t) THEN t ELSE @[i]]]
  /\ UNCHANGED <<file, trailing, damaged, projected, commit, mishaps>>

(* apply_terminal_action_inputs_tx, when finish_action ends t's Action     *)
EndAction(t) ==
  /\ StoreIdle
  /\ rows' = [rows EXCEPT !.input = [i \in Inputs |->
       IF BoundTo[i] = t /\ @[i] \in {"pending", "claimed"} THEN "applied" ELSE @[i]]]
  /\ UNCHANGED <<file, trailing, damaged, projected, commit, mishaps>>

(* add_session_usage                                                       *)
ChargeTokens(n) ==
  /\ StoreIdle
  /\ rows' = [rows EXCEPT !.tokens = @ + n]
  /\ UNCHANGED <<file, trailing, damaged, projected, commit, mishaps>>
-----------------------------------------------------------------------------
(* The rows follow the file: what SQLite says of the Turns is what its     *)
(* first `projected` records say, and unless a write has failed at most    *)
(* the record being committed is not projected.                            *)
ProjectionFollowsFile ==
  ~damaged =>
    LET seen == Replay(Project, EmptyRows, SubSeq(file, 1, projected))
    IN /\ projected \in {Len(file), Len(file) - 1}
       /\ projected # Len(file) => commit.at = "project" \/ mishaps.fault > 0
       /\ rows.status = seen.status
       /\ rows.used = seen.used
       /\ rows.last = seen.last

(* A claim does not outlive its Turn: no input waits for a Turn that is    *)
(* over (apply_rollout_record_tx gives claims back).                       *)
ClaimsEndWithTheirTurn ==
  \A i \in Inputs : rows.input[i] = "claimed" => rows.status[rows.owner[i]] \in OpenTurn

=============================================================================
