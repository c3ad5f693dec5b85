--------------------------- MODULE LiveStoreScan ---------------------------
(***************************************************************************)
(* Two Stores on one Project directory. Creating or moving any Project     *)
(* scans the catalog (crates/store/src/catalog.rs), which opens every      *)
(* Project's Store, the live ones too; opening one replays the rollouts of *)
(* its Agents (crates/store/src/database.rs) while the Store thread of     *)
(* that Project may be in the middle of a commit. The rollout locks and    *)
(* the cached sequences belong to a Store, so they keep the two apart only *)
(* where SQLite's write lock does.                                         *)
(*                                                                         *)
(* One Agent's rollout is followed; its records are numbered.              *)
(***************************************************************************)
EXTENDS Naturals

CONSTANTS
  Creations,   (* the records that insert a row (TurnCreated)               *)
  MaxRecords,  (* bounds TLC's exploration: records                         *)
  MaxScans     (* bounds it: scans of the catalog                           *)

VARIABLES
  file,        (* how many records the rollout has                          *)
  projected,   (* agent_rollout_projection.last_sequence                    *)
  times,       (* how often each record was applied to the rows             *)
  cached,      (* the live Store's rollout_sequences                        *)
  live, scan,  (* where each Store is: [at, from, upTo]                     *)
  writer,      (* who is in a SQLite write transaction                      *)
  scans

vars == <<file, projected, times, cached, live, scan, writer, scans>>

Idle == [at |-> "none", from |-> 0, upTo |-> 0]

Init ==
  /\ file = 0 /\ projected = 0 /\ cached = 0 /\ scans = 0
  /\ times = [n \in 1..MaxRecords |-> 0]
  /\ live = Idle /\ scan = Idle
  /\ writer = "none"
-----------------------------------------------------------------------------
(* A replay's transaction: BEGIN IMMEDIATE waits for the other's. What the *)
(* rows miss was read before it and is not read again. A row that is there *)
(* fails the replay.                                                       *)
Records(replay) == replay.from + 1..replay.upTo

Conflicts(replay) == \E n \in Records(replay) \cap Creations : times[n] > 0

ReplayCommits(replay) ==
  /\ writer = "none" /\ ~Conflicts(replay)
  /\ times' = [n \in 1..MaxRecords |->
                 IF n \in Records(replay) THEN times[n] + 1 ELSE times[n]]
  /\ projected' = replay.upTo

ReplayFails(replay) ==
  writer = "none" /\ Conflicts(replay) /\ UNCHANGED <<times, projected>>
-----------------------------------------------------------------------------
(* The live Store: commit_agent_rollout_item_locked                        *)

(* It replays first, unless its cache has the projected sequence.          *)
LiveCommit ==
  /\ live.at = "none" /\ file < MaxRecords
  /\ live' = IF cached = projected THEN [Idle EXCEPT !.at = "begin"]
             ELSE [at |-> "replay", from |-> projected, upTo |-> file]
  /\ UNCHANGED <<file, projected, times, cached, scan, writer, scans>>

LiveReplay ==
  /\ live.at = "replay"
  /\ IF live.from < live.upTo
     THEN \/ ReplayCommits(live) /\ cached' = live.upTo
             /\ live' = [Idle EXCEPT !.at = "begin"]
          \/ ReplayFails(live) /\ live' = Idle /\ UNCHANGED cached
     ELSE /\ UNCHANGED <<times, projected>>
          /\ cached' = live.upTo
          /\ live' = IF live.from > live.upTo THEN Idle ELSE [Idle EXCEPT !.at = "begin"]
  /\ UNCHANGED <<file, scan, writer, scans>>

LiveBegin ==
  /\ live.at = "begin" /\ writer = "none"
  /\ writer' = "live"
  /\ live' = [Idle EXCEPT !.at = "append"]
  /\ UNCHANGED <<file, projected, times, cached, scan, scans>>

LiveAppend ==
  /\ live.at = "append"
  /\ file' = file + 1 /\ cached' = file + 1
  /\ live' = [Idle EXCEPT !.at = "project"]
  /\ UNCHANGED <<projected, times, scan, writer, scans>>

LiveProject ==
  /\ live.at = "project"
  /\ times' = [times EXCEPT ![cached] = @ + 1]
  /\ projected' = cached
  /\ writer' = "none"
  /\ live' = Idle
  /\ UNCHANGED <<file, cached, scan, scans>>
-----------------------------------------------------------------------------
(* The scan's Store: open, replay_all_agent_rollouts                       *)

(* A fresh Store has nothing cached, so it reads the projected sequence    *)
(* and then the file. Here it finds whole records only: one that is being  *)
(* appended it would cut off or complete as the rest of a crash (scan in   *)
(* rollout.rs), which the live Store does not expect either.               *)
ScanOpens ==
  /\ scan.at = "none" /\ scans < MaxScans
  /\ scan' = [at |-> "read", from |-> projected, upTo |-> 0]
  /\ scans' = scans + 1
  /\ UNCHANGED <<file, projected, times, cached, live, writer>>

ScanReads ==
  /\ scan.at = "read"
  /\ scan' = IF scan.from < file THEN [scan EXCEPT !.at = "replay", !.upTo = file]
             ELSE Idle
  /\ UNCHANGED <<file, projected, times, cached, live, writer, scans>>

ScanReplays ==
  /\ scan.at = "replay"
  /\ ReplayCommits(scan) \/ ReplayFails(scan)
  /\ scan' = Idle
  /\ UNCHANGED <<file, cached, live, writer, scans>>
-----------------------------------------------------------------------------
Next ==
  \/ LiveCommit \/ LiveReplay \/ LiveBegin \/ LiveAppend \/ LiveProject
  \/ ScanOpens \/ ScanReads \/ ScanReplays

Spec == Init /\ [][Next]_vars

(* One live writer: while no process dies, each record is applied to the   *)
(* rows once, by the Store that appended it.                               *)
OneLiveWriter == \A n \in DOMAIN times : times[n] <= 1
=============================================================================
