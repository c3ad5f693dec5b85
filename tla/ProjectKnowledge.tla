-------------------------- MODULE ProjectKnowledge --------------------------
(***************************************************************************)
(* What a Project's Sessions publish and what they read of each other:     *)
(* Artifacts and the Project Home (crates/store/src/artifact.rs,           *)
(* project_home.rs, database.rs), the change log their rows leave behind,  *)
(* and the pages in which a Session reads it (project_changes.rs).         *)
(*                                                                         *)
(* The Store thread runs one job at a time. A publication writes files and *)
(* then rows, so it is a job of several steps, at each of which the disk   *)
(* may fail or the process stop; reading a page is a job of one step.      *)
(***************************************************************************)
EXTENDS Naturals, Sequences, FiniteSets, Functions, FiniteSetsExt

CONSTANTS
  Sessions, NoSession,
  Program,      (* Program[s]: the slug of the Session's WorkflowProgram    *)
  Works,        (* Works[s]: the publishing effects of s, in their order    *)
  Readers,      (* the Sessions that follow the Project's changes           *)
  Excludes,     (* Excludes[r]: exclude_current_program                     *)
  Bodies,       (* contents of Artifacts; equal ones have equal hashes      *)
  Length,       (* Length[b]: how many pieces of text a body has            *)
  Details,      (* Details[a]: pieces of an Artifact's name, metadata, ids  *)
  Binary,       (* the bodies whose media type is not textual               *)
  Records,      (* other rows with a trigger: Sessions, Agents, Turns, ...  *)
  Owner,        (* Owner[x]: the Session of a record                        *)
  RecordSize,   (* how large the snapshot of a record is                    *)
  BatchLimit,   (* MAX_PROJECT_CHANGES_PER_READ                             *)
  PageRoom,     (* PAGE_BYTES less PAGE_RESERVE_BYTES                       *)
  MaxTouches,   (* bounds TLC's exploration: updates of records             *)
  MaxMishaps    (* bounds it: crashes, failed writes and dropped answers    *)

None == "none"

(* Everything a change can be about has an id: a row, an Artifact, the     *)
(* Project Home.                                                           *)
Row(x) == [session |-> Owner[x], effect |-> 0, role |-> x]
Home   == [session |-> NoSession, effect |-> 0, role |-> "project_home"]

NoArtifact == [session |-> NoSession, effect |-> 0, role |-> None]
NoHome     == [page |-> NoArtifact, body |-> None]

(* effect_resource_uuid: an id is a function of Session, effect and role   *)
PageOf(s, k)   == [session |-> s, effect |-> k, role |-> "page"]
SourceOf(s, k) == [session |-> s, effect |-> k, role |-> "source"]

Effects   == UNION {{<<s, k>> : k \in DOMAIN Works[s]} : s \in Sessions}
Artifacts == {PageOf(e[1], e[2]) : e \in Effects}
               \cup {SourceOf(e[1], e[2]) : e \in Effects}

EffectType == [kind : {"artifact", "home"}, body : Bodies, valid : BOOLEAN]

ASSUME KnowledgeAssumption ==
  /\ NoSession \notin Sessions
  /\ DOMAIN Program = Sessions
  /\ Works \in [Sessions -> Seq(EffectType)]
  /\ Readers \subseteq Sessions
  /\ Excludes \in [Readers -> BOOLEAN]
  /\ None \notin Bodies
  /\ Length \in [Bodies -> Nat] /\ Binary \subseteq Bodies
  /\ Details \in [Artifacts -> Nat \ {0}]
  /\ Owner \in [Records -> Sessions \cup {NoSession}]
  /\ RecordSize \in [Records -> Nat \ {0}]
  /\ None \notin Records /\ "project_home" \notin Records
  /\ BatchLimit \in Nat \ {0} /\ PageRoom \in Nat \ {0, 1}
  /\ MaxTouches \in Nat /\ MaxMishaps \in Nat

VARIABLES
  up,       (* whether the Project's runtime is built                       *)
  rows,     (* the artifacts table: id -> body                              *)
  files,    (* the Artifact files at their final paths: id -> body          *)
  temps,    (* temporary files of write_atomic                              *)
  home,     (* the project_homes row: [page, body], or NoHome               *)
  changes,  (* the project_changes table                                    *)
  position, (* the effect each Session is at                                *)
  answer,   (* the Store's answer on its way to the Session                 *)
  outcome,  (* how each Session stands                                      *)
  job,      (* the publication the Store thread is at                       *)
  cursor,   (* what each reader passes to its next read                     *)
  more,     (* has_more of its last page                                    *)
  view,     (* what it was shown: entity -> when, and how much of it        *)
  stuck,    (* whether its read failed                                      *)
  touches, mishaps,
  spilled   (* files left behind by a failed write or a failed removal      *)

disk    == <<rows, files, temps, home, changes, spilled>>
work    == <<position, answer, outcome>>
reading == <<cursor, more, view, stuck>>
vars    == <<up, disk, work, job, reading, touches, mishaps>>

Idle == [at |-> None]

EffectOf(s)  == Works[s][position[s]]
HasEffect(s) == outcome[s] = "running" /\ position[s] \in DOMAIN Works[s]
Page(s)      == PageOf(s, position[s])
Source(s)    == SourceOf(s, position[s])

Change(entity, session) == [entity |-> entity, session |-> session]

Init ==
  /\ up = TRUE
  /\ rows = <<>> /\ files = <<>> /\ temps = {} /\ home = NoHome
  /\ changes = <<>> /\ spilled = {}
  /\ position = [s \in Sessions |-> 1]
  /\ answer = [s \in Sessions |-> None]
  /\ outcome = [s \in Sessions |-> "running"]
  /\ job = Idle
  /\ cursor = [r \in Readers |-> [sequence |-> 0, artifact |-> NoArtifact, offset |-> 0]]
  /\ more = [r \in Readers |-> TRUE]
  /\ view = [r \in Readers |-> <<>>]
  /\ stuck = [r \in Readers |-> FALSE]
  /\ touches = 0 /\ mishaps = 0
-----------------------------------------------------------------------------
(* Publications                                                            *)

Quiet == up /\ job = Idle

Reply(s, result) ==
  /\ answer' = [answer EXCEPT ![s] = result]
  /\ job' = Idle

(* Mutant: whether the page is the current one is not asked.               *)
ArtifactThere(s) ==
  EffectOf(s).kind = "artifact" /\ Page(s) \in DOMAIN rows

(* publish_artifact, publish_project_home up to their first write. An      *)
(* Artifact that is already there, and a page that is the current one      *)
(* already, are answered without a write.                                  *)
AlreadyThere(s) ==
  IF EffectOf(s).kind = "artifact"
  THEN Page(s) \in DOMAIN rows
  ELSE home.body = EffectOf(s).body

Dispatch(s) ==
  /\ Quiet /\ HasEffect(s) /\ answer[s] = None
  /\ \/ ~EffectOf(s).valid /\ Reply(s, "failed")
     \/ EffectOf(s).valid /\ AlreadyThere(s) /\ Reply(s, "ok")
     \/ /\ EffectOf(s).valid /\ ~AlreadyThere(s)
        /\ job' = [at |-> "store", session |-> s,
                   todo |-> IF EffectOf(s).kind = "home"
                            THEN <<Source(s), Page(s)>> ELSE <<Page(s)>>,
                   made |-> {}, base |-> home]
        /\ UNCHANGED answer
  /\ UNCHANGED <<up, disk, position, outcome, reading, touches, mishaps>>

Body == EffectOf(job.session).body

(* store_artifact_file: a file that is there is the one an earlier attempt *)
(* of the same effect made; one that is not is written under a temporary   *)
(* name first (write_atomic).                                              *)
StoreFile ==
  /\ up /\ job.at = "store" /\ job.todo # <<>>
  /\ LET id == Head(job.todo)
     IN \/ /\ id \in DOMAIN files /\ files[id] = Body
           /\ job' = [job EXCEPT !.todo = Tail(@)]
           /\ UNCHANGED temps
        \/ /\ id \notin DOMAIN files
           /\ temps' = temps \cup {id}
           /\ job' = [job EXCEPT !.at = "rename"]
  /\ UNCHANGED <<up, rows, files, home, changes, spilled, work, reading,
                 touches, mishaps>>

WithFile(id) ==
  [i \in DOMAIN files \cup {id} |-> IF i = id THEN Body ELSE files[i]]

Rename ==
  /\ up /\ job.at = "rename"
  /\ LET id == Head(job.todo)
     IN /\ temps' = temps \ {id}
        /\ files' = WithFile(id)
        /\ job' = [job EXCEPT !.at = "store", !.todo = Tail(@),
                              !.made = @ \cup {id}]
  /\ UNCHANGED <<up, rows, home, changes, spilled, work, reading, touches,
                 mishaps>>

(* Mutant: what was there before goes too                                  *)
All == {Page(job.session), Source(job.session)}

(* What a failed publication leaves on disk: the files it made go, those   *)
(* of `left` stay because their removal failed too, those of `unknown`     *)
(* because it was not tried.                                               *)
Removed == job.made

CleanUp(with, left, unknown) ==
  /\ files' = Restrict(with, DOMAIN with \ (Removed \ left))
  /\ spilled' = spilled \cup left \cup unknown
  /\ Reply(job.session, "failed")

(* A write fails before the rename: the temporary file goes. Or the        *)
(* directory cannot be synced after it: the file has its final name, and   *)
(* the caller does not know that it made it.                               *)
WriteFails ==
  /\ up /\ job.at = "rename" /\ mishaps < MaxMishaps
  /\ LET id == Head(job.todo)
     IN /\ temps' = temps \ {id}
        /\ \E left \in SUBSET job.made :
             \/ CleanUp(files, left, {})
             \/ CleanUp(WithFile(id), left, {id})
  /\ mishaps' = mishaps + 1
  /\ UNCHANGED <<up, rows, home, changes, position, outcome, reading, touches>>

Ready(kind) ==
  up /\ job.at = "store" /\ job.todo = <<>> /\ EffectOf(job.session).kind = kind

(* The INSERT or the transaction fails: what this job made is removed, if  *)
(* that can be done.                                                       *)
RowsFail ==
  /\ up /\ job.at = "store" /\ job.todo = <<>> /\ mishaps < MaxMishaps
  /\ \E left \in SUBSET job.made : CleanUp(files, left, {})
  /\ mishaps' = mishaps + 1
  /\ UNCHANGED <<up, rows, temps, home, changes, position, outcome, reading,
                 touches>>

InsertRows(ids) ==
  rows' = [i \in DOMAIN rows \cup ids |-> IF i \in ids THEN Body ELSE rows[i]]

(* create_artifact_with_id: the row, after the file                        *)
InsertArtifact ==
  /\ Ready("artifact")
  /\ LET s == job.session
     IN /\ InsertRows({Page(s)})
        /\ changes' = Append(changes, Change(Page(s), s))
        /\ Reply(s, "ok")
  /\ UNCHANGED <<up, files, temps, home, spilled, position, outcome, reading,
                 touches, mishaps>>

(* Mutant: INSERT OR REPLACE                                               *)
KeysAreTaken(s) == TRUE

(* commit_project_home: one transaction compares the current page with the *)
(* one the new page was made from, and replaces it. The ids of Artifacts   *)
(* are primary keys, so a publication that was committed before cannot be  *)
(* committed again. (That the current page may be this very one is asked   *)
(* here too, but AlreadyThere has answered that: its body is the same.)    *)
KeysAreFree(s) == {Page(s), Source(s)} \cap DOMAIN rows = {}

CommitHome ==
  /\ Ready("home")
  /\ LET s == job.session
     IN \/ /\ home = job.base /\ KeysAreFree(s)
           /\ InsertRows({Page(s), Source(s)})
           /\ home' = [page |-> Page(s), body |-> Body]
           /\ changes' = changes \o <<Change(Source(s), s), Change(Page(s), s),
                                      Change(Home, s)>>
           /\ Reply(s, "ok")
           /\ UNCHANGED <<files, temps, spilled>>
        \/ /\ home # job.base \/ ~KeysAreFree(s)
           /\ CleanUp(files, {}, {})
           /\ UNCHANGED <<rows, temps, home, changes>>
  /\ UNCHANGED <<up, position, outcome, reading, touches, mishaps>>

(* finish_session_effect records the answer; a failed effect fails the     *)
(* Session.                                                                *)
Finish(s) ==
  /\ Quiet /\ answer[s] # None
  /\ answer' = [answer EXCEPT ![s] = None]
  /\ IF answer[s] = "ok"
     THEN position' = [position EXCEPT ![s] = @ + 1] /\ UNCHANGED outcome
     ELSE outcome' = [outcome EXCEPT ![s] = "failed"] /\ UNCHANGED position
  /\ UNCHANGED <<up, disk, job, reading, touches, mishaps>>

(* The Session was paused or closed while the job ran: its future is gone, *)
(* the effect is dispatched again when the Session resumes.                *)
AnswerDropped(s) ==
  /\ up /\ answer[s] # None /\ mishaps < MaxMishaps
  /\ answer' = [answer EXCEPT ![s] = None]
  /\ mishaps' = mishaps + 1
  /\ UNCHANGED <<up, disk, position, outcome, job, reading, touches>>

Crash ==
  /\ up /\ mishaps < MaxMishaps
  /\ up' = FALSE
  /\ job' = Idle
  /\ answer' = [s \in Sessions |-> None]
  /\ mishaps' = mishaps + 1
  /\ UNCHANGED <<disk, position, outcome, reading, touches>>

(* reconcile_artifacts when the runtime is built: every row must have its  *)
(* file, every other file goes.                                            *)
Reconciles == \A i \in DOMAIN rows : i \in DOMAIN files /\ files[i] = rows[i]

Recover ==
  /\ ~up /\ Reconciles
  /\ up' = TRUE
  /\ files' = Restrict(files, DOMAIN rows)
  /\ temps' = {} /\ spilled' = {}
  /\ UNCHANGED <<rows, home, changes, work, job, reading, touches, mishaps>>
-----------------------------------------------------------------------------
(* Reading changes                                                         *)

(* The triggers on the other tables                                        *)
Touch(x) ==
  /\ Quiet /\ touches < MaxTouches
  /\ changes' = Append(changes, Change(Row(x), Owner[x]))
  /\ touches' = touches + 1
  /\ UNCHANGED <<up, rows, files, temps, home, spilled, work, job, reading,
                 mishaps>>

Captured == Len(changes)

(* latest_entity_changes leaves out the reader's own changes and, if it    *)
(* asks for that, those of Sessions that run its program.                  *)
Visible(r, i) ==
  LET s == changes[i].session
  IN s # r /\ (Excludes[r] /\ s \in Sessions => Program[s] # Program[r])

Lesser(a, b) == IF a < b THEN a ELSE b

(* project_changes_after, and the latest change of each entity in it       *)
Batch(from) == (from + 1)..Lesser(from + BatchLimit, Captured)

Latest(r, from) ==
  {i \in Batch(from) :
     /\ Visible(r, i)
     /\ \A j \in Batch(from) : j > i /\ Visible(r, j)
                                 => changes[j].entity # changes[i].entity}

(* Batches with nothing to show are passed over, up to the one of the      *)
(* first change there is to show.                                          *)
Start(r) ==
  LET at   == cursor[r].sequence
      new  == {i \in (at + 1)..Captured : Visible(r, i)}
      gone == Min(new) - 1 - at
  IN IF new = {} THEN Captured ELSE at + gone - (gone % BatchLimit)

Rows == {Row(x) : x \in Records}

(* By its media type. A textual Artifact holds UTF-8: its content was a    *)
(* string in both effects that publish one, and read_artifact compares     *)
(* hashes, so the errors of str::from_utf8 do not arise.                   *)
IsTextual(id) == rows[id] \notin Binary

(* How large a snapshot is. Nothing bounds the name and the metadata that  *)
(* publish_artifact takes; the Project Home has ids, a hash and dates.     *)
Size(i) ==
  LET e == changes[i].entity
  IN CASE e \in Rows -> RecordSize[e.role]
       [] e \in Artifacts -> Details[e] + (IF IsTextual(e) THEN Length[rows[e]] ELSE 0)
       [] OTHER -> 1

(* Mutant: what fits by itself is taken out of turn.                       *)
FitAlone(latest) == {i \in latest : Size(i) + 1 <= PageRoom}

(* The pieces of a snapshot, and its separator                             *)
Pieces(i) == {i} \X (0..Size(i))

(* The changes that fit in one page with all that go before them           *)
Fits(latest) ==
  {i \in latest :
     Cardinality(UNION {Pieces(j) : j \in {l \in latest : l <= i}}) <= PageRoom}

Whole(e) == IF e \in Artifacts /\ IsTextual(e) THEN Length[rows[e]] ELSE 0

(* What the reader has of an entity after a snapshot of it                 *)
Shown(r, entities) ==
  [e \in DOMAIN view[r] \cup entities |->
     IF e \in entities THEN [at |-> Captured, upTo |-> Whole(e)]
     ELSE view[r][e]]

(* What an Artifact's details leave of a page                              *)
Room(id) == IF Details[id] < PageRoom THEN PageRoom - Details[id] ELSE 0

(* fit_artifact_end                                                        *)
PieceEnd(id, offset) == Lesser(Length[rows[id]], offset + Room(id))

(* "metadata leaves no room for content"                                   *)
NoRoom(id, offset) == offset < Length[rows[id]] /\ PieceEnd(id, offset) = offset

HasMore(fits, sequence) == sequence < Captured

(* The pieces from `offset` that fit, and a continuation if there are      *)
(* more. A reader appends a page to what it has of the text.               *)
TextPage(r, id, sequence, offset) ==
  LET end  == PieceEnd(id, offset)
      had  == IF offset = 0 \/ id \notin DOMAIN view[r] THEN 0
              ELSE view[r][id].upTo
      full == end = Length[rows[id]]
  IN /\ cursor' = [cursor EXCEPT ![r] =
                     [sequence |-> sequence, artifact |-> IF full THEN NoArtifact ELSE id,
                      offset |-> IF full THEN 0 ELSE end]]
     /\ view' = [view EXCEPT ![r] =
                   [e \in DOMAIN @ \cup {id} |->
                      IF e = id THEN [at |-> Captured, upTo |-> had + end - offset]
                      ELSE @[e]]]
     /\ more' = [more EXCEPT ![r] = ~full \/ Captured > sequence]
     /\ UNCHANGED stuck

Fail(r) == stuck' = [stuck EXCEPT ![r] = TRUE] /\ UNCHANGED <<cursor, more, view>>

(* Mutant: each page starts the text over.                                 *)
ArtifactAnew(r, id, sequence, offset) == TextPage(r, id, sequence, 0)

ArtifactPage(r, id, sequence, offset) ==
  IF NoRoom(id, offset) THEN Fail(r) ELSE TextPage(r, id, sequence, offset)

(* project_snapshot_changes without a continuation. A snapshot that does   *)
(* not fit in a page by itself is paged if it is a text (start_artifact);  *)
(* a binary Artifact's, or another record's, fails the read.               *)
FirstPage(r) == \E latest \in {Latest(r, Start(r))} :
  LET fits   == Fits(latest)
      first  == Min(latest)
      id     == changes[first].entity
      last   == Max(fits)
  IN CASE latest = {} ->
            /\ cursor' = [cursor EXCEPT ![r].sequence = Captured]
            /\ more' = [more EXCEPT ![r] = FALSE]
            /\ UNCHANGED <<view, stuck>>
       [] latest # {} /\ fits = {} ->
            IF id \in Artifacts /\ IsTextual(id) THEN ArtifactPage(r, id, first, 0)
            ELSE Fail(r)
       [] fits # {} ->
            /\ cursor' = [cursor EXCEPT ![r].sequence = last]
            /\ more' = [more EXCEPT ![r] = HasMore(fits, last)]
            /\ view' = [view EXCEPT ![r] = Shown(r, {changes[i].entity : i \in fits})]
            /\ UNCHANGED stuck

(* project_snapshot_changes, and its result in the reader's hands. A crash *)
(* in between leaves the reader where it was, as if it had not read.       *)
ReadPage(r) ==
  /\ Quiet /\ ~stuck[r]
  /\ IF cursor[r].artifact = NoArtifact THEN FirstPage(r)
     ELSE ArtifactPage(r, cursor[r].artifact, cursor[r].sequence, cursor[r].offset)
  /\ UNCHANGED <<up, disk, work, job, touches, mishaps>>

(* The program reads on while has_more, and again after its next wait.     *)
ReadOn(r) == more[r] /\ ReadPage(r)
ReadAgain(r) == ~more[r] /\ cursor[r].sequence < Captured /\ ReadPage(r)
-----------------------------------------------------------------------------
StoreStep == StoreFile \/ Rename \/ InsertArtifact \/ CommitHome

Next ==
  \/ \E s \in Sessions : Dispatch(s) \/ Finish(s) \/ AnswerDropped(s)
  \/ StoreStep \/ WriteFails \/ RowsFail
  \/ Crash \/ Recover
  \/ \E x \in Records : Touch(x)
  \/ \E r \in Readers : ReadOn(r) \/ ReadAgain(r)

Spec == Init /\ [][Next]_vars

(* The Store thread takes a next job while there is one, Sessions dispatch *)
(* and readers read on, and a server that stopped is started again: with   *)
(* any of that to do, some of it happens.                                  *)
Progress ==
  \/ StoreStep \/ Recover
  \/ \E s \in Sessions : Dispatch(s) \/ Finish(s)
  \/ \E r \in Readers : ReadOn(r)

Fairness == WF_vars(Progress)

FairSpec == Spec /\ Fairness
-----------------------------------------------------------------------------
(* Properties                                                              *)

ChangeType == [entity : Rows \cup Artifacts \cup {Home}, session : Sessions \cup {NoSession}]

HomeType == [page : Artifacts, body : Bodies] \cup {NoHome}

Publications == [at : {"store", "rename"}, session : Sessions, todo : Seq(Artifacts),
                 made : SUBSET Artifacts, base : HomeType]

(* The variables that publications work on keep their types.               *)
TypeOK ==
  /\ up \in BOOLEAN
  /\ DOMAIN rows \subseteq Artifacts /\ DOMAIN files \subseteq Artifacts
  /\ temps \subseteq Artifacts /\ spilled \subseteq Artifacts
  /\ home \in HomeType
  /\ changes \in Seq(ChangeType)
  /\ position \in [Sessions -> Nat \ {0}]
  /\ answer \in [Sessions -> {None, "ok", "failed"}]
  /\ outcome \in [Sessions -> {"running", "failed"}]
  /\ job \in Publications \cup {Idle}

RowsHaveTheirFiles ==
  /\ \A i \in DOMAIN rows : i \in DOMAIN files /\ files[i] = rows[i]
  /\ home # NoHome => home.page \in DOMAIN rows /\ rows[home.page] = home.body

FilesAreAccounted ==
  Quiet => temps = {} /\ DOMAIN files \ DOMAIN rows \subseteq spilled

(* Whatever fails and whenever the process stops, a row of an Artifact has *)
(* a file with its content, and the Project Home names a page with its     *)
(* revision: what a reader is pointed at can be read (read_artifact_file), *)
(* and reconcile_artifacts never refuses a Project. Between jobs of a      *)
(* running Project nothing lies on disk that no row names, except what a   *)
(* failed removal or a failed sync left there since the runtime was built. *)
DiskMatchesRows == RowsHaveTheirFiles /\ FilesAreAccounted

ChangesOf(e) == {i \in DOMAIN changes : changes[i].entity = e}

IsHomePage(id) == id.role = "page" /\ Works[id.session][id.effect].kind = "home"

(* However often an effect is replayed, its Artifact is announced once,    *)
(* and the page it published becomes the Project Home once. (An effect     *)
(* that was first answered that the Home has its content already published *)
(* no page; replayed after another page replaced that one, it publishes.)  *)
PublishedOnce ==
  /\ \A a \in Artifacts : Cardinality(ChangesOf(a)) <= 1
  /\ Cardinality(ChangesOf(Home)) = Cardinality({a \in DOMAIN rows : IsHomePage(a)})

(* A Session whose publication is in the Store fails over it only if it is *)
(* a page that another one has replaced: everything else replays.          *)
OnlyOvertakenWorkIsDisowned ==
  \A s \in Sessions :
    outcome[s] = "failed" /\ Page(s) \in DOMAIN rows
      => EffectOf(s).kind = "home" /\ home.page # Page(s)

EverythingWasShown(r) ==
  \A i \in 1..cursor[r].sequence :
    Visible(r, i) =>
      LET e == changes[i].entity
      IN \/ \E j \in ChangesOf(e) : j > cursor[r].sequence /\ Visible(r, j)
         \/ /\ e \in DOMAIN view[r] /\ view[r][e].at >= i
            /\ e = cursor[r].artifact \/ view[r][e].upTo = Whole(e)

(* What no page can show any of: of a text, when the rest of its Artifact  *)
(* fills a page.                                                           *)
Unpageable(i) ==
  LET e == changes[i].entity
  IN IF e \in Artifacts /\ IsTextual(e) THEN NoRoom(e, 0) ELSE Size(i) + 1 > PageRoom

OversizeIsNext(r) ==
  \E i \in DOMAIN changes :
    i > cursor[r].sequence /\ Visible(r, i) /\ Unpageable(i)

(* Everything up to its cursor that a reader is to see it has been shown,  *)
(* as new as the change or newer and to its last piece, or it is about to  *)
(* be shown for a later change: no limit on rows or bytes skips anything.  *)
(* Text of any length can be read. A reader is stopped only in front of a  *)
(* record, or an Artifact's name and metadata, that fill a page.           *)
ReadersMissNothing ==
  \A r \in Readers : EverythingWasShown(r) /\ (stuck[r] => OversizeIsNext(r))

(* A program that reads on while has_more stops reading.                   *)
ReadersCatchUp == \A r \in Readers : more[r] ~> (~more[r] \/ stuck[r])
=============================================================================
