--------------------------- MODULE ProjectCatalog ---------------------------
(***************************************************************************)
(* The Projects of a data directory and the requests that create, move,    *)
(* remove and use them: the catalog on disk (crates/store/src/catalog.rs), *)
(* the Store thread of each live Project and its bounded queue             *)
(* (crates/store/src/handle.rs), and the map of live Projects behind a     *)
(* RwLock, with its handlers (crates/server/src/lib.rs).                   *)
(*                                                                         *)
(* A handler is a future: it holds its lease or its write guard from one   *)
(* label to another, and it is gone, guards and all, when its client       *)
(* hangs up. What it has handed to the blocking pool or to a Store thread  *)
(* goes on without it.                                                     *)
(***************************************************************************)
EXTENDS Naturals, Sequences, FiniteSets, Functions

CONSTANTS
  Projects,     (* the ids of Projects, present and to come                 *)
  Present,      (* Present[p]: the workspace of a Project that is there     *)
  Requests, Kind, Project, Target, (* what each request asks, of which      *)
                (* Project, and with which workspace                        *)
  Asked,        (* which requests come together, at TLC's choice            *)
  Workspaces,
  Above,        (* Above[w]: w and the directories that contain it          *)
  Managed,      (* those that overlap the data directory                    *)
  QueueCapacity,(* STORE_QUEUE_CAPACITY                                     *)
  MaxMishaps    (* bounds TLC's exploration: crashes, failures, hang-ups    *)

None == "none"

Kinds == {"create", "relocate", "remove", "start", "stream"}

Overlap(v, w) == v \in Above[w] \/ w \in Above[v]

ASSUME CatalogAssumption ==
  /\ DOMAIN Present \subseteq Projects /\ Range(Present) \subseteq Workspaces \ Managed
  /\ Kind \in [Requests -> Kinds]
  /\ Project \in [Requests -> Projects]
  /\ Target \in [Requests -> Workspaces]
  /\ Asked \subseteq SUBSET Requests
  /\ Above \in [Workspaces -> SUBSET Workspaces]
  /\ \A w \in Workspaces : w \in Above[w]
  /\ None \notin Workspaces
  /\ \A p, q \in DOMAIN Present : p # q => ~Overlap(Present[p], Present[q])
  /\ QueueCapacity \in Nat \ {0} /\ MaxMishaps \in Nat
  (* An id is made for one request (ProjectId::new).                        *)
  /\ \A g, h \in Requests :
       Kind[g] = "create" /\ Kind[h] = "create" /\ Project[g] = Project[h] => g = h
  /\ \A h \in Requests : Kind[h] = "create" => Project[h] \notin DOMAIN Present

VARIABLES
  up,        (* whether the server runs                                     *)
  place,     (* where each Project's directory is                           *)
  workspace, (* the workspace in its database                               *)
  damaged,   (* the Projects whose Store cannot be opened                   *)
  active,    (* the Projects with a Session that has not ended              *)
  projects,  (* the map: each Project's entry, its runtime built or not     *)
  thread,    (* the Projects whose Store thread runs                        *)
  queue,     (* the commands sent to it                                     *)
  stopped,   (* whether the handle refuses further calls                    *)
  pc,        (* where each request is                                       *)
  dropped,   (* whose future is gone while its task runs on                 *)
  doomed,    (* trash that is scheduled to be purged                        *)
  mishaps

disk     == <<place, workspace, damaged, active>>
stores   == <<thread, queue, stopped>>
requests == <<pc, dropped>>
vars     == <<up, disk, projects, stores, requests, doomed, mishaps>>

Ended   == {"done", "failed", "left", "gone", "over", "absent"}
Working == {"lock", "lease", "load", "call", "send", "called", "stop", "halt",
            "halted", "retire", "reopen", "admit", "stage", "publish", "open", "spawn",
            "build", "insert"}

Init ==
  /\ up = TRUE
  /\ place = [p \in Projects |-> IF p \in DOMAIN Present THEN "projects" ELSE None]
  /\ workspace = [p \in Projects |-> IF p \in DOMAIN Present THEN Present[p] ELSE None]
  /\ damaged = {} /\ active = {}
  /\ projects = [p \in Projects |-> IF p \in DOMAIN Present THEN "unloaded" ELSE None]
  /\ thread = DOMAIN Present
  /\ queue = [p \in Projects |-> <<>>]
  /\ stopped = {}
  /\ \E asked \in Asked :
       pc = [h \in Requests |-> IF h \in asked THEN "start" ELSE "absent"]
  /\ dropped = {} /\ doomed = {} /\ mishaps = 0
-----------------------------------------------------------------------------
(* The guards a request holds follow from where it is.                     *)
Reading(h) == Kind[h] = "start" /\ pc[h] \in {"load", "call", "send", "called"}

Writing(h) ==
  /\ Kind[h] \in {"relocate", "remove"} /\ h \notin dropped
  /\ pc[h] \in {"call", "send", "called", "stop", "halt", "halted", "retire",
               "reopen"}

ReadFree  == ~\E h \in Requests : Writing(h)
WriteFree == ~\E h \in Requests : Writing(h) \/ Reading(h)

(* The catalog's `mutation`                                                *)
MutexFree == ~\E h \in Requests : pc[h] \in {"stage", "publish", "open"}

(* What a task does next is of no use to a future that is gone.            *)
Goto(h, label) ==
  pc' = [pc EXCEPT ![h] = IF h \in dropped THEN "gone" ELSE label]

Move(h, from, to) == up /\ pc[h] = from /\ Goto(h, to)

Fault == mishaps < MaxMishaps /\ mishaps' = mishaps + 1
Fine  == UNCHANGED mishaps

Listed == {p \in Projects : place[p] = "projects"}

(* Mutants: only the entries that open count; only equal paths do          *)
Resilient(p, w) ==
  /\ w \notin Managed
  /\ \A q \in Listed \ ({p} \cup damaged) : ~Overlap(workspace[q], w)

(* scan_unlocked refuses a catalog with an entry that cannot be opened;    *)
(* then ensure_workspace_is_external and ensure_workspace_is_unique.       *)
Admissible(p, w) ==
  /\ w \notin Managed
  /\ Listed \cap damaged = {}
  /\ \A q \in Listed \ {p} : ~Overlap(workspace[q], w)

(* A request comes in.                                                     *)
Arrive(h) ==
  /\ Move(h, "start", CASE Kind[h] = "create" -> "admit"
                        [] Kind[h] \in {"relocate", "remove"} -> "lock"
                        [] Kind[h] \in {"start", "stream"} -> "lease")
  /\ UNCHANGED <<up, disk, projects, stores, dropped, doomed, mishaps>>
-----------------------------------------------------------------------------
(* create_project: ProjectCatalog's task                                   *)

CreateAdmit(h) ==
  LET p == Project[h]
  IN /\ up /\ pc[h] = "admit" /\ MutexFree
     /\ IF Admissible(p, Target[h]) THEN pc' = [pc EXCEPT ![h] = "stage"]
        ELSE Goto(h, "failed")
     /\ UNCHANGED <<up, disk, projects, stores, dropped, doomed, mishaps>>

(* Store::create under staging/. What fails is removed, if that works.     *)
CreateStage(h) ==
  LET p == Project[h]
  IN /\ up /\ pc[h] = "stage"
     /\ workspace' = [workspace EXCEPT ![p] = Target[h]]
     /\ \/ /\ place' = [place EXCEPT ![p] = "staging"] /\ Fine
           /\ pc' = [pc EXCEPT ![h] = "publish"]
        \/ /\ place' \in {place, [place EXCEPT ![p] = "staging"]} /\ Fault
           /\ Goto(h, "failed")
     /\ UNCHANGED <<up, damaged, active, projects, stores, dropped, doomed>>

CreatePublish(h) ==
  LET p == Project[h]
  IN /\ up /\ pc[h] = "publish"
     /\ \/ /\ place' = [place EXCEPT ![p] = "projects"] /\ Fine
           /\ pc' = [pc EXCEPT ![h] = "open"]
        \/ /\ place' \in {place, [place EXCEPT ![p] = None]} /\ Fault
           /\ Goto(h, "failed")
     /\ UNCHANGED <<up, workspace, damaged, active, projects, stores, dropped,
                    doomed>>

(* The directories are synced, the Store is opened again and validated; or *)
(* the new Project is taken back into trash/, if that works.               *)
CreateOpen(h) ==
  LET p == Project[h]
  IN /\ up /\ pc[h] = "open"
     /\ \/ p \notin damaged /\ Goto(h, "spawn") /\ Fine /\ UNCHANGED place
        \/ /\ Goto(h, "failed")
           /\ place' = [place EXCEPT ![p] = "trash"]
           /\ IF p \in damaged THEN Fine ELSE Fault
        \/ Goto(h, "left") /\ Fault /\ UNCHANGED place
     /\ UNCHANGED <<up, workspace, damaged, active, projects, stores, dropped,
                    doomed>>

Spawned(p) ==
  /\ thread' = thread \cup {p}
  /\ queue' = [queue EXCEPT ![p] = <<>>]
  /\ stopped' = stopped \ {p}

CreateSpawn(h) ==
  /\ \/ Move(h, "spawn", "build") /\ Spawned(Project[h]) /\ Fine
     \/ Move(h, "spawn", "left") /\ Fault /\ UNCHANGED stores
  /\ UNCHANGED <<up, disk, projects, dropped, doomed>>

(* ProjectRuntimeFactory::build                                            *)
CreateBuild(h) ==
  /\ \/ Move(h, "build", "insert") /\ Fine
     \/ Move(h, "build", "stop") /\ Fault
  /\ UNCHANGED <<up, disk, projects, stores, dropped, doomed>>

CreateInsert(h) ==
  /\ WriteFree /\ Move(h, "insert", "done")
  /\ projects' = [projects EXCEPT ![Project[h]] = "loaded"]
  /\ UNCHANGED <<up, disk, stores, dropped, doomed, mishaps>>
-----------------------------------------------------------------------------
(* Leases                                                                  *)

(* project_lease. A stream takes the StoreHandle and drops its lease.      *)
Lease(h) ==
  /\ ReadFree
  /\ Move(h, "lease", IF projects[Project[h]] = None THEN "failed"
                      ELSE IF Kind[h] = "stream" THEN "call" ELSE "load")
  /\ UNCHANGED <<up, disk, projects, stores, dropped, doomed, mishaps>>

(* ProjectReadLease::runtime: built once, or tried again next time         *)
Load(h) ==
  /\ \/ Move(h, "load", "call") /\ Fine
        /\ projects' = [projects EXCEPT ![Project[h]] = "loaded"]
     \/ /\ projects[Project[h]] = "unloaded"
        /\ Move(h, "load", "failed") /\ Fault /\ UNCHANGED projects
  /\ UNCHANGED <<up, disk, stores, dropped, doomed>>

(* project_write                                                           *)
Lock(h) ==
  /\ WriteFree
  /\ Move(h, "lock", IF projects[Project[h]] = None THEN "failed" ELSE "call")
  /\ UNCHANGED <<up, disk, projects, stores, dropped, doomed, mishaps>>
-----------------------------------------------------------------------------
(* StoreHandle                                                             *)

Command(h, stop) == [by |-> h, stop |-> stop]

Enqueue(p, command) ==
  /\ Len(queue[p]) < QueueCapacity
  /\ queue' = [queue EXCEPT ![p] = Append(@, command)]

(* call: refused by a stopped handle; then sent when there is room, even   *)
(* if the handle has been stopped since.                                   *)
Call(h) ==
  /\ Move(h, "call", IF Project[h] \in stopped THEN "failed" ELSE "send")
  /\ UNCHANGED <<up, disk, projects, stores, dropped, doomed, mishaps>>

Send(h) ==
  /\ Move(h, "send", "called") /\ Enqueue(Project[h], Command(h, FALSE))
  /\ UNCHANGED <<up, disk, projects, thread, stopped, dropped, doomed, mishaps>>

(* shutdown marks the handle, then sends the last command.                 *)
Stop(h) ==
  /\ Move(h, "stop", "halt")
  /\ stopped' = stopped \cup {Project[h]}
  /\ UNCHANGED <<up, disk, projects, thread, queue, dropped, doomed, mishaps>>

Halt(h) ==
  /\ Move(h, "halt", "halted")
  /\ Enqueue(Project[h], Command(h, TRUE))
  /\ UNCHANGED <<up, disk, projects, thread, stopped, dropped, doomed, mishaps>>

NextCommand(p) == up /\ p \in thread /\ queue[p] # <<>>

Job(p, kind) ==
  NextCommand(p) /\ ~Head(queue[p]).stop /\ Kind[Head(queue[p]).by] = kind

(* The answer goes nowhere if the future is gone.                          *)
Answer(p, label) ==
  LET h == Head(queue[p]).by
  IN /\ queue' = [queue EXCEPT ![p] = Tail(@)]
     /\ pc' = IF pc[h] = "called" THEN [pc EXCEPT ![h] = label] ELSE pc

(* A handler that starts a Session creates it in one job.                  *)
RunStart(p) ==
  /\ Job(p, "start") /\ Answer(p, "done")
  /\ active' = active \cup {p}
  /\ UNCHANGED <<up, place, workspace, damaged, projects, thread, stopped, dropped,
                 doomed, mishaps>>

RunStream(p) ==
  /\ Job(p, "stream") /\ Answer(p, "done")
  /\ UNCHANGED <<up, disk, projects, thread, stopped, dropped, doomed, mishaps>>

(* Mutant: nothing is asked                                                *)
Anyway(p) == TRUE

(* ensure_project_can_detach                                               *)
CanDetach(p) == p \notin active

(* relocate_project: one job, which waits for the catalog's mutex          *)
RunRelocate(p) ==
  LET w == Target[Head(queue[p]).by]
  IN /\ Job(p, "relocate") /\ MutexFree
     /\ \/ CanDetach(p) /\ Admissible(p, w) /\ Answer(p, "done")
           /\ workspace' = [workspace EXCEPT ![p] = w]
        \/ ~(CanDetach(p) /\ Admissible(p, w)) /\ Answer(p, "failed")
           /\ UNCHANGED workspace
     /\ UNCHANGED <<up, place, damaged, active, projects, thread, stopped, dropped,
                    doomed, mishaps>>

(* Mutant: the entry of the map goes last.                                 *)
KeptEntry(p) == projects

AfterDetach(p) == "stop"
Unlisted(p) == [projects EXCEPT ![p] = None]

(* remove_project's job, and the entry leaves the map                      *)
RunRemove(p) ==
  LET h == Head(queue[p]).by
  IN /\ Job(p, "remove")
     /\ Answer(p, IF CanDetach(p) THEN AfterDetach(p) ELSE "failed")
     /\ projects' = IF pc[h] = "called" /\ CanDetach(p) THEN Unlisted(p)
                    ELSE projects
     /\ UNCHANGED <<up, disk, thread, stopped, dropped, doomed, mishaps>>

(* Mutant: who waits is not told.                                          *)
NotTold(p, h) == pc[h] \in {"call", "halted"}

(* The thread ends with its last command. What is left in the queue is     *)
(* dropped with its senders and nothing more can be sent, so everyone who  *)
(* still uses the handle hears that it has stopped.                        *)
Told(p, h) == pc[h] \in {"call", "send", "called", "halted"}

RunStop(p) ==
  /\ NextCommand(p) /\ Head(queue[p]).stop
  /\ thread' = thread \ {p}
  /\ queue' = [queue EXCEPT ![p] = <<>>]
  /\ pc' = [h \in Requests |->
              IF Project[h] # p \/ ~Told(p, h) THEN pc[h]
              ELSE IF pc[h] = "halted" THEN "retire" ELSE "failed"]
  /\ UNCHANGED <<up, disk, projects, stopped, dropped, doomed, mishaps>>

(* The last clone of the handle is gone.                                   *)
Held(p) ==
  \/ projects[p] # None
  \/ \E h \in Requests :
       /\ Project[h] = p
       /\ pc[h] \in {"build", "insert", "stop", "halt", "halted", "call", "send",
                   "called"}

ThreadEnds(p) ==
  /\ up /\ p \in thread /\ queue[p] = <<>> /\ ~Held(p)
  /\ thread' = thread \ {p}
  /\ UNCHANGED <<up, disk, projects, queue, stopped, requests, doomed, mishaps>>
-----------------------------------------------------------------------------
(* Retiring a Project: of a creation that failed, and of a removal         *)

AfterRetire(h) ==
  IF Kind[h] = "create" THEN [ok |-> "failed", error |-> "left"]
  ELSE [ok |-> "done", error |-> "reopen"]

(* The rename, or its sync, fails; a task whose future is gone retires,    *)
(* but nobody schedules the purge.                                         *)
Retire(h) ==
  LET p == Project[h]
      moved == [place EXCEPT ![p] = "trash"]
  IN /\ MutexFree
     /\ \/ /\ Move(h, "retire", AfterRetire(h).ok) /\ Fine
           /\ place' = moved
           /\ doomed' = IF h \in dropped THEN doomed ELSE doomed \cup {p}
        \/ /\ Move(h, "retire", AfterRetire(h).error) /\ Fault
           /\ place' \in {place, moved}
           /\ UNCHANGED doomed
     /\ UNCHANGED <<up, workspace, damaged, active, projects, stores, dropped>>

Back(p) == [projects EXCEPT ![p] = "unloaded"]

(* A removal that failed puts the Project back, unless its directory is    *)
(* gone or cannot be opened.                                               *)
Reopen(h) ==
  LET p == Project[h]
  IN /\ \/ /\ Move(h, "reopen", "failed") /\ Fine
           /\ place[p] = "projects" /\ p \notin damaged
           /\ Spawned(p)
           /\ projects' = Back(p)
        \/ /\ Move(h, "reopen", "left")
           /\ IF place[p] = "projects" /\ p \notin damaged THEN Fault ELSE Fine
           /\ UNCHANGED <<stores, projects>>
     /\ UNCHANGED <<up, disk, dropped, doomed>>

Purge(p) ==
  /\ up /\ p \in doomed
  /\ \/ place' = [place EXCEPT ![p] = "purged"] /\ Fine
     \/ UNCHANGED place /\ Fault
  /\ doomed' = doomed \ {p}
  /\ UNCHANGED <<up, workspace, damaged, active, projects, stores, requests>>
-----------------------------------------------------------------------------
(* What happens to the server                                              *)

(* The last Session of a Project ends in its runtime.                      *)
EndSessions(p) ==
  /\ up /\ p \in active /\ projects[p] = "loaded"
  /\ active' = active \ {p}
  /\ UNCHANGED <<up, place, workspace, damaged, projects, stores, requests, doomed,
                 mishaps>>

Tasks == {"admit", "stage", "publish", "open", "retire"}

(* A client hangs up.                                                      *)
Drop(h) ==
  /\ up /\ pc[h] \in Working /\ h \notin dropped /\ Fault
  /\ IF pc[h] \in Tasks
     THEN dropped' = dropped \cup {h} /\ UNCHANGED pc
     ELSE pc' = [pc EXCEPT ![h] = "gone"] /\ UNCHANGED dropped
  /\ UNCHANGED <<up, disk, projects, stores, doomed>>

(* A Project's database or rollouts become unreadable.                     *)
Damage(p) ==
  /\ place[p] = "projects" /\ p \notin damaged /\ Fault
  /\ damaged' = damaged \cup {p}
  /\ UNCHANGED <<up, place, workspace, active, projects, stores, requests, doomed>>

Crash ==
  /\ up /\ Fault
  /\ up' = FALSE
  /\ projects' = [p \in Projects |-> None]
  /\ thread' = {} /\ queue' = [p \in Projects |-> <<>>] /\ stopped' = {}
  /\ pc' = [h \in Requests |-> IF pc[h] \in {"start", "absent"} THEN pc[h]
                                    ELSE "over"]
  /\ dropped' = {} /\ doomed' = {}
  /\ UNCHANGED disk

(* scan_resilient: of two entries whose workspaces overlap, the later one  *)
(* is passed over.                                                         *)
Scanned(found) ==
  /\ \A p, q \in found : p # q => ~Overlap(workspace[p], workspace[q])
  /\ \A p \in (Listed \ damaged) \ found :
       \E q \in found : Overlap(workspace[p], workspace[q])

(* initialize: staging/ goes to trash/, what opens is listed, trash/ is    *)
(* purged, and Projects with Sessions get their runtime, if it builds.     *)
Initialize ==
  /\ ~up /\ up' = TRUE
  /\ place' = [p \in Projects |-> IF place[p] = "staging" THEN "trash" ELSE place[p]]
  /\ \E found \in SUBSET (Listed \ damaged) :
       /\ Scanned(found)
       /\ thread' = found
       /\ \E built \in SUBSET (found \cap active) :
            /\ projects' = [p \in Projects |->
                              CASE p \in built -> "loaded"
                                [] p \in found \ built -> "unloaded"
                                [] OTHER -> None]
            /\ IF built = found \cap active THEN Fine ELSE Fault
  /\ doomed' = {p \in Projects : place'[p] = "trash"}
  /\ UNCHANGED <<workspace, damaged, active, queue, stopped, requests>>
-----------------------------------------------------------------------------
CreateStep(h) ==
  \/ CreateAdmit(h) \/ CreateStage(h) \/ CreatePublish(h) \/ CreateOpen(h)
  \/ CreateSpawn(h) \/ CreateBuild(h) \/ CreateInsert(h)

RequestStep(h) ==
  \/ CreateStep(h) \/ Lease(h) \/ Load(h) \/ Lock(h) \/ Call(h) \/ Send(h)
  \/ Stop(h) \/ Halt(h) \/ Retire(h) \/ Reopen(h)

ThreadStep(p) ==
  \/ RunStart(p) \/ RunStream(p) \/ RunRelocate(p) \/ RunRemove(p) \/ RunStop(p)
  \/ ThreadEnds(p)

Next ==
  \/ \E h \in Requests : Arrive(h) \/ RequestStep(h) \/ Drop(h)
  \/ \E p \in Projects : ThreadStep(p) \/ Purge(p) \/ EndSessions(p) \/ Damage(p)
  \/ Crash \/ Initialize

Spec == Init /\ [][Next]_vars

(* Futures that can go on are polled, Store threads and the blocking pool  *)
(* run, a server that stopped is started again. Sessions need not end.     *)
Progress ==
  \/ \E h \in Requests : RequestStep(h)
  \/ \E p \in Projects : ThreadStep(p) \/ Purge(p)
  \/ Initialize

FairSpec == Spec /\ WF_vars(Progress)
-----------------------------------------------------------------------------
(* Properties                                                              *)

(* No two Projects work in workspaces that contain one another, and none   *)
(* in PaperMachine's own directory, whoever creates and moves Projects at  *)
(* the same time and whichever entry cannot be read just now.              *)
WorkspacesDisjoint ==
  \A p \in Listed :
    /\ workspace[p] \in Workspaces \ Managed
    /\ \A q \in Listed : p # q => ~Overlap(workspace[p], workspace[q])

(* An entry of the map has a Store thread that answers and a directory     *)
(* under projects/: no request is let into a Project that is being taken   *)
(* away. What lies in trash/ has no Store thread any more, so purging it   *)
(* pulls no file from under one ("after live references to the Project     *)
(* runtime have drained").                                                 *)
EntriesAreLive ==
  \A p \in Projects :
    /\ projects[p] # None =>
         place[p] = "projects" /\ p \in thread /\ p \notin stopped
    /\ place[p] \in {"trash", "purged"} => p \notin thread

(* A Project with a Session that has not ended stays where it is: its      *)
(* directory, its workspace and its entry, even when the request that      *)
(* started the Session was dropped before it was answered.                 *)
BusyProjectsStay ==
  [][\A p \in active :
       /\ place'[p] = place[p] /\ workspace'[p] = workspace[p]
       /\ up /\ up' /\ projects[p] # None => projects'[p] # None]_vars

(* Every request that came in comes to its end: leases, the catalog's      *)
(* mutex and the Stores' queues never wait for each other, and no call is  *)
(* left without an answer when a Store stops.                              *)
RequestsEnd == <>[](\A h \in Requests : pc[h] \notin Working)
=============================================================================
