------------------------ MODULE ProjectCatalog_proofs ------------------------
(***************************************************************************)
(* Proofs about ProjectCatalog, for any Projects, any requests that come   *)
(* together and any number of hang-ups, failures and crashes: workspaces   *)
(* stay apart, the map's entries are live, and busy Projects stay.         *)
(***************************************************************************)
EXTENDS ProjectCatalog, TLAPS

(* The labels of each kind of request                                      *)
Everyone == {"absent", "start", "done", "failed", "gone", "over"}
Calling  == {"call", "send", "called"}
Stopping == {"stop", "halt", "halted", "retire"}
Creating == {"admit", "stage", "publish", "open", "spawn", "build", "insert"}

Labels(kind) ==
  Everyone \cup
    CASE kind = "create"   -> Creating \cup Stopping \cup {"left"}
      [] kind = "relocate" -> Calling \cup {"lock"}
      [] kind = "remove"   -> Calling \cup {"lock"} \cup Stopping \cup {"reopen", "left"}
      [] kind = "start"    -> Calling \cup {"lease", "load"}
      [] kind = "stream"   -> Calling \cup {"lease"}

Commands(p) == [by : {h \in Requests : Project[h] = p}, stop : BOOLEAN]

TypeOK ==
  /\ up \in BOOLEAN
  /\ place \in [Projects -> {None, "staging", "projects", "trash", "purged"}]
  /\ workspace \in [Projects -> Workspaces \cup {None}]
  /\ damaged \subseteq Projects /\ active \subseteq Projects
  /\ projects \in [Projects -> {None, "unloaded", "loaded"}]
  /\ thread \subseteq Projects /\ stopped \subseteq Projects
  /\ DOMAIN queue = Projects /\ \A p \in Projects : queue[p] \in Seq(Commands(p))
  /\ DOMAIN pc = Requests /\ \A h \in Requests : pc[h] \in Labels(Kind[h])
  /\ dropped \subseteq Requests /\ doomed \subseteq Projects

(* A server that stopped has left nothing but the disk.                    *)
DownIsEmpty ==
  ~up => /\ thread = {} /\ stopped = {} /\ doomed = {}
         /\ \A p \in Projects : queue[p] = <<>> /\ projects[p] = None
         /\ \A h \in Requests : pc[h] \notin Working

(* Guards: one writer and no reader beside it, one task in the catalog. A  *)
(* future that is gone has left nothing but a task.                        *)
InCatalog == {"stage", "publish", "open"}

GuardsExclude ==
  /\ \A h \in Requests : pc[h] \in Working \ Tasks => h \notin dropped
  /\ \A g, h \in Requests : Writing(h) => ~Reading(g) /\ (Writing(g) => g = h)
  /\ \A g, h \in Requests : pc[g] \in InCatalog /\ pc[h] \in InCatalog => g = h

(* Who has a guard works on an entry of the map; who is taking a Project   *)
(* away has taken it off the map before, alone, and nothing it has not     *)
(* seen can make the Project busy.                                         *)
Guarded(h)  == Kind[h] \in {"start", "relocate", "remove"}
                 /\ pc[h] \in Calling \cup {"load"}
Removing(h) == Kind[h] = "remove" /\ pc[h] \in Stopping \cup {"reopen"}
Young(h)    == Kind[h] = "create"
                 /\ pc[h] \in {"absent", "start"} \cup Creating \cup Stopping

NoStarts(p) == \A i \in DOMAIN queue[p] : Kind[queue[p][i].by] # "start"

Apart(h) ==
  LET p == Project[h]
  IN /\ projects[p] = None /\ p \notin active /\ NoStarts(p)
     /\ \A g \in Requests : g # h /\ Project[g] = p => ~Removing(g)

EntriesAreOwned ==
  \A h \in Requests :
    /\ Guarded(h) => projects[Project[h]] # None
    /\ Young(h) \/ Removing(h) => Apart(h)
    /\ pc[h] = "halt" => Project[h] \in stopped
    /\ pc[h] \in {"retire", "reopen"} => Project[h] \notin thread

(* How far a creation has come                                             *)
FreshAt(h, label) ==
  LET p == Project[h]
  IN Kind[h] = "create" =>
       /\ label \in {"absent", "start", "admit", "stage"} => place[p] = None /\ p \notin thread
       /\ label = "publish" => place[p] = "staging" /\ p \notin thread
       /\ label \in {"open", "spawn"} => place[p] = "projects" /\ p \notin thread
       /\ label \in {"build", "insert"} =>
            place[p] = "projects" /\ p \in thread /\ p \notin stopped

CreationsAreFresh == \A h \in Requests : FreshAt(h, pc[h])

(* The catalog's task knows that the new workspace is apart from all.      *)
AdmissibleAt(h, label) ==
  label \in {"stage", "publish"} =>
    /\ Target[h] \notin Managed
    /\ \A q \in Listed \ {Project[h]} : ~Overlap(workspace[q], Target[h])
    /\ label = "publish" => workspace[Project[h]] = Target[h]

CreationsAreAdmissible == \A h \in Requests : AdmissibleAt(h, pc[h])

(* What is on the map, served, busy or doomed lies where it should.        *)
StoresAreUsed ==
  \A p \in Projects :
    /\ projects[p] # None => p \in thread /\ p \notin stopped
    /\ p \in thread \cup active => place[p] = "projects"
    /\ p \in doomed => place[p] = "trash"

(* A command that stops a Store follows the mark on its handle, and no     *)
(* Session starts behind a removal that is waited for.                     *)
Sent == {"called"} \cup Stopping \cup {"reopen"} \cup Ended

CommandsAreInOrder ==
  \A p \in Projects : \A i \in DOMAIN queue[p] :
    LET h == queue[p][i].by
    IN /\ queue[p][i].stop => p \in stopped
       /\ pc[h] \in Sent
       /\ Kind[h] = "remove" /\ pc[h] = "called" =>
            \A j \in DOMAIN queue[p] : i < j => Kind[queue[p][j].by] # "start"

IInv ==
  /\ TypeOK /\ DownIsEmpty /\ GuardsExclude /\ EntriesAreOwned
  /\ CreationsAreFresh /\ CreationsAreAdmissible /\ StoresAreUsed
  /\ CommandsAreInOrder /\ WorkspacesDisjoint
-----------------------------------------------------------------------------
(* Which request is where                                                  *)
LEMMA LabelFacts ==
  ASSUME TypeOK, NEW h \in Requests
  PROVE  /\ Project[h] \in Projects /\ Kind[h] \in Kinds /\ Target[h] \in Workspaces
         /\ pc[h] \in Labels(Kind[h])
         /\ pc[h] \in Creating => Kind[h] = "create"
         /\ pc[h] \in Stopping => Kind[h] \in {"create", "remove"}
         /\ pc[h] \in Calling => Kind[h] \in {"relocate", "remove", "start", "stream"}
         /\ pc[h] = "reopen" => Kind[h] = "remove"
         /\ pc[h] = "load" => Kind[h] = "start"
         /\ pc[h] = "lease" => Kind[h] \in {"start", "stream"}
         /\ pc[h] = "lock" => Kind[h] \in {"relocate", "remove"}
<1>1. Project[h] \in Projects /\ Kind[h] \in Kinds /\ Target[h] \in Workspaces
  BY CatalogAssumption
<1>2. pc[h] \in Labels(Kind[h])
  BY DEF TypeOK
<1>3. QED
  BY <1>1, <1>2 DEF Labels, Kinds, Everyone, Calling, Stopping, Creating

(* A queue loses its head, or grows by a command.                          *)
LEMMA TailFacts ==
  ASSUME NEW S, NEW s \in Seq(S), s # <<>>
  PROVE  /\ Head(s) = s[1] /\ Head(s) \in S /\ 1 \in DOMAIN s
         /\ Tail(s) \in Seq(S)
         /\ \A i \in DOMAIN Tail(s) :
              i \in Nat /\ 1 < i + 1 /\ i + 1 \in DOMAIN s /\ Tail(s)[i] = s[i + 1]
OBVIOUS

LEMMA AppendFacts ==
  ASSUME NEW S, NEW s \in Seq(S), NEW e \in S
  PROVE  /\ Append(s, e) \in Seq(S)
         /\ DOMAIN Append(s, e) = DOMAIN s \cup {Len(s) + 1}
         /\ \A i \in DOMAIN s : i \in Nat /\ i < Len(s) + 1 /\ Append(s, e)[i] = s[i]
         /\ Append(s, e)[Len(s) + 1] = e
OBVIOUS

LEMMA QueueFacts ==
  ASSUME TypeOK, NEW p \in Projects
  PROVE  /\ queue[p] \in Seq(Commands(p))
         /\ \A i \in DOMAIN queue[p] :
              /\ i \in Nat /\ queue[p][i] \in Commands(p) /\ queue[p][i].stop \in BOOLEAN
              /\ queue[p][i].by \in Requests /\ Project[queue[p][i].by] = p
<1>1. queue[p] \in Seq(Commands(p))
  BY DEF TypeOK
<1>2. \A i \in DOMAIN queue[p] : i \in Nat /\ queue[p][i] \in Commands(p)
  BY <1>1
<1>3. \A c \in Commands(p) : c.stop \in BOOLEAN /\ c.by \in Requests /\ Project[c.by] = p
  BY DEF Commands
<1>4. QED
  BY <1>1, <1>2, <1>3

(* Two creations never make the same Project.                              *)
LEMMA CreatorsAreUnique ==
  ASSUME NEW g \in Requests, NEW h \in Requests,
         Kind[g] = "create", Kind[h] = "create", Project[g] = Project[h]
  PROVE  g = h
BY CatalogAssumption
-----------------------------------------------------------------------------
(* The start                                                               *)
LEMMA InitStep == Init => IInv
<1> SUFFICES ASSUME Init PROVE IInv
  OBVIOUS
<1>1. /\ up = TRUE /\ damaged = {} /\ active = {} /\ thread = DOMAIN Present
      /\ stopped = {} /\ dropped = {} /\ doomed = {}
      /\ place = [p \in Projects |-> IF p \in DOMAIN Present THEN "projects" ELSE None]
      /\ workspace = [p \in Projects |-> IF p \in DOMAIN Present THEN Present[p] ELSE None]
      /\ projects = [p \in Projects |-> IF p \in DOMAIN Present THEN "unloaded" ELSE None]
      /\ queue = [p \in Projects |-> <<>>]
  BY DEF Init
<1>2. PICK asked \in Asked :
        pc = [h \in Requests |-> IF h \in asked THEN "start" ELSE "absent"]
  BY DEF Init
<1>3. \A h \in Requests : pc[h] \in {"start", "absent"}
  BY <1>2
<1>4. \A h \in Requests : pc[h] \in Labels(Kind[h])
  BY <1>3 DEF Labels, Everyone
<1>5. \A p \in DOMAIN Present : Present[p] \in Workspaces \ Managed
  BY CatalogAssumption DEF Range
<1>6. TypeOK
  <2>1. workspace \in [Projects -> Workspaces \cup {None}]
    BY <1>1, <1>5
  <2>2. QED
    BY <1>1, <1>2, <1>4, <2>1, CatalogAssumption DEF TypeOK
<1>7. DownIsEmpty /\ GuardsExclude
  BY <1>1, <1>3 DEF DownIsEmpty, GuardsExclude, Writing, InCatalog, Working
<1>8. \A h \in Requests : Kind[h] = "create" => Project[h] \in Projects \ DOMAIN Present
  BY CatalogAssumption
<1>9. EntriesAreOwned
  BY <1>1, <1>3, <1>8
  DEF EntriesAreOwned, Guarded, Removing, Young, Apart, NoStarts, Calling, Stopping
<1>10. CreationsAreFresh /\ CreationsAreAdmissible
  BY <1>1, <1>3, <1>8 DEF CreationsAreFresh, FreshAt, CreationsAreAdmissible, AdmissibleAt
<1>11. StoresAreUsed /\ CommandsAreInOrder
  BY <1>1, CatalogAssumption DEF StoresAreUsed, CommandsAreInOrder
<1>12. WorkspacesDisjoint
  <2>1. Listed = DOMAIN Present
    BY <1>1, CatalogAssumption DEF Listed, None
  <2>2. \A p \in Listed : workspace[p] = Present[p]
    BY <1>1, <2>1, CatalogAssumption
  <2>3. QED
    BY <1>5, <2>1, <2>2, CatalogAssumption DEF WorkspacesDisjoint
<1>13. QED
  BY <1>6, <1>7, <1>9, <1>10, <1>11, <1>12 DEF IInv
-----------------------------------------------------------------------------
(* Steps of one request                                                    *)

(* Its label may change to one of its kind.                                *)
LEMMA LabelStep ==
  ASSUME TypeOK, NEW h \in Requests, NEW label \in Labels(Kind[h]),
         pc' = [pc EXCEPT ![h] = label]
  PROVE  /\ \A g \in Requests : pc'[g] = IF g = h THEN label ELSE pc[g]
         /\ DOMAIN pc' = Requests /\ \A g \in Requests : pc'[g] \in Labels(Kind[g])
BY DEF TypeOK

(* It may keep the guard it has, or take one that is free.                 *)
ReadsAt(h, label) == Kind[h] = "start" /\ label \in Calling \cup {"load"}
WritesAt(h, label) ==
  Kind[h] \in {"relocate", "remove"} /\ label \in Calling \cup Stopping \cup {"reopen"}

Enters(h, label) ==
  /\ label \in Working \ Tasks => h \notin dropped
  /\ ReadsAt(h, label) => Reading(h) \/ ReadFree
  /\ WritesAt(h, label) => Writing(h) \/ WriteFree
  /\ label \in InCatalog => pc[h] \in InCatalog \/ MutexFree

LEMMA GuardStep ==
  ASSUME GuardsExclude, NEW h \in Requests, NEW label, Enters(h, label),
         \A g \in Requests : pc'[g] = IF g = h THEN label ELSE pc[g],
         UNCHANGED dropped
  PROVE  GuardsExclude'
<1>1. \A g \in Requests : pc'[g] \in Working \ Tasks => g \notin dropped'
  BY DEF Enters, GuardsExclude
<1>2. \A g \in Requests : /\ g # h => (Reading(g)' <=> Reading(g)) /\ (Writing(g)' <=> Writing(g))
                          /\ g = h => (Reading(g)' <=> ReadsAt(h, label))
                          /\ g = h /\ Writing(g)' => WritesAt(h, label)
  BY DEF Reading, Writing, ReadsAt, WritesAt, Calling, Stopping
<1>3. \A g \in Requests, k \in Requests :
        Writing(k)' => ~Reading(g)' /\ (Writing(g)' => g = k)
  BY <1>2 DEF Enters, GuardsExclude, ReadFree, WriteFree, ReadsAt, WritesAt
<1>4. \A g \in Requests, k \in Requests :
        pc'[g] \in InCatalog /\ pc'[k] \in InCatalog => g = k
  BY DEF Enters, GuardsExclude, MutexFree, InCatalog
<1>5. QED
  BY <1>1, <1>3, <1>4 DEF GuardsExclude

(* Who holds what follows the label, while entries and Stores stay.        *)
LEMMA OwnedStep ==
  ASSUME EntriesAreOwned, NEW h \in Requests, NEW label,
         \A g \in Requests : pc'[g] = IF g = h THEN label ELSE pc[g],
         UNCHANGED <<projects, active, thread, queue, stopped>>,
         (Kind[h] \in {"start", "relocate", "remove"} /\ label \in Calling \cup {"load"})
           => projects[Project[h]] # None,
         Kind[h] = "create" /\ label \in {"absent", "start"} \cup Creating \cup Stopping
           => Young(h),
         Kind[h] = "remove" /\ label \in Stopping \cup {"reopen"} => Removing(h),
         label = "halt" => Project[h] \in stopped,
         label \in {"retire", "reopen"} => Project[h] \notin thread
  PROVE  EntriesAreOwned'
<1>1. \A g \in Requests : /\ Guarded(g)' => projects'[Project[g]] # None
                          /\ Young(g)' => Young(g)
                          /\ Removing(g)' => Removing(g)
  BY DEF Guarded, Young, Removing, EntriesAreOwned
<1>2. \A g \in Requests : Apart(g) => Apart(g)'
  BY <1>1 DEF Apart, NoStarts
<1>3. QED
  BY <1>1, <1>2 DEF EntriesAreOwned

(* The commands on their way stay in order.                                *)
LEMMA OrderStep ==
  ASSUME TypeOK, CommandsAreInOrder, NEW h \in Requests, NEW label,
         \A g \in Requests : pc'[g] = IF g = h THEN label ELSE pc[g],
         UNCHANGED <<queue, stopped>>,
         pc[h] \in Sent => label \in Sent, label = "called" => pc[h] = "called"
  PROVE  CommandsAreInOrder'
<1>1. \A p \in Projects : \A i \in DOMAIN queue[p] : queue[p][i].by \in Requests
  BY QueueFacts
<1>2. QED
  BY <1>1 DEF CommandsAreInOrder

(* A step that moves a request and changes nothing else                    *)
LEMMA MoveStep ==
  ASSUME IInv, up, NEW h \in Requests, NEW label \in Labels(Kind[h]),
         pc' = [pc EXCEPT ![h] = label],
         UNCHANGED <<up, disk, projects, stores, dropped, doomed>>,
         Enters(h, label),
         (Kind[h] \in {"start", "relocate", "remove"} /\ label \in Calling \cup {"load"})
           => projects[Project[h]] # None,
         Kind[h] = "create" /\ label \in {"absent", "start"} \cup Creating \cup Stopping
           => Young(h),
         Kind[h] = "remove" /\ label \in Stopping \cup {"reopen"} => Removing(h),
         label = "halt" => Project[h] \in stopped,
         label \in {"retire", "reopen"} => Project[h] \notin thread,
         FreshAt(h, label), AdmissibleAt(h, label),
         pc[h] \in Sent => label \in Sent, label = "called" => pc[h] = "called"
  PROVE  IInv'
<1>1. /\ TypeOK /\ DownIsEmpty /\ GuardsExclude /\ EntriesAreOwned
      /\ CreationsAreFresh /\ CreationsAreAdmissible /\ StoresAreUsed
      /\ CommandsAreInOrder /\ WorkspacesDisjoint
  BY DEF IInv
<1>2. /\ up' /\ UNCHANGED <<up, place, workspace, damaged, active, projects, thread,
                          queue, stopped, dropped, doomed>>
  BY DEF disk, stores
<1>3. /\ \A g \in Requests : pc'[g] = IF g = h THEN label ELSE pc[g]
      /\ DOMAIN pc' = Requests /\ \A g \in Requests : pc'[g] \in Labels(Kind[g])
  BY <1>1, LabelStep
<1>4. TypeOK' /\ DownIsEmpty'
  BY <1>1, <1>2, <1>3 DEF TypeOK, DownIsEmpty
<1>5. GuardsExclude'
  BY <1>1, <1>2, <1>3, GuardStep
<1>6. EntriesAreOwned'
  BY <1>1, <1>2, <1>3, OwnedStep
<1>7. CreationsAreFresh' /\ CreationsAreAdmissible'
  BY <1>1, <1>2, <1>3
  DEF CreationsAreFresh, FreshAt, CreationsAreAdmissible, AdmissibleAt, Listed
<1>8. StoresAreUsed' /\ WorkspacesDisjoint'
  BY <1>1, <1>2 DEF StoresAreUsed, WorkspacesDisjoint, Listed
<1>9. CommandsAreInOrder'
  BY <1>1, <1>2, <1>3, OrderStep
<1>10. QED
  BY <1>4, <1>5, <1>6, <1>7, <1>8, <1>9 DEF IInv

(* One that ends is nobody's concern any more.                             *)
LEMMA LeaveStep ==
  ASSUME IInv, up, NEW h \in Requests, NEW label \in {"gone", "failed", "done", "left"},
         label = "left" => Kind[h] \in {"create", "remove"},
         pc' = [pc EXCEPT ![h] = label],
         UNCHANGED <<up, disk, projects, stores, dropped, doomed>>
  PROVE  IInv'
<1>1. Kind[h] \in Kinds
  BY CatalogAssumption
<1>2. label \in Labels(Kind[h])
  BY <1>1 DEF Labels, Everyone, Kinds
<1>3. Enters(h, label) /\ FreshAt(h, label) /\ AdmissibleAt(h, label)
  BY DEF Enters, ReadsAt, WritesAt, Working, InCatalog, Calling, Stopping, FreshAt, AdmissibleAt
<1>4. label \in Sent
  BY DEF Sent, Ended
<1>5. label \notin {"absent", "start", "halt", "retire", "reopen", "called", "load"}
                     \cup Creating \cup Stopping \cup Calling
  BY DEF Creating, Stopping, Calling
<1>6. QED
  BY <1>2, <1>3, <1>4, <1>5, MoveStep

(* A future that is gone goes nowhere.                                     *)
LEMMA GotoCases ==
  ASSUME NEW h \in Requests, NEW to, Goto(h, to)
  PROVE  \/ pc' = [pc EXCEPT ![h] = "gone"]
         \/ h \notin dropped /\ pc' = [pc EXCEPT ![h] = to]
BY DEF Goto

LEMMA ArriveStep ==
  ASSUME IInv, NEW h \in Requests, Arrive(h)
  PROVE  IInv'
<1>1. PICK to : /\ to = CASE Kind[h] = "create" -> "admit"
                          [] Kind[h] \in {"relocate", "remove"} -> "lock"
                          [] Kind[h] \in {"start", "stream"} -> "lease"
                /\ Move(h, "start", to)
  BY DEF Arrive
<1>2. /\ up /\ pc[h] = "start" /\ Goto(h, to)
      /\ UNCHANGED <<up, disk, projects, stores, dropped, doomed>>
  BY <1>1 DEF Arrive, Move
<1>3. CASE pc' = [pc EXCEPT ![h] = "gone"]
  BY <1>2, <1>3, LeaveStep
<1>4. CASE h \notin dropped /\ pc' = [pc EXCEPT ![h] = to]
  <2>1. Kind[h] \in Kinds /\ FreshAt(h, pc[h])
    BY CatalogAssumption DEF IInv, CreationsAreFresh
  <2>2. /\ to \in {"admit", "lock", "lease"} /\ (to = "admit" <=> Kind[h] = "create")
        /\ to \in Labels(Kind[h])
    BY <1>1, <2>1 DEF Kinds, Labels, Creating
  <2>3. Enters(h, to)
    BY <1>4, <2>2 DEF Enters, ReadsAt, WritesAt, InCatalog, Calling, Stopping
  <2>4. FreshAt(h, to) /\ AdmissibleAt(h, to)
    BY <1>2, <2>1, <2>2 DEF FreshAt, AdmissibleAt
  <2>5. Kind[h] = "create" => Young(h)
    BY <1>2 DEF Young
  <2>6. pc[h] \notin Sent /\ to \notin Stopping \cup Calling
    BY <1>2, <2>2 DEF Sent, Ended, Stopping, Calling
  <2>7. QED
    BY <1>2, <1>4, <2>2, <2>3, <2>4, <2>5, <2>6, MoveStep
<1>5. QED
  BY <1>2, <1>3, <1>4, GotoCases

LEMMA CreateAdmitStep ==
  ASSUME IInv, NEW h \in Requests, CreateAdmit(h)
  PROVE  IInv'
<1>1. /\ up /\ pc[h] = "admit" /\ MutexFree
      /\ UNCHANGED <<up, disk, projects, stores, dropped, doomed>>
      /\ \/ Admissible(Project[h], Target[h]) /\ pc' = [pc EXCEPT ![h] = "stage"]
         \/ Goto(h, "failed")
  BY DEF CreateAdmit
<1>2. Kind[h] = "create" /\ FreshAt(h, pc[h])
  BY <1>1, LabelFacts DEF IInv, CreationsAreFresh, Creating
<1>3. CASE Goto(h, "failed")
  BY <1>1, <1>3, GotoCases, LeaveStep
<1>4. CASE Admissible(Project[h], Target[h]) /\ pc' = [pc EXCEPT ![h] = "stage"]
  <2>1. "stage" \in Labels(Kind[h]) /\ "stage" \notin Stopping \cup Calling
    BY <1>2 DEF Labels, Creating, Stopping, Calling
  <2>2. Enters(h, "stage")
    BY <1>1, <2>1 DEF Enters, ReadsAt, WritesAt, Tasks
  <2>3. FreshAt(h, "stage") /\ AdmissibleAt(h, "stage")
    BY <1>1, <1>2, <1>4 DEF FreshAt, AdmissibleAt, Admissible
  <2>4. Young(h) /\ pc[h] \notin Sent
    BY <1>1, <1>2 DEF Young, Creating, Sent, Ended, Stopping
  <2>5. QED
    BY <1>1, <1>2, <1>4, <2>1, <2>2, <2>3, <2>4, MoveStep
<1>5. QED
  BY <1>1, <1>3, <1>4

LEMMA CreateBuildStep ==
  ASSUME IInv, NEW h \in Requests, CreateBuild(h)
  PROVE  IInv'
<1>1. PICK to \in {"insert", "stop"} :
        /\ up /\ pc[h] = "build" /\ Goto(h, to)
        /\ UNCHANGED <<up, disk, projects, stores, dropped, doomed>>
  BY DEF CreateBuild, Move
<1>2. Kind[h] = "create" /\ FreshAt(h, pc[h])
  BY <1>1, LabelFacts DEF IInv, CreationsAreFresh, Creating
<1>3. CASE pc' = [pc EXCEPT ![h] = "gone"]
  BY <1>1, <1>3, LeaveStep
<1>4. CASE h \notin dropped /\ pc' = [pc EXCEPT ![h] = to]
  <2>1. to \in Labels(Kind[h])
    BY <1>2 DEF Labels, Creating, Stopping
  <2>2. Enters(h, to)
    BY <1>2, <1>4 DEF Enters, ReadsAt, WritesAt, InCatalog
  <2>3. FreshAt(h, to) /\ AdmissibleAt(h, to)
    BY <1>1, <1>2 DEF FreshAt, AdmissibleAt
  <2>4. Young(h) /\ pc[h] \notin Sent
    BY <1>1, <1>2 DEF Young, Creating, Sent, Ended, Stopping
  <2>5. QED
    BY <1>1, <1>2, <1>4, <2>1, <2>2, <2>3, <2>4, MoveStep
<1>5. QED
  BY <1>1, <1>3, <1>4, GotoCases

LEMMA LeaseStep ==
  ASSUME IInv, NEW h \in Requests, Lease(h)
  PROVE  IInv'
<1>1. PICK to \in {"failed", "call", "load"} :
        /\ to = IF projects[Project[h]] = None THEN "failed"
                ELSE IF Kind[h] = "stream" THEN "call" ELSE "load"
        /\ up /\ pc[h] = "lease" /\ Goto(h, to) /\ ReadFree
        /\ UNCHANGED <<up, disk, projects, stores, dropped, doomed>>
  BY DEF Lease, Move
<1>2. Kind[h] \in {"start", "stream"}
  BY <1>1, LabelFacts DEF IInv
<1>3. CASE pc' = [pc EXCEPT ![h] = "gone"] \/ to = "failed"
  BY <1>1, <1>3, GotoCases, LeaveStep
<1>4. CASE to # "failed" /\ h \notin dropped /\ pc' = [pc EXCEPT ![h] = to]
  <2>1. to \in Labels(Kind[h])
    BY <1>1, <1>2, <1>4 DEF Labels, Calling
  <2>2. Enters(h, to)
    BY <1>1, <1>2, <1>4 DEF Enters, ReadsAt, WritesAt, InCatalog
  <2>3. FreshAt(h, to) /\ AdmissibleAt(h, to)
    BY <1>2, <1>4 DEF FreshAt, AdmissibleAt
  <2>4. pc[h] \notin Sent
    BY <1>1 DEF Sent, Ended, Stopping
  <2>5. QED
    BY <1>1, <1>2, <1>4, <2>1, <2>2, <2>3, <2>4, MoveStep
<1>5. QED
  BY <1>1, <1>3, <1>4, GotoCases

LEMMA LockStep ==
  ASSUME IInv, NEW h \in Requests, Lock(h)
  PROVE  IInv'
<1>1. PICK to \in {"failed", "call"} :
        /\ to = IF projects[Project[h]] = None THEN "failed" ELSE "call"
        /\ up /\ pc[h] = "lock" /\ Goto(h, to) /\ WriteFree
        /\ UNCHANGED <<up, disk, projects, stores, dropped, doomed>>
  BY DEF Lock, Move
<1>2. Kind[h] \in {"relocate", "remove"}
  BY <1>1, LabelFacts DEF IInv
<1>3. CASE pc' = [pc EXCEPT ![h] = "gone"] \/ to = "failed"
  BY <1>1, <1>3, GotoCases, LeaveStep
<1>4. CASE to = "call" /\ h \notin dropped /\ pc' = [pc EXCEPT ![h] = to]
  <2>1. to \in Labels(Kind[h]) /\ to \notin Stopping
    BY <1>2, <1>4 DEF Labels, Calling, Stopping
  <2>2. Enters(h, to)
    BY <1>1, <1>2, <1>4 DEF Enters, ReadsAt, WritesAt, InCatalog
  <2>3. FreshAt(h, to) /\ AdmissibleAt(h, to)
    BY <1>2, <1>4 DEF FreshAt, AdmissibleAt
  <2>4. pc[h] \notin Sent
    BY <1>1 DEF Sent, Ended, Stopping
  <2>5. QED
    BY <1>1, <1>2, <1>4, <2>1, <2>2, <2>3, <2>4, MoveStep
<1>5. QED
  BY <1>1, <1>3, <1>4, GotoCases

LEMMA CallStep ==
  ASSUME IInv, NEW h \in Requests, Call(h)
  PROVE  IInv'
<1>1. PICK to \in {"failed", "send"} :
        /\ up /\ pc[h] = "call" /\ Goto(h, to)
        /\ UNCHANGED <<up, disk, projects, stores, dropped, doomed>>
  BY DEF Call, Move
<1>2. /\ Kind[h] \in {"relocate", "remove", "start", "stream"}
      /\ Kind[h] # "stream" => projects[Project[h]] # None
  BY <1>1, LabelFacts DEF IInv, Calling, EntriesAreOwned, Guarded
<1>3. CASE pc' = [pc EXCEPT ![h] = "gone"] \/ to = "failed"
  BY <1>1, <1>3, GotoCases, LeaveStep
<1>4. CASE to = "send" /\ h \notin dropped /\ pc' = [pc EXCEPT ![h] = to]
  <2>1. to \in Labels(Kind[h]) /\ to \notin Stopping
    BY <1>2, <1>4 DEF Labels, Calling, Stopping
  <2>2. Enters(h, to)
    BY <1>1, <1>2, <1>4 DEF Enters, ReadsAt, WritesAt, InCatalog, Reading, Writing
  <2>3. FreshAt(h, to) /\ AdmissibleAt(h, to)
    BY <1>2, <1>4 DEF FreshAt, AdmissibleAt
  <2>4. pc[h] \notin Sent
    BY <1>1 DEF Sent, Ended, Stopping
  <2>5. QED
    BY <1>1, <1>2, <1>4, <2>1, <2>2, <2>3, <2>4, MoveStep
<1>5. QED
  BY <1>1, <1>3, <1>4, GotoCases

LEMMA DropStep ==
  ASSUME IInv, NEW h \in Requests, Drop(h)
  PROVE  IInv'
<1>1. /\ up /\ pc[h] \in Working /\ UNCHANGED <<up, disk, projects, stores, doomed>>
  BY DEF Drop
<1>2. CASE pc[h] \notin Tasks
  BY <1>1, <1>2, LeaveStep DEF Drop
<1>3. CASE pc[h] \in Tasks
  <2>1. UNCHANGED pc /\ dropped' = dropped \cup {h}
    BY <1>3 DEF Drop
  <2>2. GuardsExclude'
    <3>1. \A g \in Requests : /\ Reading(g)' <=> Reading(g)
                              /\ Writing(g)' => Writing(g)
      BY <2>1 DEF Reading, Writing
    <3>2. QED
      BY <1>3, <2>1, <3>1 DEF IInv, GuardsExclude
  <2>3. TypeOK' /\ DownIsEmpty'
    BY <1>1, <2>1 DEF IInv, TypeOK, DownIsEmpty, disk, stores
  <2>4. EntriesAreOwned' /\ CreationsAreFresh' /\ CreationsAreAdmissible'
    BY <1>1, <2>1
    DEF IInv, EntriesAreOwned, Guarded, Young, Removing, Apart, NoStarts, disk, stores,
        CreationsAreFresh, FreshAt, CreationsAreAdmissible, AdmissibleAt, Listed
  <2>5. StoresAreUsed' /\ CommandsAreInOrder' /\ WorkspacesDisjoint'
    BY <1>1, <2>1
    DEF IInv, StoresAreUsed, CommandsAreInOrder, WorkspacesDisjoint, Listed, disk, stores
  <2>6. QED
    BY <2>2, <2>3, <2>4, <2>5 DEF IInv
<1>4. QED
  BY <1>2, <1>3

(* A creation stands alone on its Project.                                 *)
LEMMA CreatorFacts ==
  ASSUME IInv, NEW h \in Requests, pc[h] \in Creating
  PROVE  /\ Kind[h] = "create" /\ Project[h] \in Projects /\ Target[h] \in Workspaces
         /\ Young(h) /\ Apart(h) /\ FreshAt(h, pc[h]) /\ AdmissibleAt(h, pc[h])
         /\ pc[h] \notin Sent \cup {"called"} \cup Calling
         /\ \A g \in Requests : Project[g] = Project[h] /\ g # h =>
              ~Removing(g) /\ Kind[g] # "create"
<1>1. Kind[h] = "create" /\ Project[h] \in Projects /\ Target[h] \in Workspaces
  BY LabelFacts DEF IInv
<1>2. Young(h) /\ Apart(h)
  BY <1>1 DEF Young, IInv, EntriesAreOwned
<1>3. FreshAt(h, pc[h]) /\ AdmissibleAt(h, pc[h])
  BY DEF IInv, CreationsAreFresh, CreationsAreAdmissible
<1>4. pc[h] \notin Sent \cup {"called"} \cup Calling
  BY DEF Creating, Sent, Stopping, Ended, Calling
<1>5. \A g \in Requests : Project[g] = Project[h] /\ g # h =>
        ~Removing(g) /\ Kind[g] # "create"
  BY <1>1, <1>2, CreatorsAreUnique DEF Apart
<1>6. QED
  BY <1>1, <1>2, <1>3, <1>4, <1>5

(* A creation that goes on changes nothing for the others.                 *)
LEMMA FreshStep ==
  ASSUME CreationsAreFresh, NEW h \in Requests, NEW label, Kind[h] = "create",
         \A g \in Requests : pc'[g] = IF g = h THEN label ELSE pc[g],
         \A q \in Projects \ {Project[h]} :
           /\ place'[q] = place[q]
           /\ (q \in thread' <=> q \in thread) /\ (q \in stopped' <=> q \in stopped),
         FreshAt(h, pc[h])'
  PROVE  CreationsAreFresh'
<1> SUFFICES ASSUME NEW g \in Requests, Kind[g] = "create" PROVE FreshAt(g, pc[g])'
  BY DEF CreationsAreFresh, FreshAt
<1>1. CASE g = h
  BY <1>1
<1>2. CASE g # h
  <2>1. Project[g] \in Projects \ {Project[h]}
    BY <1>2, CatalogAssumption
  <2>2. FreshAt(g, pc[g])
    BY DEF CreationsAreFresh
  <2>3. pc'[g] = pc[g]
    BY <1>2
  <2>4. QED
    BY <2>1, <2>2, <2>3 DEF FreshAt
<1>3. QED
  BY <1>1, <1>2

(* One task at a time is in the catalog.                                   *)
LEMMA AdmissibleStep ==
  ASSUME GuardsExclude, NEW h \in Requests, NEW label, pc[h] \in InCatalog,
         \A g \in Requests : pc'[g] = IF g = h THEN label ELSE pc[g],
         AdmissibleAt(h, pc[h])'
  PROVE  CreationsAreAdmissible'
<1>1. \A g \in Requests : g # h => pc'[g] \notin InCatalog
  BY DEF GuardsExclude
<1>2. QED
  BY <1>1 DEF CreationsAreAdmissible, AdmissibleAt, InCatalog

LEMMA CreateStageStep ==
  ASSUME IInv, NEW h \in Requests, CreateStage(h)
  PROVE  IInv'
<1> DEFINE p == Project[h]
<1>1. PICK label \in {"publish", "failed", "gone"} :
        /\ up /\ pc[h] = "stage" /\ pc' = [pc EXCEPT ![h] = label]
        /\ workspace' = [workspace EXCEPT ![p] = Target[h]]
        /\ place' \in {place, [place EXCEPT ![p] = "staging"]}
        /\ label = "publish" => place' = [place EXCEPT ![p] = "staging"]
        /\ UNCHANGED <<up, damaged, active, projects, thread, queue, stopped, dropped, doomed>>
  BY GotoCases DEF CreateStage, stores
<1>2. /\ TypeOK /\ DownIsEmpty /\ GuardsExclude /\ EntriesAreOwned
      /\ CreationsAreFresh /\ CreationsAreAdmissible /\ StoresAreUsed
      /\ CommandsAreInOrder /\ WorkspacesDisjoint
  BY DEF IInv
<1>3. /\ Kind[h] = "create" /\ p \in Projects /\ Target[h] \in Workspaces
      /\ Young(h) /\ Apart(h) /\ FreshAt(h, "stage") /\ AdmissibleAt(h, "stage")
      /\ pc[h] \notin Sent
      /\ \A g \in Requests : Project[g] = p /\ g # h => Kind[g] # "create"
  BY <1>1, CreatorFacts DEF Creating
<1>4. label \in Labels(Kind[h])
  BY <1>3 DEF Labels, Creating, Everyone
<1>5. /\ \A g \in Requests : pc'[g] = IF g = h THEN label ELSE pc[g]
      /\ DOMAIN pc' = Requests /\ \A g \in Requests : pc'[g] \in Labels(Kind[g])
  BY <1>1, <1>2, <1>4, LabelStep
<1>6. place[p] = None /\ p \notin thread /\ projects[p] = None /\ p \notin active
  BY <1>3 DEF FreshAt, Apart
<1>7. /\ \A q \in Projects : q # p => place'[q] = place[q] /\ workspace'[q] = workspace[q]
      /\ place'[p] \in {None, "staging"} /\ (label = "publish" => place'[p] = "staging")
      /\ workspace'[p] = Target[h]
  BY <1>1, <1>2, <1>3, <1>6 DEF TypeOK
<1>8. Listed' = Listed /\ p \notin Listed
  BY <1>6, <1>7 DEF Listed, None
<1>9. TypeOK'
  <2>1. place' \in [Projects -> {None, "staging", "projects", "trash", "purged"}]
    BY <1>1, <1>2 DEF TypeOK
  <2>2. workspace' \in [Projects -> Workspaces \cup {None}]
    BY <1>1, <1>2, <1>3 DEF TypeOK
  <2>3. QED
    BY <1>1, <1>2, <1>5, <2>1, <2>2 DEF TypeOK
<1>10. GuardsExclude'
  <2>1. Enters(h, label)
    BY <1>1, <1>3 DEF Enters, Tasks, Working, ReadsAt, WritesAt, InCatalog
  <2>2. QED
    BY <1>1, <1>2, <1>5, <2>1, GuardStep
<1>11. EntriesAreOwned'
  <2>1. label \notin {"halt", "retire", "reopen"} \cup Calling
    BY DEF Calling
  <2>2. QED
    BY <1>1, <1>2, <1>3, <1>5, <2>1, OwnedStep
<1>12. CreationsAreFresh'
  <2>1. FreshAt(h, pc[h])'
    BY <1>1, <1>5, <1>6, <1>7 DEF FreshAt
  <2>2. QED
    BY <1>1, <1>2, <1>3, <1>5, <1>7, <2>1, FreshStep
<1>13. CreationsAreAdmissible'
  <2>1. AdmissibleAt(h, pc[h])'
    BY <1>3, <1>5, <1>7, <1>8 DEF AdmissibleAt, Listed
  <2>2. QED
    BY <1>1, <1>2, <1>5, <2>1, AdmissibleStep DEF InCatalog
<1>14. DownIsEmpty' /\ StoresAreUsed' /\ CommandsAreInOrder'
  <2>1. CommandsAreInOrder'
    BY <1>1, <1>2, <1>3, <1>5, OrderStep
  <2>2. p \notin doomed
    BY <1>2, <1>3, <1>6 DEF StoresAreUsed, None
  <2>3. QED
    BY <1>1, <1>2, <1>6, <1>7, <2>1, <2>2 DEF DownIsEmpty, StoresAreUsed
<1>15. WorkspacesDisjoint'
  BY <1>2, <1>7, <1>8 DEF WorkspacesDisjoint, Listed
<1>16. QED
  BY <1>9, <1>10, <1>11, <1>12, <1>13, <1>14, <1>15 DEF IInv

LEMMA CreatePublishStep ==
  ASSUME IInv, NEW h \in Requests, CreatePublish(h)
  PROVE  IInv'
<1> DEFINE p == Project[h]
<1>1. PICK label \in {"open", "failed", "gone"} :
        /\ up /\ pc[h] = "publish" /\ pc' = [pc EXCEPT ![h] = label]
        /\ \/ label = "open" /\ place' = [place EXCEPT ![p] = "projects"]
           \/ label # "open" /\ place' \in {place, [place EXCEPT ![p] = None]}
        /\ UNCHANGED <<up, workspace, damaged, active, projects, thread, queue, stopped,
                       dropped, doomed>>
  BY GotoCases DEF CreatePublish, stores
<1>2. /\ TypeOK /\ DownIsEmpty /\ GuardsExclude /\ EntriesAreOwned
      /\ CreationsAreFresh /\ CreationsAreAdmissible /\ StoresAreUsed
      /\ CommandsAreInOrder /\ WorkspacesDisjoint
  BY DEF IInv
<1>3. /\ Kind[h] = "create" /\ p \in Projects /\ Target[h] \in Workspaces
      /\ Young(h) /\ Apart(h) /\ FreshAt(h, "publish") /\ AdmissibleAt(h, "publish")
      /\ pc[h] \notin Sent
  BY <1>1, CreatorFacts DEF Creating
<1>4. label \in Labels(Kind[h])
  BY <1>3 DEF Labels, Creating, Everyone
<1>5. /\ \A g \in Requests : pc'[g] = IF g = h THEN label ELSE pc[g]
      /\ DOMAIN pc' = Requests /\ \A g \in Requests : pc'[g] \in Labels(Kind[g])
  BY <1>1, <1>2, <1>4, LabelStep
<1>6. place[p] = "staging" /\ p \notin thread /\ projects[p] = None /\ p \notin active
  BY <1>3 DEF FreshAt, Apart
<1>7. /\ \A q \in Projects : q # p => place'[q] = place[q]
      /\ place'[p] \in {None, "staging", "projects"}
      /\ label = "open" => place'[p] = "projects"
      /\ label # "open" => place'[p] # "projects"
  <2>1. CASE label = "open" /\ place' = [place EXCEPT ![p] = "projects"]
    BY <1>2, <1>3, <2>1 DEF TypeOK
  <2>2. CASE label # "open" /\ place' \in {place, [place EXCEPT ![p] = None]}
    BY <1>2, <1>3, <1>6, <2>2 DEF TypeOK, None
  <2>3. QED
    BY <1>1, <2>1, <2>2
<1>8. TypeOK'
  <2>1. place' \in [Projects -> {None, "staging", "projects", "trash", "purged"}]
    BY <1>1, <1>2 DEF TypeOK
  <2>2. QED
    BY <1>1, <1>2, <1>5, <2>1 DEF TypeOK
<1>9. GuardsExclude'
  <2>1. Enters(h, label)
    BY <1>1, <1>3 DEF Enters, Tasks, Working, ReadsAt, WritesAt, InCatalog
  <2>2. QED
    BY <1>1, <1>2, <1>5, <2>1, GuardStep
<1>10. EntriesAreOwned'
  <2>1. label \notin {"halt", "retire", "reopen"} \cup Calling
    BY DEF Calling
  <2>2. QED
    BY <1>1, <1>2, <1>3, <1>5, <2>1, OwnedStep
<1>11. CreationsAreFresh'
  <2>1. FreshAt(h, pc[h])'
    BY <1>1, <1>5, <1>6, <1>7 DEF FreshAt
  <2>2. QED
    BY <1>1, <1>2, <1>3, <1>5, <1>7, <2>1, FreshStep
<1>12. CreationsAreAdmissible'
  <2>1. AdmissibleAt(h, pc[h])'
    BY <1>5 DEF AdmissibleAt
  <2>2. QED
    BY <1>1, <1>2, <1>5, <2>1, AdmissibleStep DEF InCatalog
<1>13. DownIsEmpty' /\ StoresAreUsed' /\ CommandsAreInOrder'
  <2>1. CommandsAreInOrder'
    BY <1>1, <1>2, <1>3, <1>5, OrderStep
  <2>2. p \notin doomed
    BY <1>2, <1>3, <1>6 DEF StoresAreUsed
  <2>3. QED
    BY <1>1, <1>2, <1>6, <1>7, <2>1, <2>2 DEF DownIsEmpty, StoresAreUsed
<1>14. WorkspacesDisjoint'
  <2>1. /\ Listed' \subseteq Listed \cup {p} /\ p \notin Listed
        /\ workspace[p] = Target[h] /\ Target[h] \in Workspaces \ Managed
        /\ \A q \in Listed : ~Overlap(workspace[q], Target[h]) /\ ~Overlap(Target[h], workspace[q])
    BY <1>3, <1>6, <1>7 DEF Listed, AdmissibleAt, Overlap
  <2>2. QED
    BY <1>1, <1>2, <2>1 DEF WorkspacesDisjoint
<1>15. QED
  BY <1>8, <1>9, <1>10, <1>11, <1>12, <1>13, <1>14 DEF IInv

LEMMA CreateOpenStep ==
  ASSUME IInv, NEW h \in Requests, CreateOpen(h)
  PROVE  IInv'
<1> DEFINE p == Project[h]
<1>1. /\ up /\ pc[h] = "open"
      /\ UNCHANGED <<up, workspace, damaged, active, projects, thread, queue, stopped,
                     dropped, doomed>>
      /\ \/ Goto(h, "spawn") /\ UNCHANGED place
         \/ Goto(h, "failed") /\ place' = [place EXCEPT ![p] = "trash"]
         \/ Goto(h, "left") /\ UNCHANGED place
  BY DEF CreateOpen, stores
<1>2. /\ TypeOK /\ DownIsEmpty /\ GuardsExclude /\ EntriesAreOwned
      /\ CreationsAreFresh /\ CreationsAreAdmissible /\ StoresAreUsed
      /\ CommandsAreInOrder /\ WorkspacesDisjoint
  BY DEF IInv
<1>3. /\ Kind[h] = "create" /\ p \in Projects
      /\ Young(h) /\ Apart(h) /\ FreshAt(h, "open") /\ pc[h] \notin Sent
  BY <1>1, CreatorFacts DEF Creating
<1>4. CASE UNCHANGED place /\ (pc' = [pc EXCEPT ![h] = "gone"] \/ pc' = [pc EXCEPT ![h] = "left"])
  BY <1>1, <1>3, <1>4, LeaveStep DEF disk, stores
<1>5. CASE UNCHANGED place /\ h \notin dropped /\ pc' = [pc EXCEPT ![h] = "spawn"]
  <2>1. "spawn" \in Labels(Kind[h]) /\ "spawn" \notin Stopping \cup Calling
    BY <1>3 DEF Labels, Creating, Stopping, Calling
  <2>2. Enters(h, "spawn")
    BY <1>1, <1>5, <2>1 DEF Enters, ReadsAt, WritesAt, InCatalog
  <2>3. FreshAt(h, "spawn") /\ AdmissibleAt(h, "spawn")
    BY <1>3 DEF FreshAt, AdmissibleAt
  <2>4. QED
    BY <1>1, <1>3, <1>5, <2>1, <2>2, <2>3, MoveStep DEF disk, stores
<1>6. ASSUME NEW label \in {"failed", "gone"}, pc' = [pc EXCEPT ![h] = label],
             place' = [place EXCEPT ![p] = "trash"]
      PROVE  IInv'
  <2>1. label \in Labels(Kind[h])
    BY DEF Labels, Everyone
  <2>2. /\ \A g \in Requests : pc'[g] = IF g = h THEN label ELSE pc[g]
        /\ DOMAIN pc' = Requests /\ \A g \in Requests : pc'[g] \in Labels(Kind[g])
    BY <1>2, <1>6, <2>1, LabelStep
  <2>3. place[p] = "projects" /\ p \notin thread /\ projects[p] = None /\ p \notin active
    BY <1>3 DEF FreshAt, Apart
  <2>4. /\ \A q \in Projects : q # p => place'[q] = place[q]
        /\ place'[p] = "trash"
    BY <1>2, <1>3, <1>6 DEF TypeOK
  <2>5. TypeOK'
    <3>1. place' \in [Projects -> {None, "staging", "projects", "trash", "purged"}]
      BY <1>2, <1>6 DEF TypeOK
    <3>2. QED
      BY <1>1, <1>2, <2>2, <3>1 DEF TypeOK
  <2>6. GuardsExclude'
    <3>1. Enters(h, label)
      BY DEF Enters, Working, ReadsAt, WritesAt, InCatalog, Calling, Stopping
    <3>2. QED
      BY <1>1, <1>2, <2>2, <3>1, GuardStep
  <2>7. EntriesAreOwned'
    <3>1. label \notin {"absent", "start", "halt", "retire", "reopen", "load"}
                         \cup Creating \cup Stopping \cup Calling
      BY DEF Creating, Stopping, Calling
    <3>2. QED
      BY <1>1, <1>2, <2>2, <3>1, OwnedStep
  <2>8. CreationsAreFresh'
    <3>1. FreshAt(h, pc[h])'
      BY <2>2 DEF FreshAt
    <3>2. QED
      BY <1>1, <1>2, <1>3, <2>2, <2>4, <3>1, FreshStep
  <2>9. CreationsAreAdmissible'
    <3>1. AdmissibleAt(h, pc[h])'
      BY <2>2 DEF AdmissibleAt
    <3>2. QED
      BY <1>1, <1>2, <2>2, <3>1, AdmissibleStep DEF InCatalog
  <2>10. DownIsEmpty' /\ StoresAreUsed' /\ CommandsAreInOrder'
    <3>1. CommandsAreInOrder'
      BY <1>1, <1>2, <1>3, <2>2, OrderStep
    <3>2. QED
      BY <1>1, <1>2, <2>3, <2>4, <3>1 DEF DownIsEmpty, StoresAreUsed
  <2>11. WorkspacesDisjoint'
    <3>1. Listed' \subseteq Listed
      BY <2>4 DEF Listed
    <3>2. QED
      BY <1>1, <1>2, <3>1 DEF WorkspacesDisjoint
  <2>12. QED
    BY <2>5, <2>6, <2>7, <2>8, <2>9, <2>10, <2>11 DEF IInv
<1>7. QED
  <2>1. CASE Goto(h, "spawn") /\ UNCHANGED place
    BY <1>4, <1>5, <2>1, GotoCases
  <2>2. CASE Goto(h, "failed") /\ place' = [place EXCEPT ![p] = "trash"]
    BY <1>6, <2>2, GotoCases
  <2>3. CASE Goto(h, "left") /\ UNCHANGED place
    BY <1>4, <2>3, GotoCases
  <2>4. QED
    BY <1>1, <2>1, <2>2, <2>3

(* A queue changes, the others do not.                                     *)
LEMMA QueueStep ==
  ASSUME TypeOK, NEW p \in Projects, NEW s \in Seq(Commands(p)),
         queue' = [queue EXCEPT ![p] = s]
  PROVE  /\ DOMAIN queue' = Projects /\ queue'[p] = s
         /\ \A q \in Projects : q # p => queue'[q] = queue[q]
         /\ \A q \in Projects : queue'[q] \in Seq(Commands(q))
BY DEF TypeOK

LEMMA SpawnFacts ==
  ASSUME TypeOK, NEW p \in Projects, Spawned(p)
  PROVE  /\ thread' = thread \cup {p} /\ stopped' = stopped \ {p}
         /\ DOMAIN queue' = Projects /\ queue'[p] = <<>>
         /\ \A q \in Projects : q # p => queue'[q] = queue[q]
         /\ \A q \in Projects : queue'[q] \in Seq(Commands(q))
<1>1. <<>> \in Seq(Commands(p))
  OBVIOUS
<1>2. QED
  BY <1>1, QueueStep DEF Spawned

LEMMA CreateSpawnStep ==
  ASSUME IInv, NEW h \in Requests, CreateSpawn(h)
  PROVE  IInv'
<1> DEFINE p == Project[h]
<1>1. /\ up /\ pc[h] = "spawn"
      /\ UNCHANGED <<up, place, workspace, damaged, active, projects, dropped, doomed>>
      /\ \/ Goto(h, "build") /\ Spawned(p)
         \/ Goto(h, "left") /\ UNCHANGED stores
  BY DEF CreateSpawn, Move, disk
<1>2. /\ TypeOK /\ DownIsEmpty /\ GuardsExclude /\ EntriesAreOwned
      /\ CreationsAreFresh /\ CreationsAreAdmissible /\ StoresAreUsed
      /\ CommandsAreInOrder /\ WorkspacesDisjoint
  BY DEF IInv
<1>3. /\ Kind[h] = "create" /\ p \in Projects
      /\ Young(h) /\ Apart(h) /\ FreshAt(h, "spawn") /\ pc[h] \notin Sent
      /\ \A g \in Requests : Project[g] = p /\ g # h => ~Removing(g) /\ Kind[g] # "create"
  BY <1>1, CreatorFacts DEF Creating
<1>4. CASE UNCHANGED stores /\ Goto(h, "left")
  BY <1>1, <1>3, <1>4, GotoCases, LeaveStep DEF disk
<1>5. CASE Goto(h, "build") /\ Spawned(p)
  <2>1. h \notin dropped /\ pc' = [pc EXCEPT ![h] = "build"]
    BY <1>1, <1>2, <1>5, GotoCases DEF GuardsExclude, Working, Tasks, Goto
  <2>2. /\ thread' = thread \cup {p} /\ stopped' = stopped \ {p}
        /\ DOMAIN queue' = Projects /\ queue'[p] = <<>>
        /\ \A q \in Projects : q # p => queue'[q] = queue[q]
        /\ \A q \in Projects : queue'[q] \in Seq(Commands(q))
    BY <1>2, <1>3, <1>5, SpawnFacts
  <2>3. "build" \in Labels(Kind[h]) /\ "build" \notin Stopping \cup Calling
    BY <1>3 DEF Labels, Creating, Stopping, Calling
  <2>4. /\ \A g \in Requests : pc'[g] = IF g = h THEN "build" ELSE pc[g]
        /\ DOMAIN pc' = Requests /\ \A g \in Requests : pc'[g] \in Labels(Kind[g])
    BY <1>2, <2>1, <2>3, LabelStep
  <2>5. TypeOK'
    <3>1. thread' \subseteq Projects /\ stopped' \subseteq Projects
      BY <1>2, <1>3, <2>2 DEF TypeOK
    <3>2. QED
      BY <1>1, <1>2, <2>2, <2>4, <3>1 DEF TypeOK
  <2>6. GuardsExclude'
    <3>1. Enters(h, "build")
      BY <1>3, <2>1 DEF Enters, ReadsAt, WritesAt, InCatalog
    <3>2. QED
      BY <1>1, <1>2, <2>4, <3>1, GuardStep
  <2>7. EntriesAreOwned'
    <3> SUFFICES ASSUME NEW g \in Requests
                 PROVE  /\ Guarded(g)' => projects'[Project[g]] # None
                        /\ Young(g)' \/ Removing(g)' => Apart(g)'
                        /\ pc'[g] = "halt" => Project[g] \in stopped'
                        /\ pc'[g] \in {"retire", "reopen"} => Project[g] \notin thread'
      BY DEF EntriesAreOwned
    <3>1. /\ \A k \in Requests : Removing(k)' => Removing(k)
          /\ Guarded(g)' => Guarded(g)
          /\ Young(g)' \/ Removing(g)' => Young(g) \/ Removing(g)
      BY <1>3, <2>3, <2>4 DEF Guarded, Young, Removing
    <3>2. Apart(g) => Apart(g)'
      <4>1. \A q \in Projects : NoStarts(q) => NoStarts(q)'
        BY <2>2 DEF NoStarts
      <4>2. Project[g] \in Projects
        BY CatalogAssumption
      <4>3. QED
        BY <1>1, <3>1, <4>1, <4>2 DEF Apart
    <3>3. pc'[g] \in {"halt", "retire", "reopen"} => pc'[g] = pc[g] /\ Project[g] # p
      <4>1. g # h /\ pc[g] \in {"halt", "retire", "reopen"} =>
              Kind[g] = "create" \/ Removing(g)
        BY <1>2, LabelFacts DEF Removing, Stopping
      <4>2. QED
        BY <1>3, <2>4, <4>1
    <3>4. QED
      BY <1>1, <1>2, <2>2, <3>1, <3>2, <3>3 DEF EntriesAreOwned
  <2>8. CreationsAreFresh'
    <3>1. FreshAt(h, pc[h])'
      <4>1. pc'[h] = "build" /\ place'[p] = "projects" /\ p \in thread' /\ p \notin stopped'
        BY <1>1, <1>3, <2>2, <2>4 DEF FreshAt
      <4>2. QED
        BY <4>1 DEF FreshAt
    <3>2. \A q \in Projects \ {p} :
            /\ place'[q] = place[q]
            /\ (q \in thread' <=> q \in thread) /\ (q \in stopped' <=> q \in stopped)
      BY <1>1, <2>2
    <3>3. QED
      BY <1>2, <1>3, <2>4, <3>1, <3>2, FreshStep
  <2>9. CreationsAreAdmissible'
    BY <1>1, <1>2, <2>4 DEF CreationsAreAdmissible, AdmissibleAt, Listed
  <2>10. CommandsAreInOrder'
    <3> SUFFICES ASSUME NEW q \in Projects, q # p PROVE
              \A i \in DOMAIN queue'[q] :
                LET k == queue'[q][i].by
                IN /\ queue'[q][i].stop => q \in stopped'
                   /\ pc'[k] \in Sent
                   /\ Kind[k] = "remove" /\ pc'[k] = "called" =>
                        \A j \in DOMAIN queue'[q] : i < j => Kind[queue'[q][j].by] # "start"
      BY <2>2 DEF CommandsAreInOrder
    <3>1. \A i \in DOMAIN queue[q] : queue[q][i].by \in Requests /\ queue[q][i].by # h
      BY <1>2, QueueFacts
    <3>2. queue'[q] = queue[q] /\ (q \in stopped => q \in stopped')
      BY <2>2
    <3>3. \A i \in DOMAIN queue[q] : pc'[queue[q][i].by] = pc[queue[q][i].by]
      BY <2>4, <3>1
    <3>4. QED
      BY <1>2, <3>2, <3>3 DEF CommandsAreInOrder
  <2>11. DownIsEmpty' /\ StoresAreUsed' /\ WorkspacesDisjoint'
    BY <1>1, <1>2, <1>3, <2>2 DEF DownIsEmpty, StoresAreUsed, WorkspacesDisjoint, Listed, FreshAt
  <2>12. QED
    BY <2>5, <2>6, <2>7, <2>8, <2>9, <2>10, <2>11 DEF IInv
<1>6. QED
  BY <1>1, <1>4, <1>5

LEMMA CreateInsertStep ==
  ASSUME IInv, NEW h \in Requests, CreateInsert(h)
  PROVE  IInv'
<1> DEFINE p == Project[h]
<1>1. /\ up /\ pc[h] = "insert" /\ Goto(h, "done")
      /\ projects' = [projects EXCEPT ![p] = "loaded"]
      /\ UNCHANGED <<up, place, workspace, damaged, active, thread, queue, stopped,
                     dropped, doomed>>
  BY DEF CreateInsert, Move, disk, stores
<1>2. /\ TypeOK /\ DownIsEmpty /\ GuardsExclude /\ EntriesAreOwned
      /\ CreationsAreFresh /\ CreationsAreAdmissible /\ StoresAreUsed
      /\ CommandsAreInOrder /\ WorkspacesDisjoint
  BY DEF IInv
<1>3. /\ Kind[h] = "create" /\ p \in Projects
      /\ FreshAt(h, "insert") /\ pc[h] \notin Sent
      /\ \A g \in Requests : Project[g] = p /\ g # h => ~Removing(g) /\ Kind[g] # "create"
  BY <1>1, CreatorFacts DEF Creating
<1>4. PICK label \in {"done", "gone"} : pc' = [pc EXCEPT ![h] = label]
  BY <1>1, GotoCases
<1>5. label \in Labels(Kind[h])
  BY DEF Labels, Everyone
<1>6. /\ \A g \in Requests : pc'[g] = IF g = h THEN label ELSE pc[g]
      /\ DOMAIN pc' = Requests /\ \A g \in Requests : pc'[g] \in Labels(Kind[g])
  BY <1>2, <1>4, <1>5, LabelStep
<1>7. /\ \A q \in Projects : q # p => projects'[q] = projects[q]
      /\ projects'[p] = "loaded"
  BY <1>1, <1>2, <1>3 DEF TypeOK
<1>8. label \notin {"absent", "start", "halt", "retire", "reopen", "load", "called"}
                     \cup Creating \cup Stopping \cup Calling
  BY DEF Creating, Stopping, Calling
<1>9. TypeOK'
  <2>1. projects' \in [Projects -> {None, "unloaded", "loaded"}]
    BY <1>1, <1>2 DEF TypeOK
  <2>2. QED
    BY <1>1, <1>2, <1>6, <2>1 DEF TypeOK
<1>10. GuardsExclude'
  <2>1. Enters(h, label)
    BY <1>8 DEF Enters, Working, ReadsAt, WritesAt, InCatalog
  <2>2. QED
    BY <1>1, <1>2, <1>6, <2>1, GuardStep
<1>11. EntriesAreOwned'
  <2> SUFFICES ASSUME NEW g \in Requests
               PROVE  /\ Guarded(g)' => projects'[Project[g]] # None
                      /\ Young(g)' \/ Removing(g)' => Apart(g)'
                      /\ pc'[g] = "halt" => Project[g] \in stopped'
                      /\ pc'[g] \in {"retire", "reopen"} => Project[g] \notin thread'
    BY DEF EntriesAreOwned
  <2>1. Project[g] \in Projects
    BY CatalogAssumption
  <2>2. /\ \A k \in Requests : Removing(k)' => Removing(k)
        /\ Guarded(g)' => Guarded(g)
        /\ Young(g)' \/ Removing(g)' => (Young(g) \/ Removing(g)) /\ Project[g] # p
    BY <1>3, <1>6, <1>8 DEF Guarded, Young, Removing
  <2>3. Apart(g) /\ Project[g] # p => Apart(g)'
    BY <1>1, <1>7, <2>1, <2>2 DEF Apart, NoStarts
  <2>4. QED
    BY <1>1, <1>2, <1>6, <1>7, <1>8, <2>1, <2>2, <2>3 DEF EntriesAreOwned, None
<1>12. CreationsAreFresh' /\ CreationsAreAdmissible'
  BY <1>1, <1>2, <1>6, <1>8
  DEF CreationsAreFresh, FreshAt, CreationsAreAdmissible, AdmissibleAt, Listed, Creating
<1>13. CommandsAreInOrder'
  BY <1>1, <1>2, <1>3, <1>6, <1>8, OrderStep
<1>14. DownIsEmpty' /\ StoresAreUsed' /\ WorkspacesDisjoint'
  BY <1>1, <1>2, <1>3, <1>7
  DEF DownIsEmpty, StoresAreUsed, WorkspacesDisjoint, Listed, FreshAt
<1>15. QED
  BY <1>9, <1>10, <1>11, <1>12, <1>13, <1>14 DEF IInv
-----------------------------------------------------------------------------
(* A future that is not a task, and stands where it does, is not gone.     *)
LEMMA MoveFacts ==
  ASSUME GuardsExclude, NEW h \in Requests, NEW to, pc[h] \in Working \ Tasks, Goto(h, to)
  PROVE  h \notin dropped /\ pc' = [pc EXCEPT ![h] = to]
BY DEF GuardsExclude, Goto

LEMMA LoadStep ==
  ASSUME IInv, NEW h \in Requests, Load(h)
  PROVE  IInv'
<1> DEFINE p == Project[h]
<1>1. /\ up /\ pc[h] = "load"
      /\ UNCHANGED <<up, place, workspace, damaged, active, thread, queue, stopped,
                     dropped, doomed>>
      /\ \/ Goto(h, "call") /\ projects' = [projects EXCEPT ![p] = "loaded"]
         \/ Goto(h, "failed") /\ UNCHANGED projects
  BY DEF Load, Move, disk, stores
<1>2. /\ TypeOK /\ DownIsEmpty /\ GuardsExclude /\ EntriesAreOwned
      /\ CreationsAreFresh /\ CreationsAreAdmissible /\ StoresAreUsed
      /\ CommandsAreInOrder /\ WorkspacesDisjoint
  BY DEF IInv
<1>3. Kind[h] = "start" /\ p \in Projects /\ Guarded(h) /\ projects[p] # None
  BY <1>1, <1>2, LabelFacts DEF Guarded, EntriesAreOwned
<1>4. CASE Goto(h, "failed") /\ UNCHANGED projects
  BY <1>1, <1>4, GotoCases, LeaveStep DEF disk, stores
<1>5. CASE Goto(h, "call") /\ projects' = [projects EXCEPT ![p] = "loaded"]
  <2>1. h \notin dropped /\ pc' = [pc EXCEPT ![h] = "call"]
    BY <1>1, <1>2, <1>5, MoveFacts DEF Working, Tasks
  <2>2. /\ projects' \in [Projects -> {None, "unloaded", "loaded"}]
        /\ \A q \in Projects : projects'[q] = None <=> projects[q] = None
    BY <1>2, <1>3, <1>5 DEF TypeOK, None
  <2>3. "call" \in Labels(Kind[h]) /\ "call" \notin Stopping \cup Creating
    BY <1>3 DEF Labels, Calling, Creating, Stopping
  <2>4. /\ \A g \in Requests : pc'[g] = IF g = h THEN "call" ELSE pc[g]
        /\ DOMAIN pc' = Requests /\ \A g \in Requests : pc'[g] \in Labels(Kind[g])
    BY <1>2, <2>1, <2>3, LabelStep
  <2>5. TypeOK'
    BY <1>1, <1>2, <2>2, <2>4 DEF TypeOK
  <2>6. GuardsExclude'
    <3>1. Enters(h, "call")
      BY <1>1, <1>3, <2>1 DEF Enters, ReadsAt, WritesAt, InCatalog, Reading
    <3>2. QED
      BY <1>1, <1>2, <2>4, <3>1, GuardStep
  <2>7. EntriesAreOwned'
    <3>1. \A g \in Requests : /\ Guarded(g)' => Guarded(g)
                              /\ Young(g)' => Young(g)
                              /\ Removing(g)' => Removing(g)
                              /\ Project[g] \in Projects
      BY <1>3, <2>4, CatalogAssumption DEF Guarded, Young, Removing
    <3>2. \A g \in Requests : Apart(g) => Apart(g)'
      BY <1>1, <2>2, <3>1 DEF Apart, NoStarts
    <3>3. QED
      BY <1>1, <1>2, <2>2, <2>4, <3>1, <3>2 DEF EntriesAreOwned
  <2>8. CreationsAreFresh' /\ CreationsAreAdmissible'
    BY <1>1, <1>2, <2>4
    DEF CreationsAreFresh, FreshAt, CreationsAreAdmissible, AdmissibleAt, Listed
  <2>9. CommandsAreInOrder'
    <3>1. pc[h] \notin Sent
      BY <1>1 DEF Sent, Ended, Stopping
    <3>2. QED
      BY <1>1, <1>2, <2>4, <3>1, OrderStep
  <2>10. DownIsEmpty' /\ StoresAreUsed' /\ WorkspacesDisjoint'
    BY <1>1, <1>2, <2>2 DEF DownIsEmpty, StoresAreUsed, WorkspacesDisjoint, Listed
  <2>11. QED
    BY <2>5, <2>6, <2>7, <2>8, <2>9, <2>10 DEF IInv
<1>6. QED
  BY <1>1, <1>4, <1>5

(* A creation that failed, or a removal, is on its own with the Store.     *)
LEMMA StopperFacts ==
  ASSUME IInv, NEW h \in Requests, pc[h] \in Stopping \cup {"reopen"}
  PROVE  /\ Kind[h] \in {"create", "remove"} /\ Project[h] \in Projects
         /\ Young(h) \/ Removing(h)
         /\ Apart(h) /\ pc[h] \in Sent \ {"called"}
         /\ \A g \in Requests : Project[g] = Project[h] /\ g # h => ~Removing(g) /\ ~Young(g)
<1>1. /\ Kind[h] \in {"create", "remove"} /\ Project[h] \in Projects
      /\ pc[h] = "reopen" => Kind[h] = "remove"
  BY LabelFacts DEF IInv
<1>2. Young(h) \/ Removing(h)
  BY <1>1 DEF Young, Removing
<1>3. \A g \in Requests : Young(g) \/ Removing(g) => Apart(g)
  BY DEF IInv, EntriesAreOwned
<1>4. \A g \in Requests : Project[g] = Project[h] /\ g # h => ~Removing(g) /\ ~Young(g)
  <2> SUFFICES ASSUME NEW g \in Requests, Project[g] = Project[h], g # h
               PROVE  ~Removing(g) /\ ~Young(g)
    OBVIOUS
  <2>1. ~Removing(g)
    BY <1>2, <1>3 DEF Apart
  <2>2. ASSUME Young(g) PROVE FALSE
    <3>1. ~Removing(h)
      BY <1>3, <2>2 DEF Apart
    <3>2. Kind[g] = "create" /\ Kind[h] = "create"
      BY <1>2, <2>2, <3>1 DEF Young
    <3>3. QED
      BY <3>2, CreatorsAreUnique
  <2>3. QED
    BY <2>1, <2>2
<1>5. pc[h] \in Sent \ {"called"}
  BY DEF Sent, Stopping
<1>6. QED
  BY <1>1, <1>2, <1>3, <1>4, <1>5

LEMMA StopStep ==
  ASSUME IInv, NEW h \in Requests, Stop(h)
  PROVE  IInv'
<1> DEFINE p == Project[h]
<1>1. /\ up /\ pc[h] = "stop" /\ Goto(h, "halt") /\ stopped' = stopped \cup {p}
      /\ UNCHANGED <<up, place, workspace, damaged, active, projects, thread, queue,
                     dropped, doomed>>
  BY DEF Stop, Move, disk
<1>2. /\ TypeOK /\ DownIsEmpty /\ GuardsExclude /\ EntriesAreOwned
      /\ CreationsAreFresh /\ CreationsAreAdmissible /\ StoresAreUsed
      /\ CommandsAreInOrder /\ WorkspacesDisjoint
  BY DEF IInv
<1>3. /\ Kind[h] \in {"create", "remove"} /\ p \in Projects
      /\ Young(h) \/ Removing(h)
      /\ Apart(h) /\ pc[h] \in Sent \ {"called"}
      /\ \A g \in Requests : Project[g] = p /\ g # h => ~Removing(g) /\ ~Young(g)
  BY <1>1, StopperFacts DEF Stopping
<1>4. h \notin dropped /\ pc' = [pc EXCEPT ![h] = "halt"]
  BY <1>1, <1>2, MoveFacts DEF Working, Tasks
<1>5. "halt" \in Labels(Kind[h]) /\ "halt" \notin Calling \cup Creating /\ "halt" \in Sent
  BY <1>3 DEF Labels, Calling, Creating, Stopping, Sent
<1>6. /\ \A g \in Requests : pc'[g] = IF g = h THEN "halt" ELSE pc[g]
      /\ DOMAIN pc' = Requests /\ \A g \in Requests : pc'[g] \in Labels(Kind[g])
  BY <1>2, <1>4, <1>5, LabelStep
<1>7. TypeOK' /\ DownIsEmpty'
  BY <1>1, <1>2, <1>3, <1>6 DEF TypeOK, DownIsEmpty
<1>8. GuardsExclude'
  <2>1. Enters(h, "halt")
    BY <1>1, <1>3, <1>4 DEF Enters, ReadsAt, WritesAt, InCatalog, Writing, Calling
  <2>2. QED
    BY <1>1, <1>2, <1>6, <2>1, GuardStep
<1>9. EntriesAreOwned'
  <2>1. \A g \in Requests : /\ Guarded(g)' => Guarded(g)
                            /\ Young(g)' => Young(g)
                            /\ Removing(g)' => Removing(g)
    BY <1>1, <1>3, <1>5, <1>6 DEF Guarded, Young, Removing, Stopping
  <2>2. \A g \in Requests : Apart(g) => Apart(g)'
    BY <1>1, <2>1 DEF Apart, NoStarts
  <2>3. QED
    BY <1>1, <1>2, <1>6, <2>1, <2>2 DEF EntriesAreOwned
<1>10. CreationsAreFresh'
  <2> SUFFICES ASSUME NEW g \in Requests, Kind[g] = "create", pc'[g] \in {"build", "insert"},
                      Project[g] = p
               PROVE  FALSE
    BY <1>1, <1>2, <1>6 DEF CreationsAreFresh, FreshAt
  <2>1. g # h /\ pc[g] \in {"build", "insert"}
    BY <1>6
  <2>2. Young(g)
    BY <2>1 DEF Young, Creating
  <2>3. QED
    BY <1>3, <2>1, <2>2
<1>11. CreationsAreAdmissible'
  BY <1>1, <1>2, <1>6 DEF CreationsAreAdmissible, AdmissibleAt, Listed
<1>12. CommandsAreInOrder'
  <2>1. \A q \in Projects : \A i \in DOMAIN queue[q] : queue[q][i].by \in Requests
    BY <1>2, QueueFacts
  <2>2. QED
    BY <1>1, <1>2, <1>3, <1>5, <1>6, <2>1 DEF CommandsAreInOrder
<1>13. StoresAreUsed' /\ WorkspacesDisjoint'
  BY <1>1, <1>2, <1>3 DEF StoresAreUsed, WorkspacesDisjoint, Listed, Apart
<1>14. QED
  BY <1>7, <1>8, <1>9, <1>10, <1>11, <1>12, <1>13 DEF IInv

(* A command joins the queue of its Project.                               *)
LEMMA EnqueueFacts ==
  ASSUME TypeOK, NEW p \in Projects, NEW c \in Commands(p), Enqueue(p, c)
  PROVE  LET n == Len(queue[p]) + 1
         IN /\ DOMAIN queue' = Projects
            /\ \A q \in Projects : q # p => queue'[q] = queue[q]
            /\ \A q \in Projects : queue'[q] \in Seq(Commands(q))
            /\ DOMAIN queue'[p] = DOMAIN queue[p] \cup {n}
            /\ \A i \in DOMAIN queue[p] : i \in Nat /\ i < n /\ queue'[p][i] = queue[p][i]
            /\ queue'[p][n] = c /\ n \in Nat
<1>1. queue[p] \in Seq(Commands(p))
  BY DEF TypeOK
<1>2. Append(queue[p], c) \in Seq(Commands(p)) /\ Len(queue[p]) + 1 \in Nat
  BY <1>1
<1>3. queue' = [queue EXCEPT ![p] = Append(queue[p], c)]
  BY DEF Enqueue
<1>4. /\ DOMAIN queue' = Projects /\ queue'[p] = Append(queue[p], c)
      /\ \A q \in Projects : q # p => queue'[q] = queue[q]
      /\ \A q \in Projects : queue'[q] \in Seq(Commands(q))
  BY <1>2, <1>3, QueueStep
<1>5. QED
  BY <1>1, <1>2, <1>4, AppendFacts

(* It starts no Session, so neither does what waits there.                 *)
LEMMA NoStartsJoined ==
  ASSUME NEW p, NEW n, NEW c, NoStarts(p), Kind[c.by] # "start",
         DOMAIN queue'[p] = DOMAIN queue[p] \cup {n},
         \A i \in DOMAIN queue[p] : queue'[p][i] = queue[p][i], queue'[p][n] = c
  PROVE  NoStarts(p)'
<1> SUFFICES ASSUME NEW i \in DOMAIN queue'[p] PROVE Kind[queue'[p][i].by] # "start"
  BY DEF NoStarts
<1>1. CASE i = n
  BY <1>1
<1>2. CASE i \in DOMAIN queue[p]
  BY <1>2 DEF NoStarts
<1>3. QED
  BY <1>1, <1>2

LEMMA SendStep ==
  ASSUME IInv, NEW h \in Requests, Send(h)
  PROVE  IInv'
<1> DEFINE p == Project[h]
           c == Command(h, FALSE)
           n == Len(queue[p]) + 1
<1>1. /\ up /\ pc[h] = "send" /\ Goto(h, "called") /\ Enqueue(p, c)
      /\ UNCHANGED <<up, place, workspace, damaged, active, projects, thread, stopped,
                     dropped, doomed>>
  BY DEF Send, Move, disk
<1>2. /\ TypeOK /\ DownIsEmpty /\ GuardsExclude /\ EntriesAreOwned
      /\ CreationsAreFresh /\ CreationsAreAdmissible /\ StoresAreUsed
      /\ CommandsAreInOrder /\ WorkspacesDisjoint
  BY DEF IInv
<1>3. /\ Kind[h] \in {"relocate", "remove", "start", "stream"} /\ p \in Projects
      /\ Kind[h] # "stream" => projects[p] # None
      /\ pc[h] \notin Sent
  BY <1>1, <1>2, LabelFacts DEF Calling, EntriesAreOwned, Guarded, Sent, Stopping, Ended
<1>4. h \notin dropped /\ pc' = [pc EXCEPT ![h] = "called"]
  BY <1>1, <1>2, MoveFacts DEF Working, Tasks
<1>5. "called" \in Labels(Kind[h]) /\ "called" \notin Stopping \cup Creating
  BY <1>3 DEF Labels, Calling, Creating, Stopping
<1>6. /\ \A g \in Requests : pc'[g] = IF g = h THEN "called" ELSE pc[g]
      /\ DOMAIN pc' = Requests /\ \A g \in Requests : pc'[g] \in Labels(Kind[g])
  BY <1>2, <1>4, <1>5, LabelStep
<1>7. c \in Commands(p) /\ c.by = h /\ c.stop = FALSE
  BY DEF Command, Commands
<1>8. /\ DOMAIN queue' = Projects
      /\ \A q \in Projects : q # p => queue'[q] = queue[q]
      /\ \A q \in Projects : queue'[q] \in Seq(Commands(q))
      /\ DOMAIN queue'[p] = DOMAIN queue[p] \cup {n}
      /\ \A i \in DOMAIN queue[p] : i \in Nat /\ i < n /\ queue'[p][i] = queue[p][i]
      /\ queue'[p][n] = c /\ n \in Nat
  BY <1>1, <1>2, <1>3, <1>7, EnqueueFacts
<1>9. TypeOK' /\ DownIsEmpty'
  BY <1>1, <1>2, <1>6, <1>8 DEF TypeOK, DownIsEmpty
<1>10. GuardsExclude'
  <2>1. Enters(h, "called")
    BY <1>1, <1>3, <1>4 DEF Enters, ReadsAt, WritesAt, InCatalog, Reading, Writing
  <2>2. QED
    BY <1>1, <1>2, <1>6, <2>1, GuardStep
<1>11. EntriesAreOwned'
  <2>1. \A g \in Requests : /\ Guarded(g)' => Guarded(g)
                            /\ Young(g)' => Young(g)
                            /\ Removing(g)' => Removing(g)
                            /\ Project[g] \in Projects
    BY <1>1, <1>3, <1>5, <1>6, CatalogAssumption DEF Guarded, Young, Removing, Calling
  <2>2. \A g \in Requests : Apart(g) => Apart(g)'
    <3> SUFFICES ASSUME NEW g \in Requests, Apart(g) PROVE NoStarts(Project[g])'
      BY <1>1, <2>1 DEF Apart
    <3>1. CASE Project[g] # p
      BY <1>8, <2>1, <3>1 DEF Apart, NoStarts
    <3>2. CASE Project[g] = p
      <4>1. projects[p] = None /\ NoStarts(p)
        BY <3>2 DEF Apart
      <4>2. Kind[h] # "start"
        BY <1>3, <4>1
      <4>3. Kind[c.by] # "start"
        BY <1>7, <4>2
      <4>4. NoStarts(p)'
        BY <1>8, <4>1, <4>3, NoStartsJoined
      <4>5. QED
        BY <3>2, <4>4
    <3>3. QED
      BY <3>1, <3>2
  <2>3. QED
    BY <1>1, <1>2, <1>6, <2>1, <2>2 DEF EntriesAreOwned
<1>12. CreationsAreFresh' /\ CreationsAreAdmissible'
  BY <1>1, <1>2, <1>6
  DEF CreationsAreFresh, FreshAt, CreationsAreAdmissible, AdmissibleAt, Listed
<1>13. CommandsAreInOrder'
  <2>1. \A q \in Projects : \A i \in DOMAIN queue[q] :
          queue[q][i].by \in Requests /\ queue[q][i].by # h
    BY <1>2, <1>3, QueueFacts DEF CommandsAreInOrder
  <2>2. ASSUME NEW q \in Projects, NEW i \in DOMAIN queue'[q]
        PROVE  /\ queue'[q][i].stop => q \in stopped'
               /\ pc'[queue'[q][i].by] \in Sent
    <3>1. CASE q = p /\ i = n
      BY <1>6, <1>7, <1>8, <3>1 DEF Sent
    <3>2. CASE ~(q = p /\ i = n)
      <4>1. i \in DOMAIN queue[q] /\ queue'[q][i] = queue[q][i]
        BY <1>8, <3>2
      <4>2. QED
        BY <1>1, <1>2, <1>6, <2>1, <4>1 DEF CommandsAreInOrder
    <3>3. QED
      BY <3>1, <3>2
  <2>3. ASSUME NEW q \in Projects, NEW i \in DOMAIN queue'[q],
               Kind[queue'[q][i].by] = "remove", pc'[queue'[q][i].by] = "called",
               NEW j \in DOMAIN queue'[q], i < j
        PROVE  Kind[queue'[q][j].by] # "start"
    <3>1. CASE q # p \/ (i # n /\ j # n)
      <4>1. /\ i \in DOMAIN queue[q] /\ queue'[q][i] = queue[q][i]
            /\ j \in DOMAIN queue[q] /\ queue'[q][j] = queue[q][j]
        BY <1>8, <3>1
      <4>2. pc[queue[q][i].by] = "called"
        BY <1>6, <2>1, <2>3, <4>1
      <4>3. QED
        BY <1>2, <2>3, <4>1, <4>2 DEF CommandsAreInOrder
    <3>2. CASE q = p /\ i # n /\ j = n
      <4>1. PICK g \in Requests : g = queue[p][i].by /\ g # h /\ i \in DOMAIN queue[p]
        BY <1>8, <2>1, <3>2
      <4>2. Kind[g] = "remove" /\ pc[g] = "called"
        BY <1>6, <1>8, <2>3, <3>2, <4>1
      <4>3. Writing(g)
        BY <1>2, <4>2 DEF Writing, GuardsExclude, Working, Tasks
      <4>4. ~Reading(h)
        BY <1>2, <4>3 DEF GuardsExclude
      <4>5. Kind[h] # "start"
        BY <1>1, <4>4 DEF Reading
      <4>6. QED
        BY <1>7, <1>8, <3>2, <4>5
    <3>3. CASE q = p /\ i = n
      BY <1>8, <2>3, <3>3
    <3>4. QED
      BY <3>1, <3>2, <3>3
  <2>4. QED
    BY <2>2, <2>3 DEF CommandsAreInOrder
<1>14. StoresAreUsed' /\ WorkspacesDisjoint'
  BY <1>1, <1>2 DEF StoresAreUsed, WorkspacesDisjoint, Listed
<1>15. QED
  BY <1>9, <1>10, <1>11, <1>12, <1>13, <1>14 DEF IInv

LEMMA HaltStep ==
  ASSUME IInv, NEW h \in Requests, Halt(h)
  PROVE  IInv'
<1> DEFINE p == Project[h]
           c == Command(h, TRUE)
           n == Len(queue[p]) + 1
<1>1. /\ up /\ pc[h] = "halt" /\ Goto(h, "halted") /\ Enqueue(p, c)
      /\ UNCHANGED <<up, place, workspace, damaged, active, projects, thread, stopped,
                     dropped, doomed>>
  BY DEF Halt, Move, disk
<1>2. /\ TypeOK /\ DownIsEmpty /\ GuardsExclude /\ EntriesAreOwned
      /\ CreationsAreFresh /\ CreationsAreAdmissible /\ StoresAreUsed
      /\ CommandsAreInOrder /\ WorkspacesDisjoint
  BY DEF IInv
<1>3. /\ Kind[h] \in {"create", "remove"} /\ p \in Projects
      /\ Young(h) \/ Removing(h)
      /\ pc[h] \in Sent \ {"called"} /\ p \in stopped
  BY <1>1, <1>2, StopperFacts DEF Stopping, EntriesAreOwned
<1>4. h \notin dropped /\ pc' = [pc EXCEPT ![h] = "halted"]
  BY <1>1, <1>2, MoveFacts DEF Working, Tasks
<1>5. "halted" \in Labels(Kind[h]) /\ "halted" \notin Calling \cup Creating /\ "halted" \in Sent
  BY <1>3 DEF Labels, Calling, Creating, Stopping, Sent
<1>6. /\ \A g \in Requests : pc'[g] = IF g = h THEN "halted" ELSE pc[g]
      /\ DOMAIN pc' = Requests /\ \A g \in Requests : pc'[g] \in Labels(Kind[g])
  BY <1>2, <1>4, <1>5, LabelStep
<1>7. c \in Commands(p) /\ c.by = h
  BY DEF Command, Commands
<1>8. /\ DOMAIN queue' = Projects
      /\ \A q \in Projects : q # p => queue'[q] = queue[q]
      /\ \A q \in Projects : queue'[q] \in Seq(Commands(q))
      /\ DOMAIN queue'[p] = DOMAIN queue[p] \cup {n}
      /\ \A i \in DOMAIN queue[p] : i \in Nat /\ i < n /\ queue'[p][i] = queue[p][i]
      /\ queue'[p][n] = c /\ n \in Nat
  BY <1>1, <1>2, <1>3, <1>7, EnqueueFacts
<1>9. TypeOK' /\ DownIsEmpty'
  BY <1>1, <1>2, <1>6, <1>8 DEF TypeOK, DownIsEmpty
<1>10. GuardsExclude'
  <2>1. Enters(h, "halted")
    BY <1>1, <1>3, <1>4 DEF Enters, ReadsAt, WritesAt, InCatalog, Writing, Calling
  <2>2. QED
    BY <1>1, <1>2, <1>6, <2>1, GuardStep
<1>11. EntriesAreOwned'
  <2>1. \A g \in Requests : /\ Guarded(g)' => Guarded(g)
                            /\ Young(g)' => Young(g)
                            /\ Removing(g)' => Removing(g)
                            /\ Project[g] \in Projects
    BY <1>1, <1>3, <1>5, <1>6, CatalogAssumption DEF Guarded, Young, Removing, Stopping
  <2>2. ASSUME NEW q \in Projects, NoStarts(q) PROVE NoStarts(q)'
    <3>1. CASE q # p
      BY <1>8, <2>2, <3>1 DEF NoStarts
    <3>2. CASE q = p
      <4>1. Kind[c.by] # "start"
        BY <1>3, <1>7
      <4>2. QED
        BY <1>8, <2>2, <3>2, <4>1, NoStartsJoined
    <3>3. QED
      BY <3>1, <3>2
  <2>3. \A g \in Requests : Apart(g) => Apart(g)'
    BY <1>1, <2>1, <2>2 DEF Apart
  <2>4. QED
    BY <1>1, <1>2, <1>6, <2>1, <2>3 DEF EntriesAreOwned
<1>12. CreationsAreFresh' /\ CreationsAreAdmissible'
  BY <1>1, <1>2, <1>6
  DEF CreationsAreFresh, FreshAt, CreationsAreAdmissible, AdmissibleAt, Listed
<1>13. CommandsAreInOrder'
  <2>1. \A q \in Projects : \A i \in DOMAIN queue[q] : queue[q][i].by \in Requests
    BY <1>2, QueueFacts
  <2>2. \A g \in Requests : /\ pc[g] \in Sent => pc'[g] \in Sent
                            /\ pc'[g] = "called" => pc[g] = "called" /\ g # h
    BY <1>5, <1>6
  <2>3. ASSUME NEW q \in Projects, NEW i \in DOMAIN queue'[q]
        PROVE  /\ queue'[q][i].stop => q \in stopped'
               /\ pc'[queue'[q][i].by] \in Sent
    <3>1. CASE q = p /\ i = n
      <4>1. queue'[q][i].by = h /\ pc'[h] = "halted"
        BY <1>6, <1>7, <1>8, <3>1
      <4>2. QED
        BY <1>1, <1>3, <1>5, <3>1, <4>1
    <3>2. CASE ~(q = p /\ i = n)
      <4>1. i \in DOMAIN queue[q] /\ queue'[q][i] = queue[q][i]
        BY <1>8, <3>2
      <4>2. QED
        BY <1>1, <1>2, <2>1, <2>2, <4>1 DEF CommandsAreInOrder
    <3>3. QED
      BY <3>1, <3>2
  <2>4. ASSUME NEW q \in Projects, NEW i \in DOMAIN queue'[q],
               Kind[queue'[q][i].by] = "remove", pc'[queue'[q][i].by] = "called",
               NEW j \in DOMAIN queue'[q], i < j
        PROVE  Kind[queue'[q][j].by] # "start"
    <3>1. CASE q = p /\ j = n
      BY <1>3, <1>7, <1>8, <3>1
    <3>2. CASE ~(q = p /\ j = n)
      <4>1. ~(q = p /\ i = n)
        BY <1>5, <1>6, <1>7, <1>8, <2>4 DEF Calling
      <4>2. /\ i \in DOMAIN queue[q] /\ queue'[q][i] = queue[q][i]
            /\ j \in DOMAIN queue[q] /\ queue'[q][j] = queue[q][j]
        BY <1>8, <3>2, <4>1
      <4>3. QED
        BY <1>2, <2>1, <2>2, <2>4, <4>2 DEF CommandsAreInOrder
    <3>3. QED
      BY <3>1, <3>2
  <2>5. QED
    BY <2>3, <2>4 DEF CommandsAreInOrder
<1>14. StoresAreUsed' /\ WorkspacesDisjoint'
  BY <1>1, <1>2 DEF StoresAreUsed, WorkspacesDisjoint, Listed
<1>15. QED
  BY <1>9, <1>10, <1>11, <1>12, <1>13, <1>14 DEF IInv
-----------------------------------------------------------------------------
(* Steps of a Store thread                                                 *)

(* The head of the queue is answered, if someone waits.                    *)
LEMMA AnswerFacts ==
  ASSUME TypeOK, NEW p \in Projects, NextCommand(p), NEW label, Answer(p, label),
         label \in Labels(Kind[Head(queue[p]).by])
  PROVE  LET h == Head(queue[p]).by
         IN /\ up /\ p \in thread /\ h \in Requests /\ Project[h] = p
            /\ 1 \in DOMAIN queue[p] /\ Head(queue[p]) = queue[p][1]
            /\ \A g \in Requests :
                 pc'[g] = IF g = h THEN IF pc[h] = "called" THEN label ELSE pc[h]
                          ELSE pc[g]
            /\ DOMAIN pc' = Requests /\ \A g \in Requests : pc'[g] \in Labels(Kind[g])
            /\ DOMAIN queue' = Projects
            /\ \A q \in Projects : q # p => queue'[q] = queue[q]
            /\ \A q \in Projects : queue'[q] \in Seq(Commands(q))
            /\ \A i \in DOMAIN queue'[p] :
                 /\ i \in Nat /\ 1 < i + 1 /\ i + 1 \in DOMAIN queue[p]
                 /\ queue'[p][i] = queue[p][i + 1]
<1> DEFINE h == Head(queue[p]).by
<1>1. queue[p] \in Seq(Commands(p)) /\ queue[p] # <<>> /\ up /\ p \in thread
  BY DEF TypeOK, NextCommand
<1>2. /\ Head(queue[p]) = queue[p][1] /\ Head(queue[p]) \in Commands(p) /\ 1 \in DOMAIN queue[p]
      /\ Tail(queue[p]) \in Seq(Commands(p))
      /\ \A i \in DOMAIN Tail(queue[p]) :
           i \in Nat /\ 1 < i + 1 /\ i + 1 \in DOMAIN queue[p] /\ Tail(queue[p])[i] = queue[p][i + 1]
  BY <1>1, TailFacts
<1>3. h \in Requests /\ Project[h] = p
  BY <1>2 DEF Commands
<1>4. queue' = [queue EXCEPT ![p] = Tail(queue[p])]
  BY DEF Answer
<1>5. /\ DOMAIN queue' = Projects /\ queue'[p] = Tail(queue[p])
      /\ \A q \in Projects : q # p => queue'[q] = queue[q]
      /\ \A q \in Projects : queue'[q] \in Seq(Commands(q))
  BY <1>2, <1>4, QueueStep
<1>6. pc' = IF pc[h] = "called" THEN [pc EXCEPT ![h] = label] ELSE pc
  BY DEF Answer
<1>7. /\ DOMAIN pc' = Requests /\ \A g \in Requests : pc'[g] \in Labels(Kind[g])
      /\ \A g \in Requests :
           pc'[g] = IF g = h THEN IF pc[h] = "called" THEN label ELSE pc[h] ELSE pc[g]
  <2>1. CASE pc[h] = "called"
    BY <1>3, <1>6, <2>1, LabelStep
  <2>2. CASE pc[h] # "called"
    BY <1>6, <2>2 DEF TypeOK
  <2>3. QED
    BY <2>1, <2>2
<1>8. QED
  BY <1>1, <1>2, <1>3, <1>5, <1>7

(* The commands behind the head move up.                                   *)
LEMMA AnswerOrder ==
  ASSUME TypeOK, CommandsAreInOrder, NEW p \in Projects, NextCommand(p),
         NEW label \in Sent \ {"called"}, Answer(p, label),
         label \in Labels(Kind[Head(queue[p]).by]), UNCHANGED stopped
  PROVE  /\ CommandsAreInOrder'
         /\ \A q \in Projects : NoStarts(q) => NoStarts(q)'
<1> DEFINE h == Head(queue[p]).by
<1>1. /\ h \in Requests
      /\ \A g \in Requests :
           pc'[g] = IF g = h THEN IF pc[h] = "called" THEN label ELSE pc[h] ELSE pc[g]
      /\ \A q \in Projects : q # p => queue'[q] = queue[q]
      /\ \A i \in DOMAIN queue'[p] :
           /\ i \in Nat /\ i + 1 \in DOMAIN queue[p]
           /\ queue'[p][i] = queue[p][i + 1]
  BY AnswerFacts
<1>2. \A q \in Projects : NoStarts(q) => NoStarts(q)'
  BY <1>1 DEF NoStarts
<1>3. \A g \in Requests : /\ pc[g] \in Sent => pc'[g] \in Sent
                          /\ pc'[g] = "called" => pc[g] = "called"
  BY <1>1
<1>4. \A q \in Projects : \A i \in DOMAIN queue[q] : queue[q][i].by \in Requests
  BY QueueFacts
<1>5. \A q \in Projects : \A i \in DOMAIN queue'[q] :
        \E k \in DOMAIN queue[q] :
          /\ queue'[q][i] = queue[q][k]
          /\ \A j \in DOMAIN queue'[q] :
               i < j => \E l \in DOMAIN queue[q] : k < l /\ queue'[q][j] = queue[q][l]
  <2> SUFFICES ASSUME NEW q \in Projects, NEW i \in DOMAIN queue'[q]
               PROVE  \E k \in DOMAIN queue[q] :
                        /\ queue'[q][i] = queue[q][k]
                        /\ \A j \in DOMAIN queue'[q] :
                             i < j => \E l \in DOMAIN queue[q] :
                                        k < l /\ queue'[q][j] = queue[q][l]
    OBVIOUS
  <2>1. CASE q = p
    <3>1. i + 1 \in DOMAIN queue[p] /\ queue'[p][i] = queue[p][i + 1] /\ i \in Nat
      BY <1>1, <2>1
    <3>2. ASSUME NEW j \in DOMAIN queue'[p], i < j
          PROVE  j + 1 \in DOMAIN queue[p] /\ i + 1 < j + 1 /\ queue'[p][j] = queue[p][j + 1]
      <4>1. j \in Nat /\ j + 1 \in DOMAIN queue[p] /\ queue'[p][j] = queue[p][j + 1]
        BY <1>1
      <4>2. QED
        BY <3>1, <3>2, <4>1
    <3>3. QED
      BY <2>1, <3>1, <3>2
  <2>2. CASE q # p
    BY <1>1, <2>2
  <2>3. QED
    BY <2>1, <2>2
<1>6. CommandsAreInOrder'
  <2> SUFFICES ASSUME NEW q \in Projects, NEW i \in DOMAIN queue'[q]
               PROVE  LET g == queue'[q][i].by
                      IN /\ queue'[q][i].stop => q \in stopped'
                         /\ pc'[g] \in Sent
                         /\ Kind[g] = "remove" /\ pc'[g] = "called" =>
                              \A j \in DOMAIN queue'[q] :
                                i < j => Kind[queue'[q][j].by] # "start"
    BY DEF CommandsAreInOrder
  <2>1. PICK k \in DOMAIN queue[q] :
          /\ queue'[q][i] = queue[q][k]
          /\ \A j \in DOMAIN queue'[q] :
               i < j => \E l \in DOMAIN queue[q] : k < l /\ queue'[q][j] = queue[q][l]
    BY <1>5
  <2>2. PICK g \in Requests : g = queue[q][k].by
    BY <1>4
  <2>3. /\ queue[q][k].stop => q \in stopped
        /\ pc[g] \in Sent
        /\ Kind[g] = "remove" /\ pc[g] = "called" =>
             \A l \in DOMAIN queue[q] : k < l => Kind[queue[q][l].by] # "start"
    BY <2>2 DEF CommandsAreInOrder
  <2>4. Kind[g] = "remove" /\ pc'[g] = "called" =>
          \A j \in DOMAIN queue'[q] : i < j => Kind[queue'[q][j].by] # "start"
    BY <1>3, <2>1, <2>3
  <2>5. QED
    BY <1>3, <2>1, <2>2, <2>3, <2>4
<1>7. QED
  BY <1>2, <1>6

(* A request that is answered has ended: what the others hold is as it was.*)
LEMMA AnswerEndStep ==
  ASSUME IInv, NEW p \in Projects, NextCommand(p), NEW label \in {"done", "failed"},
         Answer(p, label),
         UNCHANGED <<up, place, damaged, projects, thread, stopped, dropped, doomed>>,
         workspace' \in [Projects -> Workspaces \cup {None}], active' \subseteq Projects
  PROVE  /\ TypeOK' /\ DownIsEmpty' /\ GuardsExclude' /\ CreationsAreFresh'
         /\ CommandsAreInOrder'
         /\ \A q \in Projects : NoStarts(q) => NoStarts(q)'
         /\ \A g \in Requests :
              /\ Guarded(g)' => Guarded(g)
              /\ Young(g)' => Young(g)
              /\ Removing(g)' => Removing(g)
              /\ pc'[g] \in {"halt", "retire", "reopen"} \cup InCatalog => pc'[g] = pc[g]
<1> DEFINE h == Head(queue[p]).by
           to == IF pc[h] = "called" THEN label ELSE pc[h]
<1>1. /\ TypeOK /\ DownIsEmpty /\ GuardsExclude /\ EntriesAreOwned
      /\ CreationsAreFresh /\ CommandsAreInOrder
  BY DEF IInv
<1>2. /\ label \in Labels(Kind[h]) /\ label \in Sent \ {"called"}
      /\ label \notin {"absent", "start", "halt", "retire", "reopen", "load", "called"}
                        \cup Creating \cup Stopping \cup Calling \cup InCatalog \cup Working
  BY DEF Labels, Everyone, Sent, Ended, Creating, Stopping, Calling, InCatalog, Working
<1>3. /\ up /\ h \in Requests
      /\ \A g \in Requests : pc'[g] = IF g = h THEN to ELSE pc[g]
      /\ DOMAIN pc' = Requests /\ \A g \in Requests : pc'[g] \in Labels(Kind[g])
      /\ DOMAIN queue' = Projects /\ \A q \in Projects : queue'[q] \in Seq(Commands(q))
  BY <1>1, <1>2, AnswerFacts
<1>4. TypeOK' /\ DownIsEmpty'
  BY <1>1, <1>3 DEF TypeOK, DownIsEmpty
<1>5. \A g \in Requests : pc'[g] = pc[g] \/ pc'[g] = label
  BY <1>3
<1>6. GuardsExclude'
  <2>1. \A g \in Requests : /\ Reading(g)' => Reading(g)
                            /\ Writing(g)' => Writing(g)
                            /\ pc'[g] \in InCatalog \cup Working => pc'[g] = pc[g]
    BY <1>2, <1>5 DEF Reading, Writing, Calling, Stopping, Working
  <2>2. QED
    BY <1>1, <2>1 DEF GuardsExclude
<1>7. CreationsAreFresh'
  BY <1>1, <1>2, <1>5 DEF CreationsAreFresh, FreshAt, Creating
<1>8. CommandsAreInOrder' /\ \A q \in Projects : NoStarts(q) => NoStarts(q)'
  BY <1>1, <1>2, AnswerOrder
<1>9. \A g \in Requests :
         /\ Guarded(g)' => Guarded(g)
         /\ Young(g)' => Young(g)
         /\ Removing(g)' => Removing(g)
         /\ pc'[g] \in {"halt", "retire", "reopen"} \cup InCatalog => pc'[g] = pc[g]
  BY <1>2, <1>5 DEF Guarded, Young, Removing
<1>10. QED
  BY <1>4, <1>6, <1>7, <1>8, <1>9

LEMMA RunStartStep ==
  ASSUME IInv, NEW p \in Projects, RunStart(p)
  PROVE  IInv'
<1>1. /\ NextCommand(p) /\ Kind[Head(queue[p]).by] = "start" /\ Answer(p, "done")
      /\ active' = active \cup {p}
      /\ UNCHANGED <<up, place, workspace, damaged, projects, thread, stopped, dropped,
                     doomed>>
  BY DEF RunStart, Job
<1>2. /\ TypeOK /\ EntriesAreOwned /\ CreationsAreAdmissible /\ StoresAreUsed
      /\ CommandsAreInOrder /\ WorkspacesDisjoint
  BY DEF IInv
<1>3. /\ TypeOK' /\ DownIsEmpty' /\ GuardsExclude' /\ CreationsAreFresh'
      /\ CommandsAreInOrder'
      /\ \A q \in Projects : NoStarts(q) => NoStarts(q)'
      /\ \A g \in Requests :
           /\ Guarded(g)' => Guarded(g)
           /\ Young(g)' => Young(g)
           /\ Removing(g)' => Removing(g)
           /\ pc'[g] \in {"halt", "retire", "reopen"} \cup InCatalog => pc'[g] = pc[g]
  BY <1>1, <1>2, AnswerEndStep DEF TypeOK
<1>4. p \in thread /\ ~NoStarts(p)
  <2>1. p \in thread /\ Head(queue[p]) = queue[p][1] /\ 1 \in DOMAIN queue[p]
    BY <1>1, <1>2, TailFacts DEF NextCommand, TypeOK
  <2>2. QED
    BY <1>1, <2>1 DEF NoStarts
<1>5. EntriesAreOwned'
  <2>1. \A g \in Requests : Project[g] \in Projects
    BY CatalogAssumption
  <2>2. \A g \in Requests : Apart(g) => Apart(g)'
    BY <1>1, <1>3, <1>4, <2>1 DEF Apart
  <2>3. QED
    BY <1>1, <1>2, <1>3, <2>2 DEF EntriesAreOwned
<1>6. CreationsAreAdmissible'
  BY <1>1, <1>2, <1>3 DEF CreationsAreAdmissible, AdmissibleAt, InCatalog, Listed
<1>7. StoresAreUsed' /\ WorkspacesDisjoint'
  BY <1>1, <1>2, <1>4 DEF StoresAreUsed, WorkspacesDisjoint, Listed
<1>8. QED
  BY <1>3, <1>5, <1>6, <1>7 DEF IInv

LEMMA RunStreamStep ==
  ASSUME IInv, NEW p \in Projects, RunStream(p)
  PROVE  IInv'
<1>1. /\ NextCommand(p) /\ Answer(p, "done")
      /\ UNCHANGED <<up, place, workspace, damaged, active, projects, thread, stopped,
                     dropped, doomed>>
  BY DEF RunStream, Job, disk
<1>2. /\ TypeOK /\ EntriesAreOwned /\ CreationsAreAdmissible /\ StoresAreUsed
      /\ WorkspacesDisjoint
  BY DEF IInv
<1>3. /\ TypeOK' /\ DownIsEmpty' /\ GuardsExclude' /\ CreationsAreFresh'
      /\ CommandsAreInOrder'
      /\ \A q \in Projects : NoStarts(q) => NoStarts(q)'
      /\ \A g \in Requests :
           /\ Guarded(g)' => Guarded(g)
           /\ Young(g)' => Young(g)
           /\ Removing(g)' => Removing(g)
           /\ pc'[g] \in {"halt", "retire", "reopen"} \cup InCatalog => pc'[g] = pc[g]
  BY <1>1, <1>2, AnswerEndStep DEF TypeOK
<1>4. EntriesAreOwned'
  <2>1. \A g \in Requests : Apart(g) => Apart(g)'
    BY <1>1, <1>3, CatalogAssumption DEF Apart
  <2>2. QED
    BY <1>1, <1>2, <1>3, <2>1 DEF EntriesAreOwned
<1>5. CreationsAreAdmissible'
  BY <1>1, <1>2, <1>3 DEF CreationsAreAdmissible, AdmissibleAt, InCatalog, Listed
<1>6. StoresAreUsed' /\ WorkspacesDisjoint'
  BY <1>1, <1>2 DEF StoresAreUsed, WorkspacesDisjoint, Listed
<1>7. QED
  BY <1>3, <1>4, <1>5, <1>6 DEF IInv

LEMMA RunRelocateStep ==
  ASSUME IInv, NEW p \in Projects, RunRelocate(p)
  PROVE  IInv'
<1> DEFINE w == Target[Head(queue[p]).by]
<1>1. PICK label \in {"done", "failed"} :
        /\ NextCommand(p) /\ Answer(p, label) /\ MutexFree
        /\ UNCHANGED <<up, place, damaged, active, projects, thread, stopped, dropped,
                       doomed>>
        /\ \/ Admissible(p, w) /\ workspace' = [workspace EXCEPT ![p] = w]
           \/ UNCHANGED workspace
  BY DEF RunRelocate, Job
<1>2. /\ TypeOK /\ EntriesAreOwned /\ StoresAreUsed /\ WorkspacesDisjoint
  BY DEF IInv
<1>3. w \in Workspaces
  <2>1. Head(queue[p]) \in Commands(p)
    BY <1>1, <1>2, TailFacts DEF NextCommand, TypeOK
  <2>2. QED
    BY <2>1, CatalogAssumption DEF Commands
<1>4. /\ workspace' \in [Projects -> Workspaces \cup {None}]
      /\ \/ Admissible(p, w) /\ workspace'[p] = w
            /\ \A q \in Projects : q # p => workspace'[q] = workspace[q]
         \/ UNCHANGED workspace
  BY <1>1, <1>2, <1>3 DEF TypeOK
<1>5. /\ TypeOK' /\ DownIsEmpty' /\ GuardsExclude' /\ CreationsAreFresh'
      /\ CommandsAreInOrder'
      /\ \A q \in Projects : NoStarts(q) => NoStarts(q)'
      /\ \A g \in Requests :
           /\ Guarded(g)' => Guarded(g)
           /\ Young(g)' => Young(g)
           /\ Removing(g)' => Removing(g)
           /\ pc'[g] \in {"halt", "retire", "reopen"} \cup InCatalog => pc'[g] = pc[g]
  BY <1>1, <1>2, <1>4, AnswerEndStep DEF TypeOK
<1>6. EntriesAreOwned'
  <2>1. \A g \in Requests : Apart(g) => Apart(g)'
    BY <1>1, <1>5, CatalogAssumption DEF Apart
  <2>2. QED
    BY <1>1, <1>2, <1>5, <2>1 DEF EntriesAreOwned
<1>7. CreationsAreAdmissible'
  BY <1>1, <1>5 DEF CreationsAreAdmissible, AdmissibleAt, InCatalog, MutexFree
<1>8. WorkspacesDisjoint'
  <2>1. Listed' = Listed
    BY <1>1 DEF Listed
  <2>2. CASE UNCHANGED workspace
    BY <1>2, <2>1, <2>2 DEF WorkspacesDisjoint
  <2>3. CASE /\ Admissible(p, w) /\ workspace'[p] = w
             /\ \A q \in Projects : q # p => workspace'[q] = workspace[q]
    <3>1. \A q \in Listed : q \in Projects
      BY DEF Listed
    <3>2. \A q \in Listed \ {p} : ~Overlap(workspace[q], w) /\ ~Overlap(w, workspace[q])
      BY <2>3 DEF Admissible, Overlap
    <3>3. w \in Workspaces \ Managed
      BY <1>3, <2>3 DEF Admissible
    <3>4. QED
      BY <1>2, <2>1, <2>3, <3>1, <3>2, <3>3 DEF WorkspacesDisjoint
  <2>4. QED
    BY <1>4, <2>2, <2>3
<1>9. StoresAreUsed'
  BY <1>1, <1>2 DEF StoresAreUsed
<1>10. QED
  BY <1>5, <1>6, <1>7, <1>8, <1>9 DEF IInv

LEMMA RunRemoveStep ==
  ASSUME IInv, NEW p \in Projects, RunRemove(p)
  PROVE  IInv'
<1> DEFINE h == Head(queue[p]).by
           label == IF CanDetach(p) THEN "stop" ELSE "failed"
<1>1. /\ NextCommand(p) /\ Kind[h] = "remove" /\ Answer(p, label)
      /\ projects' = IF pc[h] = "called" /\ CanDetach(p) THEN Unlisted(p) ELSE projects
      /\ UNCHANGED <<up, place, workspace, damaged, active, thread, stopped, dropped,
                     doomed>>
  BY DEF RunRemove, Job, AfterDetach, disk
<1>2. /\ TypeOK /\ DownIsEmpty /\ GuardsExclude /\ EntriesAreOwned
      /\ CreationsAreFresh /\ CreationsAreAdmissible /\ StoresAreUsed
      /\ CommandsAreInOrder /\ WorkspacesDisjoint
  BY DEF IInv
<1>3. label \in Labels(Kind[h]) /\ label \in Sent \ {"called"}
  BY <1>1 DEF Labels, Everyone, Stopping, Sent, Ended
<1>4. /\ up /\ p \in thread /\ h \in Requests /\ Project[h] = p
      /\ 1 \in DOMAIN queue[p] /\ Head(queue[p]) = queue[p][1]
      /\ \A g \in Requests :
           pc'[g] = IF g = h THEN IF pc[h] = "called" THEN label ELSE pc[h] ELSE pc[g]
      /\ DOMAIN pc' = Requests /\ \A g \in Requests : pc'[g] \in Labels(Kind[g])
      /\ DOMAIN queue' = Projects
      /\ \A q \in Projects : q # p => queue'[q] = queue[q]
      /\ \A q \in Projects : queue'[q] \in Seq(Commands(q))
      /\ \A i \in DOMAIN queue'[p] :
           /\ i \in Nat /\ 1 < i + 1 /\ i + 1 \in DOMAIN queue[p]
           /\ queue'[p][i] = queue[p][i + 1]
  BY <1>1, <1>2, <1>3, AnswerFacts
<1>5. CommandsAreInOrder' /\ \A q \in Projects : NoStarts(q) => NoStarts(q)'
  BY <1>1, <1>2, <1>3, AnswerOrder
<1>6. CASE pc[h] # "called" \/ ~CanDetach(p)
  <2>1. UNCHANGED projects
    BY <1>1, <1>6
  <2>2. CASE ~CanDetach(p)
    <3>1. /\ TypeOK' /\ DownIsEmpty' /\ GuardsExclude' /\ CreationsAreFresh'
          /\ \A g \in Requests :
               /\ Guarded(g)' => Guarded(g)
               /\ Young(g)' => Young(g)
               /\ Removing(g)' => Removing(g)
               /\ pc'[g] \in {"halt", "retire", "reopen"} \cup InCatalog => pc'[g] = pc[g]
      BY <1>1, <1>2, <2>1, <2>2, AnswerEndStep DEF TypeOK
    <3>2. EntriesAreOwned'
      <4>1. \A g \in Requests : Apart(g) => Apart(g)'
        BY <1>1, <1>5, <2>1, <3>1, CatalogAssumption DEF Apart
      <4>2. QED
        BY <1>1, <1>2, <2>1, <3>1, <4>1 DEF EntriesAreOwned
    <3>3. CreationsAreAdmissible' /\ StoresAreUsed' /\ WorkspacesDisjoint'
      BY <1>1, <1>2, <2>1, <3>1
      DEF CreationsAreAdmissible, AdmissibleAt, InCatalog, Listed, StoresAreUsed,
          WorkspacesDisjoint
    <3>4. QED
      BY <1>5, <3>1, <3>2, <3>3 DEF IInv
  <2>3. CASE pc[h] # "called"
    <3>1. \A g \in Requests : pc'[g] = pc[g]
      BY <1>4, <2>3
    <3>2. TypeOK' /\ DownIsEmpty'
      BY <1>1, <1>2, <1>4, <2>1 DEF TypeOK, DownIsEmpty
    <3>3. GuardsExclude'
      BY <1>1, <1>2, <3>1 DEF GuardsExclude, Reading, Writing
    <3>4. EntriesAreOwned'
      <4>1. \A g \in Requests : Apart(g) => Apart(g)'
        BY <1>1, <1>5, <2>1, <3>1, CatalogAssumption DEF Apart, Removing
      <4>2. QED
        BY <1>1, <1>2, <2>1, <3>1, <4>1 DEF EntriesAreOwned, Guarded, Young, Removing
    <3>5. CreationsAreFresh' /\ CreationsAreAdmissible' /\ StoresAreUsed' /\ WorkspacesDisjoint'
      BY <1>1, <1>2, <2>1, <3>1
      DEF CreationsAreFresh, FreshAt, CreationsAreAdmissible, AdmissibleAt, Listed,
          StoresAreUsed, WorkspacesDisjoint
    <3>6. QED
      BY <1>5, <3>2, <3>3, <3>4, <3>5 DEF IInv
  <2>4. QED
    BY <1>6, <2>2, <2>3
<1>7. CASE pc[h] = "called" /\ CanDetach(p)
  <2>0. PICK k \in Requests : /\ k = h /\ Project[k] = p /\ Kind[k] = "remove"
                             /\ pc[k] = "called" /\ CanDetach(p)
    BY <1>1, <1>4, <1>7
  <2>1. projects' = [projects EXCEPT ![p] = None] /\ p \notin active
    BY <1>1, <1>7 DEF Unlisted, CanDetach
  <2>2. /\ projects' \in [Projects -> {None, "unloaded", "loaded"}]
        /\ projects'[p] = None /\ \A q \in Projects : q # p => projects'[q] = projects[q]
    BY <1>2, <2>1 DEF TypeOK
  <2>3. \A g \in Requests : pc'[g] = IF g = k THEN "stop" ELSE pc[g]
    BY <1>4, <1>7, <2>0
  <2>4. Guarded(k) /\ projects[p] # None /\ k \notin dropped
    BY <1>1, <1>2, <1>4, <2>0 DEF EntriesAreOwned, Guarded, Calling, GuardsExclude, Working, Tasks
  <2>5. Writing(k)
    BY <1>1, <2>0, <2>4 DEF Writing
  <2>6. \A g \in Requests : g # k /\ Project[g] = p => ~Guarded(g) /\ ~Young(g) /\ ~Removing(g)
    <3> SUFFICES ASSUME NEW g \in Requests, g # k, Project[g] = p
                 PROVE  ~Guarded(g) /\ ~Young(g) /\ ~Removing(g)
      OBVIOUS
    <3>1. ~Young(g) /\ ~Removing(g)
      BY <1>2, <2>4 DEF EntriesAreOwned, Apart
    <3>2. ~Reading(g) /\ ~Writing(g)
      BY <1>2, <1>4, <2>5 DEF GuardsExclude
    <3>3. Guarded(g) => g \notin dropped /\ (pc[g] = "load" => Kind[g] = "start")
      BY <1>2, LabelFacts DEF Guarded, GuardsExclude, Calling, Working, Tasks
    <3>4. ~Guarded(g)
      BY <3>2, <3>3 DEF Guarded, Reading, Writing, Calling
    <3>5. QED
      BY <3>1, <3>4
  <2>7. NoStarts(p)'
    <3>1. \A j \in DOMAIN queue[p] : 1 < j => Kind[queue[p][j].by] # "start"
      BY <1>1, <1>2, <1>4, <2>0 DEF CommandsAreInOrder
    <3>2. QED
      BY <1>4, <3>1 DEF NoStarts
  <2>8. TypeOK' /\ DownIsEmpty'
    BY <1>1, <1>2, <1>4, <2>2 DEF TypeOK, DownIsEmpty
  <2>9. GuardsExclude'
    <3>1. Enters(k, "stop")
      BY <1>1, <2>0, <2>4, <2>5 DEF Enters, ReadsAt, WritesAt, InCatalog
    <3>2. QED
      BY <1>1, <1>2, <1>4, <2>3, <3>1, GuardStep
  <2>10. EntriesAreOwned'
    <3>1. \A g \in Requests :
            g # k => /\ Guarded(g)' => Guarded(g)
                     /\ Young(g)' => Young(g)
                     /\ Removing(g)' => Removing(g)
                     /\ pc'[g] = pc[g]
      BY <2>3 DEF Guarded, Young, Removing
    <3>2. ~Guarded(k)' /\ ~Young(k)' /\ pc'[k] = "stop"
      BY <2>0, <2>3 DEF Guarded, Young, Calling
    <3>3. Apart(k)'
      BY <1>1, <2>0, <2>1, <2>2, <2>6, <2>7, <3>1 DEF Apart
    <3>4. \A g \in Requests : g # k /\ Apart(g) /\ Project[g] # p => Apart(g)'
      BY <1>1, <1>5, <2>0, <2>2, <3>1, CatalogAssumption DEF Apart
    <3>5. \A g \in Requests : g # k /\ Guarded(g)' => projects'[Project[g]] # None
      BY <1>2, <2>2, <2>6, <3>1, CatalogAssumption DEF EntriesAreOwned
    <3>6. \A g \in Requests : g # k /\ (Young(g)' \/ Removing(g)') => Apart(g)'
      <4> SUFFICES ASSUME NEW g \in Requests, g # k, Young(g)' \/ Removing(g)'
                   PROVE  Apart(g)'
        OBVIOUS
      <4>1. Young(g) \/ Removing(g)
        BY <3>1
      <4>2. Apart(g) /\ Project[g] # p
        BY <1>2, <2>6, <4>1 DEF EntriesAreOwned
      <4>3. QED
        BY <3>4, <4>2
    <3>7. \A g \in Requests :
            /\ pc'[g] = "halt" => Project[g] \in stopped'
            /\ pc'[g] \in {"retire", "reopen"} => Project[g] \notin thread'
      BY <1>1, <1>2, <3>1, <3>2 DEF EntriesAreOwned
    <3>8. QED
      BY <3>2, <3>3, <3>5, <3>6, <3>7 DEF EntriesAreOwned
  <2>11. CreationsAreFresh' /\ CreationsAreAdmissible'
    BY <1>1, <1>2, <2>3
    DEF CreationsAreFresh, FreshAt, CreationsAreAdmissible, AdmissibleAt, Listed
  <2>12. StoresAreUsed' /\ WorkspacesDisjoint'
    BY <1>1, <1>2, <2>2 DEF StoresAreUsed, WorkspacesDisjoint, Listed
  <2>13. QED
    BY <1>5, <2>8, <2>9, <2>10, <2>11, <2>12 DEF IInv
<1>8. QED
  BY <1>6, <1>7

LEMMA RunStopStep ==
  ASSUME IInv, NEW p \in Projects, RunStop(p)
  PROVE  IInv'
<1>1. /\ up /\ p \in thread /\ queue[p] # <<>> /\ Head(queue[p]).stop
      /\ thread' = thread \ {p} /\ queue' = [queue EXCEPT ![p] = <<>>]
      /\ pc' = [h \in Requests |->
                  IF Project[h] # p \/ ~Told(p, h) THEN pc[h]
                  ELSE IF pc[h] = "halted" THEN "retire" ELSE "failed"]
      /\ UNCHANGED <<up, place, workspace, damaged, active, projects, stopped, dropped,
                     doomed>>
  BY DEF RunStop, NextCommand, disk
<1>2. /\ TypeOK /\ DownIsEmpty /\ GuardsExclude /\ EntriesAreOwned
      /\ CreationsAreFresh /\ CreationsAreAdmissible /\ StoresAreUsed
      /\ CommandsAreInOrder /\ WorkspacesDisjoint
  BY DEF IInv
<1>3. p \in stopped /\ projects[p] = None
  <2>1. Head(queue[p]) = queue[p][1] /\ 1 \in DOMAIN queue[p]
    BY <1>1, <1>2, TailFacts DEF TypeOK
  <2>2. QED
    BY <1>1, <1>2, <2>1 DEF CommandsAreInOrder, StoresAreUsed
<1>4. <<>> \in Seq(Commands(p))
  OBVIOUS
<1>5. /\ DOMAIN queue' = Projects /\ queue'[p] = <<>>
      /\ \A q \in Projects : q # p => queue'[q] = queue[q]
      /\ \A q \in Projects : queue'[q] \in Seq(Commands(q))
  BY <1>1, <1>2, <1>4, QueueStep
<1>6. /\ DOMAIN pc' = Requests
      /\ \A h \in Requests :
           \/ pc'[h] = pc[h]
           \/ pc'[h] = "failed" /\ Project[h] = p
           \/ pc'[h] = "retire" /\ pc[h] = "halted" /\ Project[h] = p
  BY <1>1
<1>7. \A h \in Requests : pc'[h] \in Labels(Kind[h])
  <2> SUFFICES ASSUME NEW h \in Requests PROVE pc'[h] \in Labels(Kind[h])
    OBVIOUS
  <2>1. CASE pc'[h] = pc[h]
    BY <1>2, <2>1 DEF TypeOK
  <2>2. CASE pc'[h] = "failed"
    BY <2>2 DEF Labels, Everyone
  <2>3. CASE pc'[h] = "retire" /\ pc[h] = "halted"
    <3>1. Kind[h] \in {"create", "remove"}
      BY <1>2, <2>3, LabelFacts DEF Stopping
    <3>2. QED
      BY <2>3, <3>1 DEF Labels, Stopping
  <2>4. QED
    BY <1>6, <2>1, <2>2, <2>3
<1>8. TypeOK' /\ DownIsEmpty'
  <2>1. thread' \subseteq Projects
    BY <1>1, <1>2 DEF TypeOK
  <2>2. QED
    BY <1>1, <1>2, <1>5, <1>6, <1>7, <2>1 DEF TypeOK, DownIsEmpty
<1>9. GuardsExclude'
  <2>1. \A h \in Requests : /\ Reading(h)' => Reading(h)
                            /\ Writing(h)' => Writing(h)
                            /\ pc'[h] \in InCatalog => pc[h] \in InCatalog
                            /\ pc'[h] \in Working \ Tasks => pc[h] \in Working \ Tasks
    BY <1>1, <1>6 DEF Reading, Writing, InCatalog, Working, Tasks
  <2>2. QED
    BY <1>1, <1>2, <2>1 DEF GuardsExclude
<1>10. EntriesAreOwned'
  <2>1. \A g \in Requests : /\ Guarded(g)' => Guarded(g)
                            /\ Young(g)' => Young(g)
                            /\ Removing(g)' => Removing(g)
                            /\ Project[g] \in Projects
    BY <1>6, CatalogAssumption DEF Guarded, Young, Removing, Stopping, Calling, Creating
  <2>2. \A q \in Projects : NoStarts(q) => NoStarts(q)'
    BY <1>5 DEF NoStarts
  <2>3. \A g \in Requests : Apart(g) => Apart(g)'
    BY <1>1, <2>1, <2>2 DEF Apart
  <2>4. \A g \in Requests :
          /\ pc'[g] = "halt" => Project[g] \in stopped'
          /\ pc'[g] \in {"retire", "reopen"} => Project[g] \notin thread'
    BY <1>1, <1>2, <1>6 DEF EntriesAreOwned
  <2>5. QED
    BY <1>1, <1>2, <2>1, <2>3, <2>4 DEF EntriesAreOwned
<1>11. CreationsAreFresh'
  <2>1. \A h \in Requests : Kind[h] = "create" /\ pc[h] \in {"build", "insert"}
                              => Project[h] # p
    BY <1>2, <1>3 DEF CreationsAreFresh, FreshAt
  <2>2. QED
    BY <1>1, <1>2, <1>6, <2>1 DEF CreationsAreFresh, FreshAt
<1>12. CreationsAreAdmissible'
  BY <1>1, <1>2, <1>6 DEF CreationsAreAdmissible, AdmissibleAt, Listed
<1>13. CommandsAreInOrder'
  <2> SUFFICES ASSUME NEW q \in Projects, q # p, NEW i \in DOMAIN queue[q]
               PROVE  LET h == queue[q][i].by
                      IN /\ queue[q][i].stop => q \in stopped
                         /\ pc'[h] \in Sent
                         /\ Kind[h] = "remove" /\ pc'[h] = "called" =>
                              \A j \in DOMAIN queue[q] :
                                i < j => Kind[queue[q][j].by] # "start"
    BY <1>1, <1>5 DEF CommandsAreInOrder
  <2>1. queue[q][i].by \in Requests /\ Project[queue[q][i].by] = q
    BY <1>2, QueueFacts
  <2>2. pc'[queue[q][i].by] = pc[queue[q][i].by]
    BY <1>6, <2>1
  <2>3. QED
    BY <1>2, <2>2 DEF CommandsAreInOrder
<1>14. StoresAreUsed' /\ WorkspacesDisjoint'
  BY <1>1, <1>2, <1>3 DEF StoresAreUsed, WorkspacesDisjoint, Listed
<1>15. QED
  BY <1>8, <1>9, <1>10, <1>11, <1>12, <1>13, <1>14 DEF IInv

LEMMA ThreadEndsStep ==
  ASSUME IInv, NEW p \in Projects, ThreadEnds(p)
  PROVE  IInv'
<1>1. /\ up /\ p \in thread /\ projects[p] = None /\ thread' = thread \ {p}
      /\ \A h \in Requests : Project[h] = p => pc[h] \notin {"build", "insert"}
      /\ UNCHANGED <<up, place, workspace, damaged, active, projects, queue, stopped,
                     pc, dropped, doomed>>
  BY DEF ThreadEnds, Held, disk, requests
<1>2. /\ TypeOK /\ DownIsEmpty /\ GuardsExclude /\ EntriesAreOwned
      /\ CreationsAreFresh /\ CreationsAreAdmissible /\ StoresAreUsed
      /\ CommandsAreInOrder /\ WorkspacesDisjoint
  BY DEF IInv
<1>3. TypeOK' /\ DownIsEmpty' /\ GuardsExclude' /\ CommandsAreInOrder'
  BY <1>1, <1>2
  DEF TypeOK, DownIsEmpty, GuardsExclude, Reading, Writing, CommandsAreInOrder
<1>4. EntriesAreOwned'
  BY <1>1, <1>2 DEF EntriesAreOwned, Guarded, Young, Removing, Apart, NoStarts
<1>5. CreationsAreFresh' /\ CreationsAreAdmissible'
  BY <1>1, <1>2
  DEF CreationsAreFresh, FreshAt, CreationsAreAdmissible, AdmissibleAt, Listed
<1>6. StoresAreUsed' /\ WorkspacesDisjoint'
  BY <1>1, <1>2 DEF StoresAreUsed, WorkspacesDisjoint, Listed
<1>7. QED
  BY <1>3, <1>4, <1>5, <1>6 DEF IInv
-----------------------------------------------------------------------------
(* A Project is taken away, or comes back.                                 *)

LEMMA RetireStep ==
  ASSUME IInv, NEW h \in Requests, Retire(h)
  PROVE  IInv'
<1> DEFINE p == Project[h]
           labels == {AfterRetire(h).ok, AfterRetire(h).error, "gone"}
<1>1. PICK label \in labels :
        /\ up /\ pc[h] = "retire" /\ MutexFree /\ pc' = [pc EXCEPT ![h] = label]
        /\ label # "gone" => h \notin dropped
        /\ \/ place' = [place EXCEPT ![p] = "trash"] /\ doomed' \in {doomed, doomed \cup {p}}
           \/ place' \in {place, [place EXCEPT ![p] = "trash"]} /\ UNCHANGED doomed
        /\ UNCHANGED <<up, workspace, damaged, active, projects, thread, queue, stopped,
                       dropped>>
  BY GotoCases DEF Retire, Move, stores
<1>2. /\ TypeOK /\ DownIsEmpty /\ GuardsExclude /\ EntriesAreOwned
      /\ CreationsAreFresh /\ CreationsAreAdmissible /\ StoresAreUsed
      /\ CommandsAreInOrder /\ WorkspacesDisjoint
  BY DEF IInv
<1>3. /\ Kind[h] \in {"create", "remove"} /\ p \in Projects
      /\ Young(h) \/ Removing(h)
      /\ Apart(h) /\ pc[h] \in Sent \ {"called"} /\ p \notin thread
      /\ \A g \in Requests : Project[g] = p /\ g # h => ~Removing(g) /\ ~Young(g)
  BY <1>1, <1>2, StopperFacts DEF Stopping, EntriesAreOwned
<1>4. /\ label \in {"done", "failed", "left", "gone", "reopen"}
      /\ label = "reopen" => Kind[h] = "remove" /\ h \notin dropped
  BY <1>1, <1>3 DEF AfterRetire
<1>5. /\ label \in Labels(Kind[h]) /\ label \in Sent
      /\ label \notin Calling \cup Creating \cup Stopping \cup InCatalog
                        \cup {"absent", "start", "called", "halt", "load"}
  BY <1>3, <1>4
  DEF Labels, Everyone, Sent, Ended, Calling, Creating, Stopping, InCatalog
<1>6. /\ \A g \in Requests : pc'[g] = IF g = h THEN label ELSE pc[g]
      /\ DOMAIN pc' = Requests /\ \A g \in Requests : pc'[g] \in Labels(Kind[g])
  BY <1>1, <1>2, <1>5, LabelStep
<1>7. projects[p] = None /\ p \notin active
  BY <1>3 DEF Apart
<1>8. /\ \A q \in Projects : q # p => place'[q] = place[q]
      /\ place' \in [Projects -> {None, "staging", "projects", "trash", "purged"}]
      /\ place'[p] \in {place[p], "trash"}
  BY <1>1, <1>2, <1>3 DEF TypeOK
<1>9. \A q \in Projects : q \in doomed' => place'[q] = "trash"
  <2>1. CASE place' = [place EXCEPT ![p] = "trash"] /\ doomed' \in {doomed, doomed \cup {p}}
    BY <1>2, <1>3, <2>1 DEF StoresAreUsed, TypeOK
  <2>2. CASE place' \in {place, [place EXCEPT ![p] = "trash"]} /\ UNCHANGED doomed
    BY <1>2, <1>8, <2>2 DEF StoresAreUsed
  <2>3. QED
    BY <1>1, <2>1, <2>2
<1>10. TypeOK' /\ DownIsEmpty'
  <2>1. doomed' \subseteq Projects
    BY <1>1, <1>2, <1>3 DEF TypeOK
  <2>2. QED
    BY <1>1, <1>2, <1>6, <1>8, <2>1 DEF TypeOK, DownIsEmpty
<1>11. GuardsExclude'
  <2>1. Enters(h, label)
    BY <1>1, <1>4, <1>5 DEF Enters, ReadsAt, WritesAt, Writing, Working, Calling, Stopping
  <2>2. QED
    BY <1>1, <1>2, <1>6, <2>1, GuardStep
<1>12. EntriesAreOwned'
  <2>1. Kind[h] = "remove" => Removing(h)
    BY <1>1 DEF Removing, Stopping
  <2>2. QED
    BY <1>1, <1>2, <1>3, <1>5, <1>6, <2>1, OwnedStep
<1>13. CreationsAreFresh'
  <2> SUFFICES ASSUME NEW g \in Requests, Kind[g] = "create" PROVE FreshAt(g, pc[g])'
    BY DEF CreationsAreFresh, FreshAt
  <2>1. CASE g = h
    BY <1>5, <1>6, <2>1 DEF FreshAt, Creating
  <2>2. CASE g # h /\ Project[g] = p
    <3>1. ~Young(g)
      BY <1>3, <2>2
    <3>2. QED
      BY <1>6, <2>2, <3>1 DEF FreshAt, Young, Creating
  <2>3. CASE g # h /\ Project[g] # p
    <3>1. Project[g] \in Projects /\ FreshAt(g, pc[g])
      BY <1>2, CatalogAssumption DEF CreationsAreFresh
    <3>2. QED
      BY <1>1, <1>6, <1>8, <2>3, <3>1 DEF FreshAt
  <2>4. QED
    BY <2>1, <2>2, <2>3
<1>14. CreationsAreAdmissible'
  BY <1>1, <1>5, <1>6 DEF CreationsAreAdmissible, AdmissibleAt, MutexFree, InCatalog
<1>15. CommandsAreInOrder'
  BY <1>1, <1>2, <1>5, <1>6, OrderStep
<1>16. StoresAreUsed'
  BY <1>1, <1>2, <1>3, <1>7, <1>8, <1>9 DEF StoresAreUsed
<1>17. WorkspacesDisjoint'
  <2>1. Listed' \subseteq Listed
    BY <1>8 DEF Listed
  <2>2. QED
    BY <1>1, <1>2, <2>1 DEF WorkspacesDisjoint
<1>18. QED
  BY <1>10, <1>11, <1>12, <1>13, <1>14, <1>15, <1>16, <1>17 DEF IInv

LEMMA ReopenStep ==
  ASSUME IInv, NEW h \in Requests, Reopen(h)
  PROVE  IInv'
<1> DEFINE p == Project[h]
<1>1. /\ up /\ pc[h] = "reopen"
      /\ UNCHANGED <<up, place, workspace, damaged, active, dropped, doomed>>
      /\ \/ /\ Goto(h, "failed") /\ place[p] = "projects" /\ Spawned(p)
            /\ projects' = [projects EXCEPT ![p] = "unloaded"]
         \/ Goto(h, "left") /\ UNCHANGED <<stores, projects>>
  BY DEF Reopen, Move, Back, disk
<1>2. /\ TypeOK /\ DownIsEmpty /\ GuardsExclude /\ EntriesAreOwned
      /\ CreationsAreFresh /\ CreationsAreAdmissible /\ StoresAreUsed
      /\ CommandsAreInOrder /\ WorkspacesDisjoint
  BY DEF IInv
<1>3. /\ Kind[h] \in {"create", "remove"} /\ p \in Projects
      /\ pc[h] \in Sent \ {"called"}
      /\ \A g \in Requests : Project[g] = p /\ g # h => ~Removing(g) /\ ~Young(g)
  BY <1>1, StopperFacts
<1>4. CASE Goto(h, "left") /\ UNCHANGED <<stores, projects>>
  BY <1>1, <1>3, <1>4, GotoCases, LeaveStep DEF disk
<1>5. CASE /\ Goto(h, "failed") /\ place[p] = "projects" /\ Spawned(p)
           /\ projects' = [projects EXCEPT ![p] = "unloaded"]
  <2>1. h \notin dropped /\ pc' = [pc EXCEPT ![h] = "failed"]
    BY <1>1, <1>2, <1>5, MoveFacts DEF Working, Tasks
  <2>2. /\ thread' = thread \cup {p} /\ stopped' = stopped \ {p}
        /\ DOMAIN queue' = Projects /\ queue'[p] = <<>>
        /\ \A q \in Projects : q # p => queue'[q] = queue[q]
        /\ \A q \in Projects : queue'[q] \in Seq(Commands(q))
    BY <1>2, <1>3, <1>5, SpawnFacts
  <2>3. /\ projects' \in [Projects -> {None, "unloaded", "loaded"}]
        /\ projects'[p] = "unloaded"
        /\ \A q \in Projects : q # p => projects'[q] = projects[q]
    BY <1>2, <1>3, <1>5 DEF TypeOK
  <2>4. /\ "failed" \in Labels(Kind[h]) /\ "failed" \in Sent
        /\ "failed" \notin Stopping \cup Calling \cup Creating \cup Working
    BY DEF Labels, Everyone, Sent, Ended, Creating, Stopping, Calling, Working
  <2>5. /\ \A g \in Requests : pc'[g] = IF g = h THEN "failed" ELSE pc[g]
        /\ DOMAIN pc' = Requests /\ \A g \in Requests : pc'[g] \in Labels(Kind[g])
    BY <1>2, <2>1, <2>4, LabelStep
  <2>6. TypeOK' /\ DownIsEmpty'
    <3>1. thread' \subseteq Projects /\ stopped' \subseteq Projects
      BY <1>2, <1>3, <2>2 DEF TypeOK
    <3>2. QED
      BY <1>1, <1>2, <2>2, <2>3, <2>5, <3>1 DEF TypeOK, DownIsEmpty
  <2>7. GuardsExclude'
    <3>1. Enters(h, "failed")
      BY <2>4 DEF Enters, ReadsAt, WritesAt, InCatalog
    <3>2. QED
      BY <1>1, <1>2, <2>5, <3>1, GuardStep
  <2>8. \A g \in Requests : /\ Guarded(g)' => Guarded(g)
                            /\ Young(g)' => Young(g) /\ g # h
                            /\ Removing(g)' => Removing(g) /\ g # h
                            /\ Project[g] \in Projects
    BY <2>4, <2>5, CatalogAssumption DEF Guarded, Young, Removing
  <2>9. EntriesAreOwned'
    <3> SUFFICES ASSUME NEW g \in Requests
                 PROVE  /\ Guarded(g)' => projects'[Project[g]] # None
                        /\ Young(g)' \/ Removing(g)' => Apart(g)'
                        /\ pc'[g] = "halt" => Project[g] \in stopped'
                        /\ pc'[g] \in {"retire", "reopen"} => Project[g] \notin thread'
      BY DEF EntriesAreOwned
    <3>1. Guarded(g)' => projects'[Project[g]] # None
      BY <1>2, <2>3, <2>8 DEF EntriesAreOwned, None
    <3>2. ASSUME Young(g)' \/ Removing(g)' PROVE Apart(g)'
      <4>1. Project[g] # p /\ Apart(g)
        BY <1>2, <1>3, <2>8, <3>2 DEF EntriesAreOwned
      <4>2. NoStarts(Project[g])'
        BY <2>2, <2>8, <4>1 DEF Apart, NoStarts
      <4>3. QED
        BY <1>1, <2>3, <2>8, <4>1, <4>2 DEF Apart
    <3>3. pc'[g] \in {"halt", "retire", "reopen"} => pc'[g] = pc[g] /\ Project[g] # p
      <4>1. g # h /\ pc[g] \in {"halt", "retire", "reopen"} => Young(g) \/ Removing(g)
        BY <1>2, LabelFacts DEF Young, Removing, Stopping
      <4>2. QED
        BY <1>3, <2>5, <4>1
    <3>4. QED
      BY <1>2, <2>2, <3>1, <3>2, <3>3 DEF EntriesAreOwned
  <2>10. CreationsAreFresh'
    <3> SUFFICES ASSUME NEW g \in Requests, Kind[g] = "create" PROVE FreshAt(g, pc[g])'
      BY DEF CreationsAreFresh, FreshAt
    <3>1. CASE ~Young(g)'
      BY <3>1 DEF Young, FreshAt, Creating
    <3>2. CASE Young(g)'
      <4>1. Project[g] \in Projects \ {p} /\ FreshAt(g, pc[g]) /\ pc'[g] = pc[g]
        BY <1>2, <1>3, <2>5, <2>8, <3>2 DEF CreationsAreFresh
      <4>2. QED
        BY <1>1, <2>2, <4>1 DEF FreshAt
    <3>3. QED
      BY <3>1, <3>2
  <2>11. CreationsAreAdmissible'
    BY <1>1, <1>2, <2>5 DEF CreationsAreAdmissible, AdmissibleAt, Listed
  <2>12. CommandsAreInOrder'
    <3>1. \A q \in Projects : \A i \in DOMAIN queue[q] : queue[q][i].by \in Requests
      BY <1>2, QueueFacts
    <3>2. \A g \in Requests : /\ pc[g] \in Sent => pc'[g] \in Sent
                              /\ pc'[g] = "called" => pc[g] = "called"
      BY <2>4, <2>5
    <3>3. \A q \in Projects : \A i \in DOMAIN queue'[q] : q # p
      BY <2>2
    <3>4. QED
      BY <1>2, <2>2, <3>1, <3>2, <3>3 DEF CommandsAreInOrder
  <2>13. StoresAreUsed' /\ WorkspacesDisjoint'
    BY <1>1, <1>2, <1>5, <2>2, <2>3 DEF StoresAreUsed, WorkspacesDisjoint, Listed
  <2>14. QED
    BY <2>6, <2>7, <2>9, <2>10, <2>11, <2>12, <2>13 DEF IInv
<1>6. QED
  BY <1>1, <1>4, <1>5

LEMMA PurgeStep ==
  ASSUME IInv, NEW p \in Projects, Purge(p)
  PROVE  IInv'
<1>1. /\ up /\ p \in doomed /\ doomed' = doomed \ {p}
      /\ place' \in {place, [place EXCEPT ![p] = "purged"]}
      /\ UNCHANGED <<up, workspace, damaged, active, projects, thread, queue, stopped,
                     pc, dropped>>
  BY DEF Purge, stores, requests
<1>2. /\ TypeOK /\ DownIsEmpty /\ GuardsExclude /\ EntriesAreOwned
      /\ CreationsAreFresh /\ CreationsAreAdmissible /\ StoresAreUsed
      /\ CommandsAreInOrder /\ WorkspacesDisjoint
  BY DEF IInv
<1>3. place[p] = "trash" /\ p \notin thread /\ p \notin active
  BY <1>1, <1>2 DEF StoresAreUsed
<1>4. /\ place' \in [Projects -> {None, "staging", "projects", "trash", "purged"}]
      /\ place'[p] \in {"trash", "purged"}
      /\ \A q \in Projects : q # p => place'[q] = place[q]
  BY <1>1, <1>2, <1>3 DEF TypeOK
<1>5. Listed' = Listed
  BY <1>3, <1>4 DEF Listed
<1>6. TypeOK' /\ DownIsEmpty' /\ GuardsExclude' /\ CommandsAreInOrder'
  BY <1>1, <1>2, <1>4
  DEF TypeOK, DownIsEmpty, GuardsExclude, Reading, Writing, CommandsAreInOrder
<1>7. EntriesAreOwned'
  BY <1>1, <1>2 DEF EntriesAreOwned, Guarded, Young, Removing, Apart, NoStarts
<1>8. CreationsAreFresh'
  <2> SUFFICES ASSUME NEW g \in Requests, Kind[g] = "create" PROVE FreshAt(g, pc[g])'
    BY DEF CreationsAreFresh, FreshAt
  <2>1. FreshAt(g, pc[g]) /\ Project[g] \in Projects
    BY <1>2, CatalogAssumption DEF CreationsAreFresh
  <2>2. QED
    BY <1>1, <1>3, <1>4, <2>1 DEF FreshAt, None
<1>9. CreationsAreAdmissible' /\ WorkspacesDisjoint'
  BY <1>1, <1>2, <1>5 DEF CreationsAreAdmissible, AdmissibleAt, WorkspacesDisjoint
<1>10. StoresAreUsed'
  BY <1>1, <1>2, <1>3, <1>4 DEF StoresAreUsed
<1>11. QED
  BY <1>6, <1>7, <1>8, <1>9, <1>10 DEF IInv

LEMMA EndSessionsStep ==
  ASSUME IInv, NEW p \in Projects, EndSessions(p)
  PROVE  IInv'
<1>1. /\ active' = active \ {p}
      /\ UNCHANGED <<up, place, workspace, damaged, projects, thread, queue, stopped,
                     pc, dropped, doomed>>
  BY DEF EndSessions, stores, requests
<1>2. /\ TypeOK /\ DownIsEmpty /\ GuardsExclude /\ EntriesAreOwned
      /\ CreationsAreFresh /\ CreationsAreAdmissible /\ StoresAreUsed
      /\ CommandsAreInOrder /\ WorkspacesDisjoint
  BY DEF IInv
<1>3. TypeOK' /\ DownIsEmpty' /\ GuardsExclude' /\ CommandsAreInOrder'
  BY <1>1, <1>2
  DEF TypeOK, DownIsEmpty, GuardsExclude, Reading, Writing, CommandsAreInOrder
<1>4. EntriesAreOwned'
  BY <1>1, <1>2 DEF EntriesAreOwned, Guarded, Young, Removing, Apart, NoStarts
<1>5. CreationsAreFresh' /\ CreationsAreAdmissible' /\ StoresAreUsed' /\ WorkspacesDisjoint'
  BY <1>1, <1>2
  DEF CreationsAreFresh, FreshAt, CreationsAreAdmissible, AdmissibleAt, Listed,
      StoresAreUsed, WorkspacesDisjoint
<1>6. QED
  BY <1>3, <1>4, <1>5 DEF IInv
-----------------------------------------------------------------------------
(* The server                                                              *)

LEMMA CrashStep ==
  ASSUME IInv, Crash
  PROVE  IInv'
<1>1. /\ up' = FALSE /\ projects' = [q \in Projects |-> None]
      /\ thread' = {} /\ queue' = [q \in Projects |-> <<>>] /\ stopped' = {}
      /\ pc' = [h \in Requests |-> IF pc[h] \in {"start", "absent"} THEN pc[h] ELSE "over"]
      /\ dropped' = {} /\ doomed' = {}
      /\ UNCHANGED <<place, workspace, damaged, active>>
  BY DEF Crash, disk
<1>2. /\ TypeOK /\ EntriesAreOwned /\ CreationsAreFresh /\ StoresAreUsed /\ WorkspacesDisjoint
  BY DEF IInv
<1>3. \A h \in Requests :
        /\ pc'[h] \in {"start", "absent", "over"}
        /\ pc'[h] \in {"start", "absent"} => pc'[h] = pc[h]
        /\ pc'[h] \in Labels(Kind[h])
  BY <1>1 DEF Labels, Everyone
<1>4. TypeOK'
  <2>1. \A q \in Projects : queue'[q] \in Seq(Commands(q))
    BY <1>1
  <2>2. QED
    BY <1>1, <1>2, <1>3, <2>1 DEF TypeOK
<1>5. DownIsEmpty' /\ GuardsExclude'
  BY <1>1, <1>3 DEF DownIsEmpty, GuardsExclude, Writing, InCatalog, Working
<1>6. EntriesAreOwned'
  <2>1. \A g \in Requests : /\ ~Guarded(g)' /\ ~Removing(g)'
                            /\ Young(g)' => Young(g)
                            /\ Project[g] \in Projects
    BY <1>3, CatalogAssumption DEF Guarded, Young, Removing, Calling, Stopping, Creating
  <2>2. \A g \in Requests : Apart(g) => Apart(g)'
    BY <1>1, <2>1 DEF Apart, NoStarts
  <2>3. QED
    BY <1>2, <1>3, <2>1, <2>2 DEF EntriesAreOwned
<1>7. CreationsAreFresh' /\ CreationsAreAdmissible'
  BY <1>1, <1>2, <1>3
  DEF CreationsAreFresh, FreshAt, CreationsAreAdmissible, AdmissibleAt
<1>8. CommandsAreInOrder' /\ StoresAreUsed' /\ WorkspacesDisjoint'
  BY <1>1, <1>2 DEF CommandsAreInOrder, StoresAreUsed, WorkspacesDisjoint, Listed
<1>9. QED
  BY <1>4, <1>5, <1>6, <1>7, <1>8 DEF IInv

LEMMA InitializeStep ==
  ASSUME IInv, Initialize
  PROVE  IInv'
<1>1. PICK found \in SUBSET (Listed \ damaged), built \in SUBSET active :
        /\ built \subseteq found /\ ~up /\ up' = TRUE /\ thread' = found
        /\ place' = [q \in Projects |-> IF place[q] = "staging" THEN "trash" ELSE place[q]]
        /\ projects' = [q \in Projects |-> CASE q \in built -> "loaded"
                                             [] q \in found \ built -> "unloaded"
                                             [] OTHER -> None]
        /\ doomed' = {q \in Projects : place'[q] = "trash"}
        /\ UNCHANGED <<workspace, damaged, active, queue, stopped, pc, dropped>>
  BY DEF Initialize, requests
<1>2. /\ TypeOK /\ DownIsEmpty /\ GuardsExclude /\ EntriesAreOwned
      /\ CreationsAreFresh /\ StoresAreUsed /\ CommandsAreInOrder /\ WorkspacesDisjoint
  BY DEF IInv
<1>3. /\ stopped = {} /\ \A q \in Projects : queue[q] = <<>>
      /\ \A h \in Requests : pc[h] \notin Working
  BY <1>1, <1>2 DEF DownIsEmpty
<1>4. Listed' = Listed /\ found \subseteq Listed /\ found \subseteq Projects
  BY <1>1 DEF Listed
<1>5. \A q \in Projects : projects'[q] # None => q \in found
  BY <1>1
<1>6. TypeOK'
  <2>1. place' \in [Projects -> {None, "staging", "projects", "trash", "purged"}]
    BY <1>1, <1>2 DEF TypeOK
  <2>2. projects' \in [Projects -> {None, "unloaded", "loaded"}]
    BY <1>1
  <2>3. QED
    BY <1>1, <1>2, <1>4, <2>1, <2>2 DEF TypeOK
<1>7. DownIsEmpty' /\ GuardsExclude'
  BY <1>1, <1>2 DEF DownIsEmpty, GuardsExclude, Reading, Writing
<1>8. \A h \in Requests :
        /\ ~Guarded(h) /\ ~Removing(h)
        /\ pc[h] \notin Creating \cup Stopping \cup {"reopen"} \cup InCatalog
        /\ Project[h] \in Projects
  BY <1>3, CatalogAssumption
  DEF Guarded, Removing, Calling, Stopping, Creating, InCatalog, Working
<1>9. \A h \in Requests : Young(h) =>
        place[Project[h]] = None /\ Project[h] \notin found /\ projects'[Project[h]] = None
  <2> SUFFICES ASSUME NEW h \in Requests, Young(h)
               PROVE  place[Project[h]] = None /\ Project[h] \notin found
    BY <1>5, <1>8
  <2>1. pc[h] \in {"absent", "start"} /\ Kind[h] = "create"
    BY <1>8 DEF Young
  <2>2. place[Project[h]] = None
    BY <1>2, <2>1 DEF CreationsAreFresh, FreshAt
  <2>3. QED
    BY <1>4, <2>2 DEF Listed, None
<1>10. EntriesAreOwned'
  <2>1. \A h \in Requests : /\ ~Guarded(h)' /\ ~Removing(h)' /\ (Young(h)' => Young(h))
                            /\ pc'[h] \notin {"halt", "retire", "reopen"}
    BY <1>1, <1>8 DEF Guarded, Removing, Young, Stopping
  <2>2. \A h \in Requests : Young(h) => Apart(h)'
    BY <1>1, <1>2, <1>9, <2>1 DEF EntriesAreOwned, Apart, NoStarts
  <2>3. QED
    BY <2>1, <2>2 DEF EntriesAreOwned
<1>11. CreationsAreFresh' /\ CreationsAreAdmissible'
  <2>1. CreationsAreFresh'
    <3> SUFFICES ASSUME NEW g \in Requests, Kind[g] = "create" PROVE FreshAt(g, pc[g])'
      BY DEF CreationsAreFresh, FreshAt
    <3>1. CASE pc[g] \in {"absent", "start"}
      <4>1. Young(g)
        BY <3>1 DEF Young
      <4>2. place'[Project[g]] = None
        BY <1>1, <1>8, <1>9, <4>1 DEF None
      <4>3. QED
        BY <1>1, <1>9, <3>1, <4>1, <4>2 DEF FreshAt
    <3>2. CASE pc[g] \notin {"absent", "start"}
      BY <1>1, <1>8, <3>2 DEF FreshAt, Creating
    <3>3. QED
      BY <3>1, <3>2
  <2>2. CreationsAreAdmissible'
    BY <1>1, <1>8 DEF CreationsAreAdmissible, AdmissibleAt, InCatalog
  <2>3. QED
    BY <2>1, <2>2
<1>12. CommandsAreInOrder' /\ WorkspacesDisjoint'
  BY <1>1, <1>2, <1>4 DEF CommandsAreInOrder, WorkspacesDisjoint
<1>13. StoresAreUsed'
  <2>1. \A q \in Projects : q \in found \cup active => place'[q] = "projects"
    BY <1>1, <1>2, <1>4 DEF StoresAreUsed, Listed
  <2>2. QED
    BY <1>1, <1>3, <1>5, <2>1 DEF StoresAreUsed
<1>14. QED
  BY <1>6, <1>7, <1>10, <1>11, <1>12, <1>13 DEF IInv

(* A Project's entries become unreadable: no invariant counts on them.     *)
LEMMA DamageStep ==
  ASSUME IInv, NEW p \in Projects, Damage(p)
  PROVE  IInv'
<1>1. /\ damaged' = damaged \cup {p}
      /\ UNCHANGED <<up, place, workspace, active, projects, thread, queue, stopped,
                     pc, dropped, doomed>>
  BY DEF Damage, stores, requests
<1>2. /\ TypeOK /\ DownIsEmpty /\ GuardsExclude /\ EntriesAreOwned
      /\ CreationsAreFresh /\ CreationsAreAdmissible /\ StoresAreUsed
      /\ CommandsAreInOrder /\ WorkspacesDisjoint
  BY DEF IInv
<1>3. TypeOK' /\ DownIsEmpty' /\ GuardsExclude' /\ CommandsAreInOrder'
  BY <1>1, <1>2
  DEF TypeOK, DownIsEmpty, GuardsExclude, Reading, Writing, CommandsAreInOrder
<1>4. EntriesAreOwned'
  BY <1>1, <1>2 DEF EntriesAreOwned, Guarded, Young, Removing, Apart, NoStarts
<1>5. CreationsAreFresh' /\ CreationsAreAdmissible' /\ StoresAreUsed' /\ WorkspacesDisjoint'
  BY <1>1, <1>2
  DEF CreationsAreFresh, FreshAt, CreationsAreAdmissible, AdmissibleAt, Listed,
      StoresAreUsed, WorkspacesDisjoint
<1>6. QED
  BY <1>3, <1>4, <1>5 DEF IInv

(* A step that is none changes nothing.                                    *)
LEMMA StutterStep ==
  ASSUME IInv, UNCHANGED vars
  PROVE  IInv'
<1>1. UNCHANGED <<up, place, workspace, damaged, active, projects, thread, queue, stopped,
                  pc, dropped, doomed>>
  BY DEF vars, disk, stores, requests
<1>2. TypeOK' /\ DownIsEmpty' /\ GuardsExclude' /\ CommandsAreInOrder'
  BY <1>1
  DEF IInv, TypeOK, DownIsEmpty, GuardsExclude, Reading, Writing, CommandsAreInOrder
<1>3. EntriesAreOwned'
  BY <1>1 DEF IInv, EntriesAreOwned, Guarded, Young, Removing, Apart, NoStarts
<1>4. CreationsAreFresh' /\ CreationsAreAdmissible' /\ StoresAreUsed' /\ WorkspacesDisjoint'
  BY <1>1
  DEF IInv, CreationsAreFresh, FreshAt, CreationsAreAdmissible, AdmissibleAt, Listed,
      StoresAreUsed, WorkspacesDisjoint
<1>5. QED
  BY <1>2, <1>3, <1>4 DEF IInv

LEMMA NextStep ==
  ASSUME IInv, [Next]_vars
  PROVE  IInv'
<1>1. CASE UNCHANGED vars
  BY <1>1, StutterStep
<1>2. ASSUME NEW h \in Requests, Arrive(h) \/ RequestStep(h) \/ Drop(h) PROVE IInv'
  <2>1. ASSUME CreateStep(h) PROVE IInv'
    BY <2>1, CreateAdmitStep, CreateStageStep, CreatePublishStep, CreateOpenStep,
       CreateSpawnStep, CreateBuildStep, CreateInsertStep
    DEF CreateStep
  <2>2. QED
    BY <1>2, <2>1, ArriveStep, DropStep, LeaseStep, LoadStep, LockStep, CallStep,
       SendStep, StopStep, HaltStep, RetireStep, ReopenStep
    DEF RequestStep
<1>3. ASSUME NEW p \in Projects,
             ThreadStep(p) \/ Purge(p) \/ EndSessions(p) \/ Damage(p)
      PROVE  IInv'
  BY <1>3, RunStartStep, RunStreamStep, RunRelocateStep, RunRemoveStep, RunStopStep,
     ThreadEndsStep, PurgeStep, EndSessionsStep, DamageStep
  DEF ThreadStep
<1>4. QED
  BY <1>1, <1>2, <1>3, CrashStep, InitializeStep DEF Next
-----------------------------------------------------------------------------
(* The theorems                                                            *)

(* Every request that comes in, and every crash, keeps the types and who   *)
(* holds which guard, entry, directory and Store thread.                   *)
THEOREM Invariance == Spec => []IInv
<1>1. Init => IInv
  BY InitStep
<1>2. IInv /\ [Next]_vars => IInv'
  BY NextStep
<1>3. QED
  BY <1>1, <1>2, PTL DEF Spec

(* No two Projects work in workspaces that contain one another, nor one in *)
(* PaperMachine's directory: the catalog's mutex covers the check and the  *)
(* rename or the update that it is made for.                               *)
THEOREM WorkspacesStayApart == Spec => []WorkspacesDisjoint
<1>1. IInv => WorkspacesDisjoint
  BY DEF IInv
<1>2. QED
  BY <1>1, Invariance, PTL

(* No request is let into a Project that is being taken away, and no file  *)
(* is pulled from under a Store thread.                                    *)
THEOREM EntriesStayLive == Spec => []EntriesAreLive
<1>1. IInv => EntriesAreLive
  BY DEF IInv, StoresAreUsed, EntriesAreLive
<1>2. QED
  BY <1>1, Invariance, PTL

(* Who is taking a Project away, or is making it, has it idle.             *)
LEMMA IdleFacts ==
  ASSUME IInv, NEW h \in Requests, pc[h] \in Creating \cup Stopping \cup {"reopen"}
  PROVE  Project[h] \notin active
<1>1. CASE pc[h] \in Creating
  BY <1>1, CreatorFacts DEF Apart
<1>2. CASE pc[h] \in Stopping \cup {"reopen"}
  BY <1>2, StopperFacts DEF Apart
<1>3. QED
  BY <1>1, <1>2

(* Directories of Projects that are in use are moved by nobody ...         *)
LEMMA PlacesStay ==
  ASSUME IInv, [Next]_vars, NEW p \in active
  PROVE  place'[p] = place[p]
<1>1. p \in Projects /\ DOMAIN place = Projects /\ place[p] = "projects"
  BY DEF IInv, TypeOK, StoresAreUsed
<1>2. ASSUME NEW h \in Requests, place' \in {place, [place EXCEPT ![Project[h]] = "staging"],
               [place EXCEPT ![Project[h]] = "projects"], [place EXCEPT ![Project[h]] = "trash"],
               [place EXCEPT ![Project[h]] = None]},
             pc[h] \in Creating \cup Stopping \cup {"reopen"}
      PROVE  place'[p] = place[p]
  <2>1. Project[h] # p
    BY <1>2, IdleFacts
  <2>2. QED
    BY <1>1, <1>2, <2>1
<1>3. ASSUME NEW h \in Requests, RequestStep(h) PROVE place'[p] = place[p]
  <2>1. CASE CreateStage(h) \/ CreatePublish(h) \/ CreateOpen(h)
    BY <1>2, <2>1 DEF CreateStage, CreatePublish, CreateOpen, Creating
  <2>2. CASE Retire(h)
    BY <1>2, <2>2 DEF Retire, Move, Stopping
  <2>3. QED
    BY <1>3, <2>1, <2>2
    DEF RequestStep, CreateStep, CreateAdmit, CreateSpawn, CreateBuild, CreateInsert,
        Lease, Load, Lock, Call, Send, Stop, Halt, Reopen, disk
<1>4. ASSUME NEW q \in Projects, Purge(q) PROVE place'[p] = place[p]
  <2>1. q # p
    BY <1>1, <1>4 DEF Purge, IInv, StoresAreUsed
  <2>2. QED
    BY <1>1, <1>4, <2>1 DEF Purge
<1>5. CASE Initialize
  BY <1>1, <1>5 DEF Initialize
<1>6. QED
  BY <1>3, <1>4, <1>5
  DEF Next, Arrive, Drop, ThreadStep, RunStart, RunStream, RunRelocate, RunRemove, RunStop,
      ThreadEnds, EndSessions, Damage, Crash, vars, disk

(* ... nor is their workspace changed, ...                                 *)
LEMMA WorkspacesStay ==
  ASSUME IInv, [Next]_vars, NEW p \in active
  PROVE  workspace'[p] = workspace[p]
<1>1. p \in Projects /\ DOMAIN workspace = Projects
  BY DEF IInv, TypeOK
<1>2. ASSUME NEW h \in Requests, RequestStep(h) PROVE workspace'[p] = workspace[p]
  <2>1. CASE CreateStage(h)
    <3>1. Project[h] # p
      BY <2>1, IdleFacts DEF CreateStage, Creating
    <3>2. QED
      BY <1>1, <2>1, <3>1 DEF CreateStage
  <2>2. QED
    BY <1>2, <2>1
    DEF RequestStep, CreateStep, CreateAdmit, CreatePublish, CreateOpen, CreateSpawn,
        CreateBuild, CreateInsert, Lease, Load, Lock, Call, Send, Stop, Halt, Retire,
        Reopen, disk
<1>3. ASSUME NEW q \in Projects, RunRelocate(q) PROVE workspace'[p] = workspace[p]
  BY <1>1, <1>3 DEF RunRelocate, CanDetach
<1>4. QED
  BY <1>2, <1>3
  DEF Next, Arrive, Drop, ThreadStep, RunStart, RunStream, RunRemove, RunStop, ThreadEnds,
      Purge, EndSessions, Damage, Crash, Initialize, vars, disk

(* ... nor does their entry leave the map, but with the server.            *)
LEMMA EntriesStay ==
  ASSUME IInv, [Next]_vars, NEW p \in active, up, up', projects[p] # None
  PROVE  projects'[p] # None
<1>1. p \in Projects /\ DOMAIN projects = Projects
  BY DEF IInv, TypeOK
<1>2. ASSUME NEW h \in Requests, RequestStep(h) PROVE projects'[p] # None
  <2>1. CASE CreateInsert(h) \/ Load(h) \/ Reopen(h)
    <3>1. \/ projects' = projects
          \/ projects' = [projects EXCEPT ![Project[h]] = "loaded"]
          \/ projects' = [projects EXCEPT ![Project[h]] = "unloaded"]
      BY <2>1 DEF CreateInsert, Load, Reopen, Back
    <3>2. QED
      BY <1>1, <3>1 DEF None
  <2>2. QED
    BY <1>2, <2>1
    DEF RequestStep, CreateStep, CreateAdmit, CreateStage, CreatePublish, CreateOpen,
        CreateSpawn, CreateBuild, Lease, Lock, Call, Send, Stop, Halt, Retire
<1>3. ASSUME NEW q \in Projects, RunRemove(q) PROVE projects'[p] # None
  BY <1>1, <1>3 DEF RunRemove, CanDetach, Unlisted
<1>4. ~Crash /\ ~Initialize
  BY DEF Crash, Initialize
<1>5. QED
  BY <1>2, <1>3, <1>4
  DEF Next, Arrive, Drop, ThreadStep, RunStart, RunStream, RunRelocate, RunStop, ThreadEnds,
      Purge, EndSessions, Damage, vars

(* A Project with a Session that has not ended stays where it is, whoever  *)
(* asks for its removal or for a new workspace, and also when the request  *)
(* that started the Session was dropped.                                   *)
THEOREM BusyProjectsAreKept == Spec => BusyProjectsStay
<1>1. IInv /\ [Next]_vars =>
        [\A p \in active :
           /\ place'[p] = place[p] /\ workspace'[p] = workspace[p]
           /\ up /\ up' /\ projects[p] # None => projects'[p] # None]_vars
  BY PlacesStay, WorkspacesStay, EntriesStay
<1>2. QED
  BY <1>1, Invariance, PTL DEF Spec, BusyProjectsStay
=============================================================================
