----------------------- MODULE ProjectKnowledge_proofs -----------------------
(***************************************************************************)
(* Proofs about ProjectKnowledge, for any Sessions that publish any number *)
(* of Artifacts and pages, any readers, and any number of crashes and      *)
(* failed writes: the disk follows the rows, nothing is announced twice,   *)
(* only overtaken work is disowned, and readers miss nothing.              *)
(***************************************************************************)
EXTENDS ProjectKnowledge, FiniteSetTheorems, TLAPS

WorkOf(id) == Works[id.session][id.effect]

(* A file or a row has the content its id stands for, a row has its file,  *)
(* and the Project Home is one of the rows.                                *)
Contents ==
  /\ \A i \in DOMAIN rows : rows[i] = WorkOf(i).body /\ WorkOf(i).valid
  /\ \A i \in DOMAIN files : files[i] = WorkOf(i).body
  /\ DOMAIN rows \subseteq DOMAIN files
  /\ home # NoHome => home.page \in DOMAIN rows /\ home.body = WorkOf(home.page).body

(* How far a publication has come: what it has still to store, and what    *)
(* it made. A job that goes over an effect already in the Store is one of  *)
(* a page that is not the current one.                                     *)
ToDo(s) ==
  {<<>>, <<Page(s)>>}
    \cup IF EffectOf(s).kind = "home" THEN {<<Source(s), Page(s)>>} ELSE {}

Targets(s) ==
  IF EffectOf(s).kind = "home" THEN {Source(s), Page(s)} ELSE {Page(s)}

JobIsSound ==
  job # Idle =>
    LET s == job.session
    IN /\ up /\ HasEffect(s) /\ answer[s] = None /\ EffectOf(s).valid
       /\ job.todo \in ToDo(s)
       /\ job.todo = <<>> => Page(s) \in DOMAIN files
       /\ EffectOf(s).kind = "home" /\ job.todo # <<Source(s), Page(s)>>
            => Source(s) \in DOMAIN files
       /\ job.made \subseteq Targets(s) \cap (DOMAIN files \ DOMAIN rows)
       /\ job.at = "rename" => job.todo # <<>> /\ Head(job.todo) \notin DOMAIN files
       /\ Page(s) \in DOMAIN rows => EffectOf(s).kind = "home" /\ home.page # Page(s)

(* What lies on disk without a row is being made, or was left behind.      *)
ResidueIsKnown ==
  up => /\ DOMAIN files \ DOMAIN rows \subseteq
             spilled \cup (IF job = Idle THEN {} ELSE job.made)
        /\ temps = IF job.at = "rename" THEN {Head(job.todo)} ELSE {}

(* A failure on its way, or recorded, is of an effect not in the Store, or *)
(* of a page that was replaced. No answer is on its way to a failed Session. *)
FailuresAreOvertaken ==
  \A s \in Sessions :
    /\ (answer[s] = "failed" \/ outcome[s] = "failed") /\ Page(s) \in DOMAIN rows
         => EffectOf(s).kind = "home" /\ home.page # Page(s)
    /\ answer[s] # None => outcome[s] = "running"

(* A row was announced when it was inserted.                               *)
RowsAreAnnounced ==
  /\ IsFiniteSet(DOMAIN rows)
  /\ \A a \in Artifacts : a \notin DOMAIN rows => ChangesOf(a) = {}
  /\ PublishedOnce

IInv ==
  /\ TypeOK /\ Contents /\ JobIsSound /\ ResidueIsKnown
  /\ FailuresAreOvertaken /\ RowsAreAnnounced
-----------------------------------------------------------------------------
(* Every effect has two ids of its own, and they lead back to it.          *)
LEMMA Identities ==
  ASSUME NEW s \in Sessions, NEW k \in DOMAIN Works[s]
  PROVE  /\ PageOf(s, k) \in Artifacts /\ SourceOf(s, k) \in Artifacts
         /\ PageOf(s, k) # SourceOf(s, k)
         /\ WorkOf(PageOf(s, k)) = Works[s][k] /\ WorkOf(SourceOf(s, k)) = Works[s][k]
         /\ IsHomePage(PageOf(s, k)) <=> Works[s][k].kind = "home"
         /\ ~IsHomePage(SourceOf(s, k))
         /\ Works[s][k] \in EffectType
<1>1. <<s, k>> \in Effects
  BY DEF Effects
<1>2. PageOf(s, k) \in Artifacts /\ SourceOf(s, k) \in Artifacts
  <2>1. PageOf(<<s, k>>[1], <<s, k>>[2]) \in {PageOf(e[1], e[2]) : e \in Effects}
    BY <1>1
  <2>2. SourceOf(<<s, k>>[1], <<s, k>>[2]) \in {SourceOf(e[1], e[2]) : e \in Effects}
    BY <1>1
  <2>3. QED
    BY <2>1, <2>2 DEF Artifacts
<1>3. Works[s][k] \in EffectType
  BY KnowledgeAssumption
<1>4. QED
  BY <1>2, <1>3 DEF PageOf, SourceOf, WorkOf, IsHomePage

(* The Project Home and the records are no Artifacts.                      *)
LEMMA ArtifactsAreApart ==
  /\ Home \notin Artifacts /\ NoArtifact \notin Artifacts
  /\ Rows \cap (Artifacts \cup {Home}) = {}
<1>1. ASSUME NEW a \in Artifacts
      PROVE  a.session \in Sessions /\ a.role \in {"page", "source"} /\ a.effect # 0
  <2>1. PICK e \in Effects : a = PageOf(e[1], e[2]) \/ a = SourceOf(e[1], e[2])
    BY DEF Artifacts
  <2>2. PICK s \in Sessions : \E k \in DOMAIN Works[s] : e = <<s, k>>
    BY <2>1 DEF Effects
  <2>3. PICK k \in DOMAIN Works[s] : e = <<s, k>>
    BY <2>2
  <2>4. k # 0
    BY KnowledgeAssumption
  <2>5. QED
    BY <2>1, <2>3, <2>4 DEF PageOf, SourceOf
<1>2. Home \notin Artifacts /\ NoArtifact \notin Artifacts
  BY <1>1, KnowledgeAssumption DEF Home, NoArtifact
<1>3. Rows \cap Artifacts = {}
  BY <1>1 DEF Rows, Row
<1>4. Home \notin Rows
  <2>1. \A x \in Records : Row(x).role # Home.role
    BY KnowledgeAssumption DEF Row, Home
  <2>2. QED
    BY <2>1 DEF Rows
<1>5. QED
  BY <1>2, <1>3, <1>4

(* What a publication works with                                           *)
LEMMA JobFacts ==
  ASSUME TypeOK, JobIsSound, job # Idle
  PROVE  LET s == job.session
         IN /\ job \in Publications /\ s \in Sessions /\ position[s] \in DOMAIN Works[s]
            /\ Page(s) \in Artifacts /\ Source(s) \in Artifacts /\ Page(s) # Source(s)
            /\ WorkOf(Page(s)) = EffectOf(s) /\ WorkOf(Source(s)) = EffectOf(s)
            /\ EffectOf(s) \in EffectType
            /\ job.todo # <<>> => /\ Head(job.todo) \in Targets(s)
                                 /\ Tail(job.todo) \in ToDo(s)
                                 /\ Tail(job.todo) \in Seq(Artifacts)
<1> DEFINE s == job.session
<1>1. job \in Publications /\ s \in Sessions
  BY DEF TypeOK, Publications
<1>2. position[s] \in DOMAIN Works[s] /\ job.todo \in ToDo(s)
  BY DEF JobIsSound, HasEffect
<1>3. /\ Page(s) \in Artifacts /\ Source(s) \in Artifacts /\ Page(s) # Source(s)
      /\ WorkOf(Page(s)) = EffectOf(s) /\ WorkOf(Source(s)) = EffectOf(s)
      /\ EffectOf(s) \in EffectType
  BY <1>1, <1>2, Identities DEF Page, Source, EffectOf
<1>4. job.todo # <<>> => /\ Head(job.todo) \in Targets(s)
                        /\ Tail(job.todo) \in ToDo(s)
                        /\ Tail(job.todo) \in Seq(Artifacts)
  <2>1. ASSUME job.todo # <<>> PROVE Tail(job.todo) \in Seq(Artifacts)
    <3>1. job.todo \in Seq(Artifacts)
      BY <1>1 DEF Publications
    <3>2. QED
      BY <2>1, <3>1
  <2>2. CASE job.todo = <<Page(s)>>
    <3>1. Head(job.todo) = Page(s) /\ Tail(job.todo) = <<>>
      BY <2>2
    <3>2. <<>> \in ToDo(s) /\ Page(s) \in Targets(s)
      BY DEF ToDo, Targets
    <3>3. QED
      BY <2>1, <3>1, <3>2
  <2>3. CASE EffectOf(s).kind = "home" /\ job.todo = <<Source(s), Page(s)>>
    <3>1. Head(job.todo) = Source(s) /\ Tail(job.todo) = <<Page(s)>>
      BY <2>3
    <3>2. <<Page(s)>> \in ToDo(s) /\ Source(s) \in Targets(s)
      BY <2>3 DEF ToDo, Targets
    <3>3. QED
      BY <2>1, <3>1, <3>2
  <2>4. QED
    BY <1>2, <2>2, <2>3 DEF ToDo
<1>5. QED
  BY <1>1, <1>2, <1>3, <1>4
-----------------------------------------------------------------------------
(* The start                                                               *)
LEMMA InitStep == Init => IInv
<1> SUFFICES ASSUME Init PROVE IInv
  OBVIOUS
<1> USE DEF Init
<1>1. DOMAIN rows = {} /\ DOMAIN files = {} /\ DOMAIN changes = {}
  OBVIOUS
<1>2. TypeOK
  BY <1>1 DEF TypeOK, HomeType
<1>3. Contents
  BY <1>1 DEF Contents
<1>4. JobIsSound /\ ResidueIsKnown
  BY <1>1 DEF JobIsSound, ResidueIsKnown, Idle, None
<1>5. FailuresAreOvertaken
  BY <1>1 DEF FailuresAreOvertaken
<1>6. RowsAreAnnounced
  <2>1. \A e : ChangesOf(e) = {}
    BY <1>1 DEF ChangesOf
  <2>2. {a \in DOMAIN rows : IsHomePage(a)} = {}
    BY <1>1
  <2>3. QED
    <3>1. Cardinality({}) = 0 /\ IsFiniteSet({})
      BY FS_EmptySet
    <3>2. \A e : Cardinality(ChangesOf(e)) = 0
      BY <2>1, <3>1, Zenon
    <3>3. Cardinality({a \in DOMAIN rows : IsHomePage(a)}) = 0
      BY <2>2, <3>1, Zenon
    <3>4. PublishedOnce
      BY <3>2, <3>3 DEF PublishedOnce
    <3>5. QED
      BY <1>1, <2>1, <3>1, <3>4 DEF RowsAreAnnounced
<1>7. QED
  BY <1>2, <1>3, <1>4, <1>5, <1>6 DEF IInv

(* A step that leaves rows, files and announcements alone keeps what is    *)
(* said of them.                                                           *)
LEMMA SameRows ==
  ASSUME RowsAreAnnounced, UNCHANGED <<rows, changes>>
  PROVE  RowsAreAnnounced'
BY DEF RowsAreAnnounced, PublishedOnce, ChangesOf, IsHomePage

LEMMA SameContents ==
  ASSUME Contents, UNCHANGED <<rows, files, home>>
  PROVE  Contents'
BY DEF Contents, WorkOf
-----------------------------------------------------------------------------
(* Publications                                                            *)

(* The conjuncts of JobIsSound again after a step of the job that keeps    *)
(* its Session                                                             *)
LEMMA SameWork ==
  ASSUME UNCHANGED position, NEW s \in Sessions
  PROVE  /\ Page(s)' = Page(s) /\ Source(s)' = Source(s) /\ EffectOf(s)' = EffectOf(s)
         /\ ToDo(s)' = ToDo(s) /\ Targets(s)' = Targets(s)
BY DEF Page, Source, EffectOf, ToDo, Targets

LEMMA DispatchStep ==
  ASSUME IInv, NEW s \in Sessions, Dispatch(s)
  PROVE  IInv'
<1> USE DEF IInv, Dispatch, Quiet, Reply, disk, reading
<1>1. /\ up /\ job = Idle /\ HasEffect(s) /\ answer[s] = None
      /\ UNCHANGED <<up, rows, files, temps, home, changes, spilled, position, outcome>>
  OBVIOUS
<1>2. s \in Sessions /\ position[s] \in DOMAIN Works[s]
  BY <1>1 DEF HasEffect
<1>3. /\ Page(s) \in Artifacts /\ Source(s) \in Artifacts /\ Page(s) # Source(s)
      /\ WorkOf(Page(s)) = EffectOf(s) /\ EffectOf(s) \in EffectType
  BY <1>2, Identities DEF Page, Source, EffectOf
<1>4. CASE job' = Idle
  <2>1. answer' \in [Sessions -> {None, "ok", "failed"}]
    BY <1>4 DEF TypeOK, Idle
  <2>2. TypeOK'
    BY <1>1, <1>4, <2>1 DEF TypeOK
  <2>3. JobIsSound' /\ ResidueIsKnown'
    BY <1>1, <1>4 DEF JobIsSound, ResidueIsKnown
  <2>4. ASSUME NEW t \in Sessions, Page(t)' \in DOMAIN rows', answer'[t] = "failed" \/ outcome'[t] = "failed"
        PROVE  EffectOf(t)'.kind = "home" /\ home'.page # Page(t)'
    <3>1. Page(t)' = Page(t) /\ EffectOf(t)' = EffectOf(t)
      BY <1>1 DEF Page, EffectOf
    <3>2. CASE answer[t] = "failed" \/ outcome[t] = "failed"
      BY <1>1, <2>4, <3>1, <3>2 DEF FailuresAreOvertaken
    <3>3. CASE answer[t] # "failed" /\ outcome[t] # "failed"
      <4>1. t = s /\ ~EffectOf(s).valid
        BY <1>1, <1>4, <2>4, <3>3 DEF TypeOK, Idle
      <4>2. Page(s) \notin DOMAIN rows
        BY <1>3, <4>1 DEF Contents
      <4>3. QED
        BY <1>1, <2>4, <3>1, <4>1, <4>2
    <3>4. QED
      BY <3>2, <3>3
  <2>5. FailuresAreOvertaken'
    <3>1. \A t \in Sessions : answer'[t] # None => outcome'[t] = "running"
      BY <1>1, <1>4 DEF FailuresAreOvertaken, HasEffect, TypeOK, Idle
    <3>2. QED
      BY <2>4, <3>1 DEF FailuresAreOvertaken
  <2>6. QED
    BY <1>1, <2>2, <2>3, <2>5, SameRows, SameContents
<1>5. CASE job' # Idle
  <2>1. /\ EffectOf(s).valid /\ ~AlreadyThere(s) /\ UNCHANGED answer
        /\ job' = [at |-> "store", session |-> s,
                   todo |-> IF EffectOf(s).kind = "home" THEN <<Source(s), Page(s)>> ELSE <<Page(s)>>,
                   made |-> {}, base |-> home]
    BY <1>5
  <2>2. job' \in Publications
    BY <1>2, <1>3, <2>1 DEF Publications, TypeOK
  <2>3. TypeOK'
    BY <1>1, <2>1, <2>2 DEF TypeOK
  <2>4. FailuresAreOvertaken' /\ ResidueIsKnown'
    BY <1>1, <1>5, <2>1 DEF FailuresAreOvertaken, ResidueIsKnown, Page, EffectOf, Idle, None
  <2>5. Page(s) \in DOMAIN rows => EffectOf(s).kind = "home" /\ home.page # Page(s)
    <3>1. CASE EffectOf(s).kind = "artifact"
      BY <2>1, <3>1 DEF AlreadyThere
    <3>2. CASE EffectOf(s).kind = "home"
      <4>1. home.body # EffectOf(s).body
        BY <2>1, <3>2 DEF AlreadyThere
      <4>2. CASE home = NoHome
        BY <1>3, <3>2, <4>2, ArtifactsAreApart DEF NoHome
      <4>3. CASE home # NoHome
        BY <1>3, <3>2, <4>1, <4>3 DEF Contents
      <4>4. QED
        BY <4>2, <4>3
    <3>3. QED
      BY <1>3, <3>1, <3>2 DEF EffectType
  <2>6. JobIsSound'
    <3>1. /\ Page(s)' = Page(s) /\ Source(s)' = Source(s) /\ EffectOf(s)' = EffectOf(s)
          /\ ToDo(s)' = ToDo(s) /\ HasEffect(s)'
      BY <1>1, SameWork DEF HasEffect
    <3>2. job'.todo \in ToDo(s) /\ job'.todo # <<>>
      BY <2>1 DEF ToDo
    <3>3. job'.session = s /\ job'.made = {} /\ job'.at = "store"
      BY <2>1
    <3>4. EffectOf(s).kind = "home" => job'.todo = <<Source(s), Page(s)>>
      BY <2>1
    <3>5. QED
      BY <1>1, <2>1, <2>5, <3>1, <3>2, <3>3, <3>4 DEF JobIsSound
  <2>7. QED
    BY <1>1, <2>3, <2>4, <2>6, SameRows, SameContents
<1>6. QED
  BY <1>4, <1>5

LEMMA StoreFileStep ==
  ASSUME IInv, StoreFile
  PROVE  IInv'
<1> DEFINE id == Head(job.todo)
<1>1. /\ up /\ job.at = "store" /\ job.todo # <<>> /\ job # Idle
      /\ UNCHANGED <<up, rows, files, home, changes, spilled, position, answer, outcome>>
  BY DEF StoreFile, work, Idle, None
<1>2. TypeOK /\ JobIsSound /\ Contents /\ ResidueIsKnown /\ FailuresAreOvertaken /\ RowsAreAnnounced
  BY DEF IInv
<1>3. PICK s \in Sessions :
      /\ job \in Publications /\ s = job.session /\ position[s] \in DOMAIN Works[s]
      /\ Page(s) \in Artifacts /\ Source(s) \in Artifacts /\ Page(s) # Source(s)
      /\ id \in Targets(s) /\ Tail(job.todo) \in ToDo(s)
      /\ Tail(job.todo) \in Seq(Artifacts)
  BY <1>1, <1>2, JobFacts
<1>4. /\ Page(s)' = Page(s) /\ Source(s)' = Source(s) /\ EffectOf(s)' = EffectOf(s)
      /\ ToDo(s)' = ToDo(s) /\ Targets(s)' = Targets(s)
  BY <1>1, SameWork
<1>5. FailuresAreOvertaken'
  BY <1>1, <1>2, SameWork DEF FailuresAreOvertaken
<1>6. CASE id \in DOMAIN files
  <2>1. job' = [job EXCEPT !.todo = Tail(@)] /\ UNCHANGED temps
    BY <1>6 DEF StoreFile
  <2>2. /\ job' \in Publications /\ job'.at = "store" /\ job'.session = s
        /\ job'.made = job.made /\ job'.todo = Tail(job.todo)
    BY <1>1, <1>3, <2>1 DEF Publications
  <2>3. TypeOK'
    BY <1>1, <1>2, <2>1, <2>2 DEF TypeOK
  <2>4. job' # Idle
    BY <2>2 DEF Idle, None
  <2>5. ResidueIsKnown'
    BY <1>1, <1>2, <2>1, <2>2, <2>4 DEF ResidueIsKnown
  <2>6. /\ Tail(job.todo) = <<>> => Page(s) \in DOMAIN files
        /\ EffectOf(s).kind = "home" /\ Tail(job.todo) # <<Source(s), Page(s)>>
             => Source(s) \in DOMAIN files
    <3>1. CASE job.todo = <<Page(s)>>
      <4>1. id = Page(s) /\ job.todo # <<Source(s), Page(s)>>
        BY <3>1
      <4>2. QED
        BY <1>1, <1>2, <1>3, <1>6, <4>1 DEF JobIsSound
    <3>2. CASE job.todo = <<Source(s), Page(s)>>
      BY <1>6, <3>2
    <3>3. QED
      BY <1>1, <1>2, <1>3, <3>1, <3>2 DEF JobIsSound, ToDo
  <2>7. JobIsSound'
    BY <1>1, <1>2, <1>3, <1>4, <2>2, <2>4, <2>6 DEF JobIsSound, HasEffect
  <2>8. QED
    BY <1>1, <1>2, <1>5, <2>3, <2>5, <2>7, SameRows, SameContents DEF IInv
<1>7. CASE id \notin DOMAIN files
  <2>1. job' = [job EXCEPT !.at = "rename"] /\ temps' = temps \cup {id}
    BY <1>7 DEF StoreFile
  <2>2. /\ job' \in Publications /\ job'.at = "rename" /\ job'.session = s
        /\ job'.made = job.made /\ job'.todo = job.todo
    BY <1>1, <1>3, <2>1 DEF Publications
  <2>3. TypeOK'
    BY <1>1, <1>2, <1>3, <2>1, <2>2 DEF TypeOK, Targets
  <2>4. job' # Idle
    BY <2>2 DEF Idle, None
  <2>5. ResidueIsKnown'
    BY <1>1, <1>2, <2>1, <2>2, <2>4 DEF ResidueIsKnown
  <2>6. JobIsSound'
    BY <1>1, <1>2, <1>3, <1>4, <1>7, <2>2, <2>4 DEF JobIsSound, HasEffect
  <2>7. QED
    BY <1>1, <1>2, <1>5, <2>3, <2>5, <2>6, SameRows, SameContents DEF IInv
<1>8. QED
  BY <1>6, <1>7

LEMMA RenameStep ==
  ASSUME IInv, Rename
  PROVE  IInv'
<1> DEFINE id == Head(job.todo)
<1>1. /\ up /\ job.at = "rename" /\ job # Idle
      /\ UNCHANGED <<up, rows, home, changes, spilled, position, answer, outcome>>
      /\ temps' = temps \ {id} /\ files' = WithFile(id)
      /\ job' = [job EXCEPT !.at = "store", !.todo = Tail(@), !.made = @ \cup {id}]
  BY DEF Rename, work, Idle, None
<1>2. TypeOK /\ JobIsSound /\ Contents /\ ResidueIsKnown /\ FailuresAreOvertaken /\ RowsAreAnnounced
  BY DEF IInv
<1>3. job.todo # <<>> /\ id \notin DOMAIN files
  BY <1>1, <1>2 DEF JobIsSound
<1>4. PICK s \in Sessions :
      /\ job \in Publications /\ s = job.session /\ position[s] \in DOMAIN Works[s]
      /\ Page(s) \in Artifacts /\ Source(s) \in Artifacts /\ Page(s) # Source(s)
      /\ WorkOf(Page(s)) = EffectOf(s) /\ WorkOf(Source(s)) = EffectOf(s)
      /\ id \in Targets(s) /\ Tail(job.todo) \in ToDo(s)
      /\ Tail(job.todo) \in Seq(Artifacts)
  BY <1>1, <1>2, <1>3, JobFacts
<1>5. /\ Page(s)' = Page(s) /\ Source(s)' = Source(s) /\ EffectOf(s)' = EffectOf(s)
      /\ ToDo(s)' = ToDo(s) /\ Targets(s)' = Targets(s)
  BY <1>1, SameWork
<1>6. /\ job' \in Publications /\ job'.at = "store" /\ job'.session = s
      /\ job'.made = job.made \cup {id} /\ job'.todo = Tail(job.todo)
  BY <1>1, <1>4 DEF Publications, Targets
<1>7. job' # Idle
  BY <1>6 DEF Idle, None
<1>8. /\ DOMAIN files' = DOMAIN files \cup {id}
      /\ \A i \in DOMAIN files' : files'[i] = WorkOf(i).body
  BY <1>1, <1>2, <1>4 DEF WithFile, Body, Contents, Targets
<1>9. TypeOK'
  BY <1>1, <1>2, <1>4, <1>6, <1>8 DEF TypeOK, Targets
<1>10. Contents'
  BY <1>1, <1>2, <1>8 DEF Contents, WorkOf
<1>11. ResidueIsKnown'
  BY <1>1, <1>2, <1>6, <1>7, <1>8 DEF ResidueIsKnown
<1>12. FailuresAreOvertaken'
  BY <1>1, <1>2, SameWork DEF FailuresAreOvertaken
<1>13. /\ Tail(job.todo) = <<>> => Page(s) \in DOMAIN files'
       /\ EffectOf(s).kind = "home" /\ Tail(job.todo) # <<Source(s), Page(s)>>
            => Source(s) \in DOMAIN files'
  <2>1. CASE job.todo = <<Page(s)>>
    <3>1. id = Page(s) /\ job.todo # <<Source(s), Page(s)>>
      BY <2>1
    <3>2. QED
      BY <1>1, <1>2, <1>4, <1>8, <3>1 DEF JobIsSound
  <2>2. CASE job.todo = <<Source(s), Page(s)>>
    <3>1. id = Source(s) /\ Tail(job.todo) = <<Page(s)>>
      BY <2>2
    <3>2. QED
      BY <1>8, <3>1
  <2>3. QED
    BY <1>1, <1>2, <1>3, <1>4, <2>1, <2>2 DEF JobIsSound, ToDo
<1>14. id \notin DOMAIN rows
  BY <1>2, <1>3 DEF Contents
<1>15. JobIsSound'
  BY <1>1, <1>2, <1>4, <1>5, <1>6, <1>7, <1>8, <1>13, <1>14 DEF JobIsSound, HasEffect
<1>16. QED
  BY <1>1, <1>2, <1>9, <1>10, <1>11, <1>12, <1>15, SameRows DEF IInv

(* A job that fails: what it made goes, but for `left`; `unknown` are the  *)
(* files it does not know that it made.                                    *)
LEMMA CleanUpStep ==
  ASSUME IInv, up, job # Idle,
         UNCHANGED <<up, rows, home, changes, position, outcome>>, temps' = {},
         NEW left \in SUBSET job.made, NEW with,
         NEW unknown \in SUBSET (Artifacts \ DOMAIN files),
         DOMAIN with = DOMAIN files \cup unknown,
         \A i \in DOMAIN with : with[i] = WorkOf(i).body,
         CleanUp(with, left, unknown)
  PROVE  IInv'
<1>1. TypeOK /\ JobIsSound /\ Contents /\ ResidueIsKnown /\ FailuresAreOvertaken /\ RowsAreAnnounced
  BY DEF IInv
<1>2. PICK s \in Sessions :
      job \in Publications /\ s = job.session /\ EffectOf(s) \in EffectType
  BY <1>1, JobFacts
<1>3. /\ job' = Idle /\ answer' = [answer EXCEPT ![s] = "failed"]
      /\ spilled' = spilled \cup left \cup unknown
      /\ DOMAIN files' = DOMAIN with \cap (DOMAIN with \ (job.made \ left))
      /\ \A i \in DOMAIN files' : files'[i] = with[i]
  BY <1>2 DEF CleanUp, Reply, Removed, Restrict
<1>4. job.made \subseteq DOMAIN files \ DOMAIN rows /\ DOMAIN rows \subseteq DOMAIN files
  BY <1>1 DEF JobIsSound, Contents
<1>5. TypeOK'
  BY <1>1, <1>2, <1>3, <1>4 DEF TypeOK, Idle
<1>6. Contents'
  BY <1>1, <1>3, <1>4 DEF Contents, WorkOf
<1>7. JobIsSound'
  BY <1>3 DEF JobIsSound
<1>8. ResidueIsKnown'
  BY <1>1, <1>3, <1>4 DEF ResidueIsKnown, Idle, None
<1>9. FailuresAreOvertaken'
  <2>0. \A t \in Sessions : answer'[t] # None => outcome'[t] = "running"
    BY <1>1, <1>2, <1>3 DEF FailuresAreOvertaken, JobIsSound, HasEffect, TypeOK
  <2> SUFFICES ASSUME NEW t \in Sessions, Page(t)' \in DOMAIN rows',
                      answer'[t] = "failed" \/ outcome'[t] = "failed"
               PROVE  EffectOf(t)'.kind = "home" /\ home'.page # Page(t)'
    BY <2>0 DEF FailuresAreOvertaken
  <2>1. Page(t)' = Page(t) /\ EffectOf(t)' = EffectOf(t)
    BY SameWork
  <2>2. CASE t = s
    BY <1>1, <1>2, <2>1, <2>2 DEF JobIsSound
  <2>3. CASE t # s
    BY <1>1, <1>3, <2>1, <2>3 DEF FailuresAreOvertaken, TypeOK
  <2>4. QED
    BY <2>2, <2>3
<1>10. QED
  BY <1>1, <1>5, <1>6, <1>7, <1>8, <1>9, SameRows DEF IInv

LEMMA WriteFailsStep ==
  ASSUME IInv, WriteFails
  PROVE  IInv'
<1> DEFINE id == Head(job.todo)
<1>1. /\ up /\ job.at = "rename" /\ job # Idle /\ temps' = temps \ {id}
      /\ UNCHANGED <<up, rows, home, changes, position, outcome>>
  BY DEF WriteFails, Idle, None
<1>2. TypeOK /\ JobIsSound /\ Contents /\ ResidueIsKnown
  BY DEF IInv
<1>3. job.todo # <<>> /\ id \notin DOMAIN files
  BY <1>1, <1>2 DEF JobIsSound
<1>4. id \in Artifacts /\ WorkOf(id) = EffectOf(job.session)
  BY <1>1, <1>2, <1>3, JobFacts DEF Targets
<1>5. temps' = {}
  BY <1>1, <1>2 DEF ResidueIsKnown
<1>6. PICK left \in SUBSET job.made : CleanUp(files, left, {}) \/ CleanUp(WithFile(id), left, {id})
  BY DEF WriteFails
<1>7. CASE CleanUp(files, left, {})
  <2>1. \A i \in DOMAIN files : files[i] = WorkOf(i).body
    BY <1>2 DEF Contents
  <2>2. {} \in SUBSET (Artifacts \ DOMAIN files) /\ DOMAIN files = DOMAIN files \cup {}
    OBVIOUS
  <2>3. QED
    BY <1>1, <1>5, <1>7, <2>1, <2>2, CleanUpStep
<1>8. CASE CleanUp(WithFile(id), left, {id})
  <2>1. /\ DOMAIN WithFile(id) = DOMAIN files \cup {id}
        /\ \A i \in DOMAIN WithFile(id) : WithFile(id)[i] = WorkOf(i).body
    BY <1>2, <1>4 DEF WithFile, Body, Contents
  <2>2. {id} \in SUBSET (Artifacts \ DOMAIN files)
    BY <1>3, <1>4
  <2>3. QED
    BY <1>1, <1>5, <1>8, <2>1, <2>2, CleanUpStep
<1>9. QED
  BY <1>6, <1>7, <1>8

LEMMA RowsFailStep ==
  ASSUME IInv, RowsFail
  PROVE  IInv'
<1>1. /\ up /\ job.at = "store" /\ job # Idle
      /\ UNCHANGED <<up, rows, temps, home, changes, position, outcome>>
  BY DEF RowsFail, Idle, None
<1>2. temps' = {} /\ \A i \in DOMAIN files : files[i] = WorkOf(i).body
  BY <1>1 DEF IInv, ResidueIsKnown, Contents
<1>3. PICK left \in SUBSET job.made : CleanUp(files, left, {})
  BY DEF RowsFail
<1>4. {} \in SUBSET (Artifacts \ DOMAIN files) /\ DOMAIN files = DOMAIN files \cup {}
  OBVIOUS
<1>5. QED
  BY <1>1, <1>2, <1>3, <1>4, CleanUpStep
-----------------------------------------------------------------------------
(* Announcements                                                           *)

Once(new, e) ==
  \E k \in DOMAIN new : /\ new[k].entity = e
                        /\ \A j \in DOMAIN new : new[j].entity = e => j = k

Never(new, e) == \A j \in DOMAIN new : new[j].entity # e

(* What the changes of an entity are after others were appended            *)
LEMMA ChangesAppended ==
  ASSUME changes \in Seq(ChangeType), NEW new \in Seq(ChangeType),
         changes' = changes \o new, NEW e
  PROVE  /\ Never(new, e) => ChangesOf(e)' = ChangesOf(e)
         /\ Once(new, e) => Cardinality(ChangesOf(e)') = Cardinality(ChangesOf(e)) + 1
<1> DEFINE n == Len(changes)
<1>1. /\ n \in Nat /\ DOMAIN changes = 1..n /\ Len(new) \in Nat /\ DOMAIN new = 1..Len(new)
      /\ DOMAIN changes' = 1..(n + Len(new))
      /\ \A i \in 1..n : changes'[i] = changes[i]
      /\ \A i \in (n + 1)..(n + Len(new)) : changes'[i] = new[i - n]
  OBVIOUS
<1>2. IsFiniteSet(ChangesOf(e))
  <2>1. IsFiniteSet(1..n)
    BY <1>1, FS_Interval
  <2>2. ChangesOf(e) \subseteq 1..n
    BY <1>1 DEF ChangesOf
  <2>3. QED
    BY <2>1, <2>2, FS_Subset
<1>3. ASSUME Never(new, e) PROVE ChangesOf(e)' = ChangesOf(e)
  <2>1. \A i \in (n + 1)..(n + Len(new)) : i - n \in DOMAIN new
    BY <1>1
  <2>2. \A i \in (n + 1)..(n + Len(new)) : changes'[i].entity # e
    BY <1>1, <1>3, <2>1 DEF Never
  <2>3. \A i : i \in ChangesOf(e)' <=> i \in 1..(n + Len(new)) /\ changes'[i].entity = e
    BY <1>1 DEF ChangesOf
  <2>4. \A i : i \in ChangesOf(e) <=> i \in 1..n /\ changes[i].entity = e
    BY <1>1 DEF ChangesOf
  <2>5. \A i : i \in 1..(n + Len(new)) <=> i \in 1..n \/ i \in (n + 1)..(n + Len(new))
    BY <1>1
  <2>6. \A i : i \in ChangesOf(e)' <=> i \in ChangesOf(e)
    BY <1>1, <2>2, <2>3, <2>4, <2>5
  <2>7. QED
    BY <2>6
<1>4. ASSUME Once(new, e)
      PROVE  Cardinality(ChangesOf(e)') = Cardinality(ChangesOf(e)) + 1
  <2>1. PICK k \in DOMAIN new :
          new[k].entity = e /\ \A j \in DOMAIN new : new[j].entity = e => j = k
    BY <1>4 DEF Once
  <2>2. \A i : i \in ChangesOf(e)' <=> i \in 1..(n + Len(new)) /\ changes'[i].entity = e
    BY <1>1 DEF ChangesOf
  <2>3. \A i : i \in ChangesOf(e) <=> i \in 1..n /\ changes[i].entity = e
    BY <1>1 DEF ChangesOf
  <2>4. \A i \in (n + 1)..(n + Len(new)) : changes'[i].entity = e <=> i = n + k
    <3> TAKE i \in (n + 1)..(n + Len(new))
    <3>1. i - n \in DOMAIN new /\ changes'[i] = new[i - n]
      BY <1>1
    <3>2. new[i - n].entity = e <=> i - n = k
      BY <2>1, <3>1
    <3>3. i - n = k <=> i = n + k
      BY <1>1, <2>1
    <3>4. QED
      BY <3>1, <3>2, <3>3
  <2>5. /\ \A i : i \in 1..(n + Len(new)) <=> i \in 1..n \/ i \in (n + 1)..(n + Len(new))
        /\ n + k \in (n + 1)..(n + Len(new)) /\ n + k \notin 1..n
    BY <1>1, <2>1
  <2>6. ASSUME NEW i PROVE i \in ChangesOf(e)' <=> i \in ChangesOf(e) \/ i = n + k
    <3>1. CASE i \in 1..n
      BY <1>1, <2>2, <2>3, <2>5, <3>1
    <3>2. CASE i \in (n + 1)..(n + Len(new))
      <4>1. i \notin 1..n
        BY <1>1, <3>2
      <4>2. QED
        BY <2>2, <2>3, <2>4, <2>5, <3>2, <4>1
    <3>3. CASE i \notin 1..n /\ i \notin (n + 1)..(n + Len(new))
      BY <2>2, <2>3, <2>5, <3>3
    <3>4. QED
      BY <3>1, <3>2, <3>3
  <2>7. ChangesOf(e)' = ChangesOf(e) \cup {n + k} /\ n + k \notin ChangesOf(e)
    BY <2>3, <2>5, <2>6
  <2>8. QED
    BY <1>2, <2>7, FS_AddElement
<1>5. QED
  BY <1>3, <1>4

(* A step that announces each row it inserts, and the Project Home with    *)
(* each page of it, keeps rows and announcements together.                 *)
LEMMA RowsInserted ==
  ASSUME changes \in Seq(ChangeType), DOMAIN rows \subseteq Artifacts, RowsAreAnnounced,
         NEW new \in Seq(ChangeType), changes' = changes \o new,
         NEW ids \in SUBSET Artifacts, IsFiniteSet(ids),
         ids \cap DOMAIN rows = {}, DOMAIN rows' = DOMAIN rows \cup ids,
         \A a \in Artifacts : IF a \in ids THEN Once(new, a) ELSE Never(new, a),
         \/ Never(new, Home) /\ \A i \in ids : ~IsHomePage(i)
         \/ Once(new, Home) /\ \E p \in ids : \A i \in ids : IsHomePage(i) <=> i = p
  PROVE  RowsAreAnnounced'
<1> USE DEF RowsAreAnnounced, PublishedOnce
<1>1. IsFiniteSet(DOMAIN rows')
  <2>1. IsFiniteSet(DOMAIN rows \cup ids)
    BY FS_Union
  <2>2. QED
    BY <2>1
<1>2. \A a \in Artifacts : a \notin DOMAIN rows' => ChangesOf(a)' = {}
  BY ChangesAppended
<1>3. \A a \in Artifacts : Cardinality(ChangesOf(a)') <= 1
  <2> TAKE a \in Artifacts
  <2>1. CASE a \in ids
    <3>1. ChangesOf(a) = {}
      BY <2>1
    <3>2. Cardinality(ChangesOf(a)) = 0
      BY <3>1, FS_EmptySet, Zenon
    <3>3. Cardinality(ChangesOf(a)') = Cardinality(ChangesOf(a)) + 1
      BY <2>1, ChangesAppended
    <3>4. QED
      BY <3>2, <3>3
  <2>2. CASE a \notin ids
    <3>1. ChangesOf(a)' = ChangesOf(a)
      BY <2>2, ChangesAppended
    <3>2. QED
      BY <3>1
  <2>3. QED
    BY <2>1, <2>2
<1> DEFINE pages == {a \in DOMAIN rows : IsHomePage(a)}
           pagesAfter == {a \in DOMAIN rows' : IsHomePage(a)}
<1>4. Cardinality(ChangesOf(Home)') = Cardinality(pagesAfter)
  <2>0. IsFiniteSet(pages)
    BY FS_Subset
  <2>1. CASE Never(new, Home) /\ \A i \in ids : ~IsHomePage(i)
    <3>1. ChangesOf(Home)' = ChangesOf(Home)
      BY <2>1, ChangesAppended
    <3>2. pagesAfter = pages
      BY <2>1
    <3>3. QED
      BY <3>1, <3>2, Zenon
  <2>2. CASE Once(new, Home) /\ \E p \in ids : \A i \in ids : IsHomePage(i) <=> i = p
    <3>1. PICK p \in ids : \A i \in ids : IsHomePage(i) <=> i = p
      BY <2>2
    <3>2. pagesAfter = pages \cup {p} /\ p \notin pages
      BY <3>1
    <3>3. Cardinality(pages \cup {p}) = Cardinality(pages) + 1
      BY <2>0, <3>2, FS_AddElement
    <3>4. Cardinality(ChangesOf(Home)') = Cardinality(ChangesOf(Home)) + 1
      BY <2>2, ChangesAppended
    <3>5. Cardinality(ChangesOf(Home)) = Cardinality(pages)
      BY Zenon
    <3>6. QED
      BY <3>2, <3>3, <3>4, <3>5, Zenon
  <2>3. QED
    BY <2>1, <2>2
<1>5. Cardinality(ChangesOf(Home)') = Cardinality({a \in DOMAIN rows : IsHomePage(a)}')
  BY <1>4 DEF IsHomePage
<1>6. QED
  BY <1>1, <1>2, <1>3, <1>5
-----------------------------------------------------------------------------
(* Commits                                                                 *)

LEMMA PublishStep ==
  ASSUME IInv, up, job # Idle, job.at = "store", job.todo = <<>>,
         UNCHANGED <<up, files, temps, spilled, position, outcome>>,
         NEW s \in Sessions, s = job.session,
         NEW ids, ids = Targets(s), InsertRows(ids), ids \cap DOMAIN rows = {},
         home' = IF EffectOf(s).kind = "home" THEN [page |-> Page(s), body |-> Body] ELSE home,
         NEW new \in Seq(ChangeType), changes' = changes \o new,
         \A a \in Artifacts : IF a \in ids THEN Once(new, a) ELSE Never(new, a),
         IF EffectOf(s).kind = "home" THEN Once(new, Home) ELSE Never(new, Home),
         Reply(s, "ok")
  PROVE  IInv'
<1>1. TypeOK /\ JobIsSound /\ Contents /\ ResidueIsKnown /\ FailuresAreOvertaken /\ RowsAreAnnounced
  BY DEF IInv
<1>2. /\ position[s] \in DOMAIN Works[s] /\ EffectOf(s) \in EffectType
      /\ Page(s) \in Artifacts /\ Source(s) \in Artifacts /\ Page(s) # Source(s)
      /\ WorkOf(Page(s)) = EffectOf(s) /\ WorkOf(Source(s)) = EffectOf(s)
  BY <1>1, JobFacts
<1>3. /\ ids \in SUBSET Artifacts /\ Page(s) \in ids /\ ids \subseteq {Page(s), Source(s)}
      /\ IsFiniteSet(ids)
  <2>1. IsFiniteSet({Page(s)}) /\ IsFiniteSet({Source(s), Page(s)})
    <3>1. \A x : IsFiniteSet({x})
      BY FS_Singleton
    <3>2. IsFiniteSet({Source(s)} \cup {Page(s)})
      BY <3>1, FS_AddElement
    <3>3. {Source(s), Page(s)} = {Source(s)} \cup {Page(s)}
      OBVIOUS
    <3>4. QED
      BY <3>1, <3>2, <3>3
  <2>2. QED
    BY <1>2, <2>1 DEF Targets
<1>4. DOMAIN rows' = DOMAIN rows \cup ids
      /\ \A i \in DOMAIN rows' : rows'[i] = IF i \in ids THEN Body ELSE rows[i]
  BY DEF InsertRows
<1>5. job' = Idle /\ answer' = [answer EXCEPT ![s] = "ok"]
  BY DEF Reply
<1>6. /\ outcome[s] = "running" /\ EffectOf(s).valid
      /\ ids \subseteq DOMAIN files /\ job.made \subseteq ids
  BY <1>1, <1>2 DEF JobIsSound, HasEffect, Targets
<1>7. TypeOK'
  <2>1. changes' \in Seq(ChangeType)
    BY <1>1 DEF TypeOK
  <2>2. home' \in HomeType
    BY <1>1, <1>2 DEF TypeOK, HomeType, EffectType, Body
  <2>3. QED
    BY <1>1, <1>3, <1>4, <1>5, <2>1, <2>2 DEF TypeOK
<1>8. Contents'
  <2>1. \A i \in DOMAIN rows' : rows'[i] = WorkOf(i).body /\ WorkOf(i).valid
    BY <1>1, <1>2, <1>3, <1>4, <1>6 DEF Contents, Body
  <2>2. home' # NoHome => home'.page \in DOMAIN rows' /\ home'.body = WorkOf(home'.page).body
    BY <1>1, <1>2, <1>3, <1>4 DEF Contents, Body
  <2>3. QED
    BY <1>1, <1>4, <1>6, <2>1, <2>2 DEF Contents, WorkOf
<1>9. JobIsSound'
  BY <1>5 DEF JobIsSound
<1>10. ResidueIsKnown'
  BY <1>1, <1>4, <1>5, <1>6 DEF ResidueIsKnown, Idle, None
<1>11. FailuresAreOvertaken'
  <2>0. \A t \in Sessions : answer'[t] # None => outcome'[t] = "running"
    BY <1>1, <1>5, <1>6 DEF FailuresAreOvertaken, TypeOK
  <2> SUFFICES ASSUME NEW t \in Sessions, Page(t)' \in DOMAIN rows',
                      answer'[t] = "failed" \/ outcome'[t] = "failed"
               PROVE  EffectOf(t)'.kind = "home" /\ home'.page # Page(t)'
    BY <2>0 DEF FailuresAreOvertaken
  <2>1. Page(t)' = Page(t) /\ EffectOf(t)' = EffectOf(t)
    BY SameWork
  <2>2. t # s /\ (answer[t] = "failed" \/ outcome[t] = "failed")
    BY <1>1, <1>5, <1>6 DEF TypeOK
  <2>3. Page(t) # Page(s) /\ Page(t) # Source(s)
    BY <2>2 DEF Page, Source, PageOf, SourceOf
  <2>4. Page(t) \in DOMAIN rows
    BY <1>3, <1>4, <2>1, <2>3
  <2>5. EffectOf(t).kind = "home" /\ home.page # Page(t)
    BY <1>1, <2>2, <2>4 DEF FailuresAreOvertaken
  <2>6. QED
    BY <2>1, <2>3, <2>5
<1>12. RowsAreAnnounced'
  <2>1. /\ IsHomePage(Page(s)) <=> EffectOf(s).kind = "home"
        /\ ~IsHomePage(Source(s))
    BY <1>2, Identities DEF Page, Source, EffectOf
  <2>2. \/ Never(new, Home) /\ \A i \in ids : ~IsHomePage(i)
        \/ Once(new, Home) /\ \E p \in ids : \A i \in ids : IsHomePage(i) <=> i = p
    BY <1>2, <1>3, <2>1
  <2>3. changes \in Seq(ChangeType) /\ DOMAIN rows \subseteq Artifacts
    BY <1>1 DEF TypeOK
  <2>4. RowsAreAnnounced /\ ids \in SUBSET Artifacts /\ IsFiniteSet(ids)
        /\ DOMAIN rows' = DOMAIN rows \cup ids
    BY <1>1, <1>3, <1>4
  <2>5. QED
    BY <2>2, <2>3, <2>4, RowsInserted
<1>13. QED
  BY <1>7, <1>8, <1>9, <1>10, <1>11, <1>12 DEF IInv

LEMMA InsertArtifactStep ==
  ASSUME IInv, InsertArtifact
  PROVE  IInv'
<1>1. /\ up /\ job.at = "store" /\ job.todo = <<>> /\ job # Idle
      /\ EffectOf(job.session).kind = "artifact"
      /\ UNCHANGED <<up, files, temps, home, spilled, position, outcome>>
  BY DEF InsertArtifact, Ready, Idle, None
<1>2. TypeOK /\ JobIsSound
  BY DEF IInv
<1>3. PICK s \in Sessions : s = job.session /\ Page(s) \in Artifacts
  BY <1>1, <1>2, JobFacts
<1>4. PICK a : a = Page(s)
  OBVIOUS
<1>5. PICK new : new = <<Change(a, s)>>
  OBVIOUS
<1>6. new \in Seq(ChangeType) /\ DOMAIN new = {1} /\ new[1].entity = a
  BY <1>3, <1>4, <1>5 DEF ChangeType, Change
<1>7. changes' = changes \o new /\ Reply(s, "ok") /\ InsertRows({a})
  <2>1. changes \in Seq(ChangeType)
    BY <1>2 DEF TypeOK
  <2>2. changes' = Append(changes, Change(a, s)) /\ Reply(s, "ok") /\ InsertRows({a})
    BY <1>3, <1>4 DEF InsertArtifact
  <2>3. QED
    BY <1>5, <2>1, <2>2
<1>8. {a} = Targets(s) /\ {a} \cap DOMAIN rows = {}
  BY <1>1, <1>2, <1>3, <1>4 DEF Targets, JobIsSound
<1>9. /\ \A i \in Artifacts : IF i \in {a} THEN Once(new, i) ELSE Never(new, i)
      /\ Never(new, Home)
  BY <1>3, <1>4, <1>6, ArtifactsAreApart DEF Once, Never
<1>10. QED
  BY <1>1, <1>3, <1>6, <1>7, <1>8, <1>9, PublishStep

LEMMA CommitHomeStep ==
  ASSUME IInv, CommitHome
  PROVE  IInv'
<1>1. /\ up /\ job.at = "store" /\ job.todo = <<>> /\ job # Idle
      /\ EffectOf(job.session).kind = "home"
      /\ UNCHANGED <<up, position, outcome>>
  BY DEF CommitHome, Ready, Idle, None
<1>2. TypeOK /\ JobIsSound /\ Contents /\ ResidueIsKnown
  BY DEF IInv
<1>3. PICK s \in Sessions : /\ s = job.session /\ Page(s) # Source(s)
                            /\ Page(s) \in Artifacts /\ Source(s) \in Artifacts
  BY <1>1, <1>2, JobFacts
<1>4. CASE home = job.base /\ KeysAreFree(s)
  <2>1. PICK a, b, ids : a = Source(s) /\ b = Page(s) /\ ids = {b, a}
    OBVIOUS
  <2>2. PICK new : new = <<Change(a, s), Change(b, s), Change(Home, s)>>
    OBVIOUS
  <2>3. /\ new \in Seq(ChangeType) /\ DOMAIN new = {1, 2, 3}
        /\ new[1].entity = a /\ new[2].entity = b /\ new[3].entity = Home
    BY <1>3, <2>1, <2>2 DEF ChangeType, Change
  <2>4. /\ changes' = changes \o new /\ Reply(s, "ok") /\ InsertRows(ids)
        /\ home' = [page |-> Page(s), body |-> Body]
        /\ UNCHANGED <<files, temps, spilled>>
    BY <1>3, <1>4, <2>1, <2>2 DEF CommitHome
  <2>5. ids = Targets(s) /\ ids \cap DOMAIN rows = {}
    BY <1>1, <1>3, <1>4, <2>1 DEF Targets, KeysAreFree
  <2>6. Home # a /\ Home # b
    BY <1>3, <2>1, ArtifactsAreApart
  <2>7. /\ \A i \in Artifacts : IF i \in ids THEN Once(new, i) ELSE Never(new, i)
        /\ Once(new, Home)
    BY <1>3, <2>1, <2>3, <2>6, ArtifactsAreApart DEF Once, Never
  <2>8. QED
    BY <1>1, <1>3, <2>3, <2>4, <2>5, <2>7, PublishStep
<1>5. CASE ~(home = job.base /\ KeysAreFree(s))
  <2>1. CleanUp(files, {}, {}) /\ UNCHANGED <<rows, temps, home, changes>>
    BY <1>3, <1>5 DEF CommitHome
  <2>2. temps' = {} /\ \A i \in DOMAIN files : files[i] = WorkOf(i).body
    BY <1>1, <1>2, <2>1 DEF ResidueIsKnown, Contents
  <2>3. {} \in SUBSET (Artifacts \ DOMAIN files) /\ DOMAIN files = DOMAIN files \cup {}
    OBVIOUS
  <2>4. {} \in SUBSET job.made
    OBVIOUS
  <2>5. QED
    BY <1>1, <2>1, <2>2, <2>3, <2>4, CleanUpStep
<1>6. QED
  BY <1>4, <1>5
-----------------------------------------------------------------------------
(* Answers, crashes and reads                                              *)

(* Between jobs, steps that leave the disk alone keep what is said of it.  *)
LEMMA SameDisk ==
  ASSUME IInv, UNCHANGED <<rows, files, temps, home, changes, spilled>>,
         job' = Idle, job = Idle, UNCHANGED up
  PROVE  Contents' /\ JobIsSound' /\ ResidueIsKnown' /\ RowsAreAnnounced'
<1>1. Contents /\ RowsAreAnnounced /\ ResidueIsKnown
  BY DEF IInv
<1>2. JobIsSound' /\ ResidueIsKnown'
  BY <1>1 DEF JobIsSound, ResidueIsKnown, Idle, None
<1>3. QED
  BY <1>1, <1>2, SameRows, SameContents

LEMMA FinishStep ==
  ASSUME IInv, NEW s \in Sessions, Finish(s)
  PROVE  IInv'
<1>1. /\ up /\ job = Idle /\ job' = Idle /\ answer[s] # None
      /\ UNCHANGED <<up, rows, files, temps, home, changes, spilled>>
      /\ answer' = [answer EXCEPT ![s] = None]
  BY DEF Finish, Quiet, disk
<1>2. TypeOK /\ FailuresAreOvertaken
  BY DEF IInv
<1>3. outcome[s] = "running"
  BY <1>1, <1>2 DEF FailuresAreOvertaken
<1>4. \A t \in Sessions \ {s} : /\ outcome'[t] = outcome[t] /\ position'[t] = position[t]
                               /\ answer'[t] = answer[t]
  BY <1>1, <1>2 DEF Finish, TypeOK
<1>5. answer'[s] = None
  BY <1>1, <1>2 DEF TypeOK
<1>6. \/ position' = [position EXCEPT ![s] = @ + 1] /\ UNCHANGED outcome
      \/ /\ answer[s] = "failed" /\ UNCHANGED position
         /\ outcome' = [outcome EXCEPT ![s] = "failed"]
  BY <1>1, <1>2 DEF Finish, TypeOK
<1>7. TypeOK'
  <2>1. position' \in [Sessions -> Nat \ {0}] /\ outcome' \in [Sessions -> {"running", "failed"}]
    BY <1>2, <1>6 DEF TypeOK
  <2>2. answer' \in [Sessions -> {None, "ok", "failed"}]
    BY <1>1, <1>2 DEF TypeOK
  <2>3. QED
    BY <1>1, <1>2, <2>1, <2>2 DEF TypeOK
<1>8. FailuresAreOvertaken'
  <2>1. ASSUME NEW t \in Sessions, t # s
        PROVE  Page(t)' = Page(t) /\ EffectOf(t)' = EffectOf(t)
    BY <1>4, <2>1 DEF Page, EffectOf
  <2>2. outcome'[s] = "failed" =>
          /\ answer[s] = "failed" /\ Page(s)' = Page(s) /\ EffectOf(s)' = EffectOf(s)
    BY <1>3, <1>6 DEF Page, EffectOf
  <2>3. QED
    BY <1>1, <1>2, <1>4, <1>5, <2>1, <2>2 DEF FailuresAreOvertaken, None
<1>9. QED
  BY <1>1, <1>7, <1>8, SameDisk DEF IInv

LEMMA AnswerDroppedStep ==
  ASSUME IInv, NEW s \in Sessions, AnswerDropped(s)
  PROVE  IInv'
<1>1. /\ answer[s] # None /\ answer' = [answer EXCEPT ![s] = None]
      /\ UNCHANGED <<up, rows, files, temps, home, changes, spilled, job, position, outcome>>
  BY DEF AnswerDropped, disk
<1>2. TypeOK /\ JobIsSound /\ Contents /\ ResidueIsKnown /\ FailuresAreOvertaken /\ RowsAreAnnounced
  BY DEF IInv
<1>3. \A t \in Sessions : answer'[t] = answer[t] \/ answer'[t] = None
  BY <1>1, <1>2 DEF TypeOK
<1>4. TypeOK'
  BY <1>1, <1>2 DEF TypeOK
<1>5. FailuresAreOvertaken'
  BY <1>1, <1>2, <1>3, SameWork DEF FailuresAreOvertaken, None
<1>6. JobIsSound'
  <2> SUFFICES ASSUME job # Idle PROVE JobIsSound'
    BY <1>1 DEF JobIsSound
  <2>1. PICK t \in Sessions : t = job.session
    BY <1>2, JobFacts
  <2>2. /\ Page(t)' = Page(t) /\ Source(t)' = Source(t) /\ EffectOf(t)' = EffectOf(t)
        /\ ToDo(t)' = ToDo(t) /\ Targets(t)' = Targets(t) /\ HasEffect(t)' = HasEffect(t)
    BY <1>1, SameWork DEF HasEffect
  <2>3. QED
    BY <1>1, <1>2, <1>3, <2>1, <2>2 DEF JobIsSound
<1>7. ResidueIsKnown'
  BY <1>1, <1>2 DEF ResidueIsKnown
<1>8. QED
  BY <1>1, <1>2, <1>4, <1>5, <1>6, <1>7, SameRows, SameContents DEF IInv

LEMMA CrashStep ==
  ASSUME IInv, Crash
  PROVE  IInv'
<1>1. /\ ~up' /\ job' = Idle /\ answer' = [s \in Sessions |-> None]
      /\ UNCHANGED <<rows, files, temps, home, changes, spilled, position, outcome>>
  BY DEF Crash, disk
<1>2. TypeOK /\ Contents /\ FailuresAreOvertaken /\ RowsAreAnnounced
  BY DEF IInv
<1>3. TypeOK'
  BY <1>1, <1>2 DEF TypeOK, Crash
<1>4. FailuresAreOvertaken'
  BY <1>1, <1>2, SameWork DEF FailuresAreOvertaken, None
<1>5. JobIsSound' /\ ResidueIsKnown'
  BY <1>1 DEF JobIsSound, ResidueIsKnown
<1>6. QED
  BY <1>1, <1>2, <1>3, <1>4, <1>5, SameRows, SameContents DEF IInv

LEMMA RecoverStep ==
  ASSUME IInv, Recover
  PROVE  IInv'
<1>1. /\ ~up /\ up' = TRUE /\ files' = Restrict(files, DOMAIN rows)
      /\ temps' = {} /\ spilled' = {}
      /\ UNCHANGED <<rows, home, changes, position, answer, outcome, job>>
  BY DEF Recover, work
<1>2. TypeOK /\ JobIsSound /\ Contents /\ FailuresAreOvertaken /\ RowsAreAnnounced
  BY DEF IInv
<1>3. job = Idle
  BY <1>1, <1>2 DEF JobIsSound
<1>4. DOMAIN files' = DOMAIN rows /\ \A i \in DOMAIN files' : files'[i] = files[i]
  BY <1>1, <1>2 DEF Restrict, Contents
<1>5. TypeOK'
  BY <1>1, <1>2, <1>4 DEF TypeOK
<1>6. Contents'
  BY <1>1, <1>2, <1>4 DEF Contents, WorkOf
<1>7. JobIsSound' /\ ResidueIsKnown'
  BY <1>1, <1>3, <1>4 DEF JobIsSound, ResidueIsKnown, Idle, None
<1>8. FailuresAreOvertaken'
  BY <1>1, <1>2, SameWork DEF FailuresAreOvertaken
<1>9. QED
  BY <1>1, <1>2, <1>5, <1>6, <1>7, <1>8, SameRows DEF IInv

LEMMA TouchStep ==
  ASSUME IInv, NEW x \in Records, Touch(x)
  PROVE  IInv'
<1>1. /\ job = Idle /\ job' = Idle
      /\ UNCHANGED <<up, rows, files, temps, home, spilled, position, answer, outcome>>
      /\ changes' = Append(changes, Change(Row(x), Owner[x]))
  BY DEF Touch, Quiet, work
<1>2. TypeOK /\ Contents /\ ResidueIsKnown /\ FailuresAreOvertaken /\ RowsAreAnnounced
  BY DEF IInv
<1>3. PICK new : new = <<Change(Row(x), Owner[x])>>
  OBVIOUS
<1>4. Row(x) \in Rows /\ Owner[x] \in Sessions \cup {NoSession}
  BY KnowledgeAssumption DEF Rows
<1>5. new \in Seq(ChangeType) /\ DOMAIN new = {1} /\ new[1].entity = Row(x)
  BY <1>3, <1>4 DEF ChangeType, Change
<1>6. changes \in Seq(ChangeType) /\ changes' = changes \o new
  BY <1>1, <1>2, <1>3 DEF TypeOK
<1>7. TypeOK'
  BY <1>1, <1>2, <1>5, <1>6 DEF TypeOK
<1>8. RowsAreAnnounced'
  <2>1. (\A a \in Artifacts : Never(new, a)) /\ Never(new, Home)
    BY <1>4, <1>5, ArtifactsAreApart DEF Never
  <2>2. /\ {} \in SUBSET Artifacts /\ IsFiniteSet({}) /\ {} \cap DOMAIN rows = {}
        /\ DOMAIN rows' = DOMAIN rows \cup {} /\ DOMAIN rows \subseteq Artifacts
    BY <1>1, <1>2, FS_EmptySet DEF TypeOK
  <2>3. QED
    BY <1>2, <1>5, <1>6, <2>1, <2>2, RowsInserted
<1>9. FailuresAreOvertaken'
  BY <1>1, <1>2, SameWork DEF FailuresAreOvertaken
<1>10. Contents' /\ JobIsSound' /\ ResidueIsKnown'
  BY <1>1, <1>2, SameContents DEF JobIsSound, ResidueIsKnown
<1>11. QED
  BY <1>7, <1>8, <1>9, <1>10 DEF IInv

(* Reading a page, like a step that changes nothing, leaves all of it      *)
(* alone.                                                                  *)
LEMMA ReadStep ==
  ASSUME IInv, UNCHANGED <<up, disk, work, job>>
  PROVE  IInv'
<1>1. UNCHANGED <<up, rows, files, temps, home, changes, spilled, position, answer, outcome, job>>
  BY DEF disk, work
<1>2. TypeOK /\ JobIsSound /\ Contents /\ ResidueIsKnown /\ FailuresAreOvertaken /\ RowsAreAnnounced
  BY DEF IInv
<1>3. TypeOK'
  BY <1>1, <1>2 DEF TypeOK
<1>4. JobIsSound' /\ ResidueIsKnown'
  BY <1>1, <1>2 DEF JobIsSound, ResidueIsKnown, HasEffect, Page, Source, EffectOf, ToDo, Targets
<1>5. FailuresAreOvertaken'
  BY <1>1, <1>2, SameWork DEF FailuresAreOvertaken
<1>6. QED
  BY <1>1, <1>2, <1>3, <1>4, <1>5, SameRows, SameContents DEF IInv
-----------------------------------------------------------------------------
(* Every step keeps the invariant.                                         *)
LEMMA NextStep ==
  ASSUME IInv, [Next]_vars
  PROVE  IInv'
<1>1. CASE \E s \in Sessions : Dispatch(s) \/ Finish(s) \/ AnswerDropped(s)
  BY <1>1, DispatchStep, FinishStep, AnswerDroppedStep
<1>2. CASE StoreStep
  BY <1>2, StoreFileStep, RenameStep, InsertArtifactStep, CommitHomeStep DEF StoreStep
<1>3. CASE WriteFails \/ RowsFail
  BY <1>3, WriteFailsStep, RowsFailStep
<1>4. CASE Crash \/ Recover
  BY <1>4, CrashStep, RecoverStep
<1>5. CASE \E x \in Records : Touch(x)
  BY <1>5, TouchStep
<1>6. CASE \E r \in Readers : ReadOn(r) \/ ReadAgain(r)
  BY <1>6, ReadStep DEF ReadOn, ReadAgain, ReadPage
<1>7. CASE UNCHANGED vars
  BY <1>7, ReadStep DEF vars
<1>8. QED
  BY <1>1, <1>2, <1>3, <1>4, <1>5, <1>6, <1>7 DEF Next

(* Files, rows, publications under way, failures and announcements stay in *)
(* step with each other, whatever is published and whatever fails.         *)
THEOREM Invariance == Spec => []IInv
<1>1. Init => IInv
  BY InitStep
<1>2. IInv /\ [Next]_vars => IInv'
  BY NextStep
<1>3. QED
  BY <1>1, <1>2, PTL DEF Spec

(* Whatever fails and whenever the process stops, every row of an Artifact *)
(* has its file, the Project Home names a row with its content, and a      *)
(* running Project that is between jobs has no file that is not accounted  *)
(* for (artifact.rs, project_home.rs, reconcile_artifacts).                *)
THEOREM RowsAndFilesAgree == Spec => []DiskMatchesRows
<1>1. IInv => DiskMatchesRows
  <2> SUFFICES ASSUME IInv PROVE DiskMatchesRows
    OBVIOUS
  <2>1. Contents /\ ResidueIsKnown
    BY DEF IInv
  <2>2. RowsHaveTheirFiles
    BY <2>1 DEF RowsHaveTheirFiles, Contents
  <2>3. FilesAreAccounted
    BY <2>1 DEF FilesAreAccounted, ResidueIsKnown, Quiet, Idle, None
  <2>4. QED
    BY <2>2, <2>3 DEF DiskMatchesRows
<1>2. QED
  BY <1>1, Invariance, PTL

(* However often effects are replayed, an Artifact is announced at most    *)
(* once and each page becomes the Project Home exactly once                *)
(* (commit_project_home, create_artifact_with_id and their triggers).      *)
THEOREM ReplaysAnnounceNothing == Spec => []PublishedOnce
<1>1. IInv => PublishedOnce
  BY DEF IInv, RowsAreAnnounced
<1>2. QED
  BY <1>1, Invariance, PTL

(* A Session fails over a publication that is in the Store only when it is *)
(* a page that is not the current one any more (publish_project_home).     *)
THEOREM FailuresAreDeserved == Spec => []OnlyOvertakenWorkIsDisowned
<1>1. IInv => OnlyOvertakenWorkIsDisowned
  BY DEF IInv, FailuresAreOvertaken, OnlyOvertakenWorkIsDisowned
<1>2. QED
  BY <1>1, Invariance, PTL
-----------------------------------------------------------------------------
(* Least and greatest numbers                                              *)
LEMMA MinIs ==
  ASSUME NEW T, T \subseteq Nat, T # {}
  PROVE  Min(T) \in T /\ \A m \in T : Min(T) <= m
<1> DEFINE R == {ss \in Nat \X Nat : ss[1] < ss[2]}
<1>1. IsWellFoundedOn(R, Nat)
  BY NatLessThanWellFounded DEF OpToRel
<1>2. PICK n \in T : \A m \in T : ~(<<m, n>> \in R)
  <2> HIDE DEF R
  <2> QED BY <1>1, WFMin
<1>3. ASSUME NEW m \in T PROVE n <= m
  <2>1. SUFFICES ASSUME ~(n <= m) PROVE FALSE
    OBVIOUS
  <2>2. <<m, n>> \in Nat \X Nat /\ m < n
    BY <2>1, SMT
  <2>3. <<m, n>>[1] = m /\ <<m, n>>[2] = n
    OBVIOUS
  <2>4. <<m, n>> \in R
    BY <2>2, <2>3
  <2> HIDE DEF R
  <2> QED BY <1>2, <2>4
<1> QED BY <1>3 DEF Min

LEMMA MaxIs ==
  ASSUME NEW N \in Nat, NEW T, T \subseteq 0..N, T # {}
  PROVE  Max(T) \in T /\ \A m \in T : m <= Max(T)
<1> DEFINE U == {N - n : n \in T}
<1>1. U \subseteq Nat /\ U # {}
  <2>1. \A n \in T : N - n \in Nat
    BY SMT
  <2> QED BY <2>1
<1>2. PICK u \in U : \A m \in U : u <= m
  <2> HIDE DEF U
  <2> QED BY <1>1, MinIs
<1>3. PICK x \in T : u = N - x
  BY <1>2
<1>4. ASSUME NEW y \in T PROVE x >= y
  <2>1. N - y \in U
    OBVIOUS
  <2>2. N - x <= N - y
    BY <1>2, <1>3, <2>1
  <2>3. x \in 0..N /\ y \in 0..N
    OBVIOUS
  <2> QED BY <2>2, <2>3, SMT
<1>5. Max(T) \in T /\ \A y \in T : Max(T) >= y
  BY <1>3, <1>4 DEF Max
<1> QED BY <1>5, SMT

(* What a change is about, and how large its snapshot is                   *)
LEMMA WorkIsTyped == \A a \in Artifacts : WorkOf(a) \in EffectType
<1> SUFFICES ASSUME NEW a \in Artifacts PROVE WorkOf(a) \in EffectType
  OBVIOUS
<1>1. PICK e \in Effects : a = PageOf(e[1], e[2]) \/ a = SourceOf(e[1], e[2])
  BY DEF Artifacts
<1>2. PICK s \in Sessions : \E k \in DOMAIN Works[s] : e = <<s, k>>
  BY <1>1 DEF Effects
<1>3. PICK k \in DOMAIN Works[s] : e = <<s, k>>
  BY <1>2
<1>4. a = PageOf(s, k) \/ a = SourceOf(s, k)
  BY <1>1, <1>3
<1> QED BY <1>4, Identities

Tells(i) == changes[i].entity

LEMMA EntityIs ==
  ASSUME IInv, NEW i \in DOMAIN changes
  PROVE  /\ Tells(i) \in Rows \cup Artifacts \cup {Home}
         /\ Tells(i) # NoArtifact
         /\ Tells(i) \in Artifacts => /\ Tells(i) \in DOMAIN rows
                                      /\ rows[Tells(i)] \in Bodies
                                      /\ Length[rows[Tells(i)]] \in Nat
                                      /\ Details[Tells(i)] \in Nat \ {0}
         /\ Tells(i) \in Rows => RecordSize[Tells(i).role] \in Nat \ {0}
         /\ Tells(i) \in Rows => Tells(i) \notin Artifacts
<1>1. changes[i] \in ChangeType
  BY DEF IInv, TypeOK
<1>2. Tells(i) \in Rows \cup Artifacts \cup {Home}
  BY <1>1 DEF ChangeType, Tells
<1>3. ASSUME Tells(i) \in Artifacts
      PROVE  /\ Tells(i) \in DOMAIN rows
             /\ rows[Tells(i)] \in Bodies
             /\ Length[rows[Tells(i)]] \in Nat
             /\ Details[Tells(i)] \in Nat \ {0}
  <2>1. i \in ChangesOf(Tells(i))
    BY DEF ChangesOf, Tells
  <2>2. Tells(i) \in DOMAIN rows
    BY <1>3, <2>1 DEF IInv, RowsAreAnnounced
  <2>3. rows[Tells(i)] = WorkOf(Tells(i)).body
    BY <2>2 DEF IInv, Contents
  <2>4. rows[Tells(i)] \in Bodies
    BY <1>3, <2>3, WorkIsTyped DEF EffectType
  <2> QED BY <1>3, <2>2, <2>4, KnowledgeAssumption
<1>4. ASSUME Tells(i) \in Rows
      PROVE  RecordSize[Tells(i).role] \in Nat \ {0} /\ Tells(i) \notin Artifacts
  <2>1. PICK x \in Records : Tells(i) = Row(x)
    BY <1>4 DEF Rows
  <2>2. Tells(i).role = x
    BY <2>1 DEF Row
  <2> QED BY <1>4, <2>2, KnowledgeAssumption, ArtifactsAreApart
<1>5. Tells(i) # NoArtifact
  <2>1. NoArtifact \notin Artifacts
    BY ArtifactsAreApart
  <2>2. NoArtifact # Home
    BY DEF NoArtifact, Home, None
  <2>3. ASSUME NEW x \in Records PROVE Row(x) # NoArtifact
    BY KnowledgeAssumption DEF Row, NoArtifact
  <2> QED BY <1>2, <2>1, <2>2, <2>3 DEF Rows
<1> QED BY <1>2, <1>3, <1>4, <1>5

LEMMA SizeIs ==
  ASSUME IInv, NEW i \in DOMAIN changes
  PROVE  /\ Size(i) \in Nat \ {0}
         /\ Tells(i) \in Artifacts /\ IsTextual(Tells(i))
              => Size(i) = Details[Tells(i)] + Length[rows[Tells(i)]]
<1>1. CASE Tells(i) \in Rows
  BY <1>1, EntityIs DEF Size, Tells
<1>2. CASE Tells(i) \notin Rows /\ Tells(i) \in Artifacts
  <2>1. Size(i) = Details[Tells(i)]
                    + (IF IsTextual(Tells(i)) THEN Length[rows[Tells(i)]] ELSE 0)
    BY <1>2 DEF Size, Tells
  <2>2. Details[Tells(i)] \in Nat \ {0} /\ Length[rows[Tells(i)]] \in Nat
    BY <1>2, EntityIs
  <2> QED BY <1>2, <2>1, <2>2
<1>3. CASE Tells(i) \notin Rows /\ Tells(i) \notin Artifacts
  BY <1>3 DEF Size, Tells
<1> QED BY <1>1, <1>2, <1>3

(* Where a page of a text ends                                             *)
LEMMA PieceEndIs ==
  ASSUME NEW id \in Artifacts, Length[rows[id]] \in Nat, NEW offset \in Nat,
         offset <= Length[rows[id]]
  PROVE  /\ PieceEnd(id, offset) \in Nat /\ offset <= PieceEnd(id, offset)
         /\ PieceEnd(id, offset) <= Length[rows[id]]
         /\ NoRoom(id, offset) <=> offset < Length[rows[id]] /\ PageRoom <= Details[id]
<1>1. PICK len \in Nat : len = Length[rows[id]]
  OBVIOUS
<1>2. PICK room \in Nat : room = Room(id) /\ (room = 0 <=> PageRoom <= Details[id])
  <2>1. PICK size \in Nat : size = PageRoom
    BY KnowledgeAssumption
  <2>2. PICK rest \in Nat : rest = Details[id]
    BY KnowledgeAssumption
  <2>3. Room(id) = IF rest < size THEN size - rest ELSE 0
    BY <2>1, <2>2 DEF Room
  <2>4. Room(id) \in Nat /\ (Room(id) = 0 <=> size <= rest)
    BY <2>3
  <2> QED BY <2>1, <2>2, <2>4
<1>3. PieceEnd(id, offset) = IF len < offset + room THEN len ELSE offset + room
  BY <1>1, <1>2 DEF PieceEnd, Lesser
<1>4. /\ PieceEnd(id, offset) \in Nat /\ offset <= PieceEnd(id, offset)
      /\ PieceEnd(id, offset) <= len
      /\ offset < len /\ PieceEnd(id, offset) = offset <=> offset < len /\ room = 0
  BY <1>1, <1>3
<1> QED BY <1>1, <1>2, <1>4 DEF NoRoom

(* A visible change of a batch has one in it that is shown for it.         *)
LEMMA LatestIs ==
  ASSUME changes \in Seq(ChangeType), NEW r, NEW from \in Nat
  PROVE  /\ Latest(r, from) \subseteq Batch(from)
         /\ Batch(from) \subseteq DOMAIN changes
         /\ \A l \in Latest(r, from) : Visible(r, l)
         /\ \A i \in Batch(from) :
              Visible(r, i) => \E l \in Latest(r, from) : l >= i /\ Tells(l) = Tells(i)
<1>1. Captured \in Nat /\ DOMAIN changes = 1..Captured
  BY DEF Captured
<1>2. BatchLimit \in Nat \ {0}
  BY KnowledgeAssumption
<1>3. Lesser(from + BatchLimit, Captured) \in Nat /\ Lesser(from + BatchLimit, Captured) <= Captured
  BY <1>1, <1>2 DEF Lesser
<1>4. Batch(from) \subseteq DOMAIN changes
  BY <1>1, <1>3 DEF Batch
<1>5. ASSUME NEW i \in Batch(from), Visible(r, i)
      PROVE  \E l \in Latest(r, from) : l >= i /\ Tells(l) = Tells(i)
  <2> DEFINE T == {j \in Batch(from) : j >= i /\ Visible(r, j) /\ Tells(j) = Tells(i)}
  <2>1. T \subseteq 0..Captured
    BY <1>1, <1>4
  <2>2. i \in Nat /\ i \in T
    BY <1>1, <1>4, <1>5
  <2>3. PICK l \in T : \A m \in T : m <= l
    <3> HIDE DEF T
    <3> QED BY <1>1, <2>1, <2>2, MaxIs
  <2>4. ASSUME NEW j \in Batch(from), j > l, Visible(r, j), Tells(j) = Tells(l)
        PROVE  FALSE
    <3>1. j \in Nat /\ l \in Nat /\ l >= i
      BY <1>1, <1>4
    <3>2. j >= i
      BY <2>2, <2>4, <3>1
    <3>3. j \in T
      BY <2>4, <3>2
    <3> QED BY <2>3, <2>4, <3>1, <3>3
  <2>5. l \in Latest(r, from)
    BY <2>4 DEF Latest, Tells
  <2> QED BY <2>5
<1> QED BY <1>4, <1>5 DEF Latest

(* Stepping from a by whole batches of b towards f, the last step that      *)
(* stays below f has f within its batch.                                    *)
LEMMA WholeBatches ==
  ASSUME NEW a \in Nat, NEW f \in Nat, NEW g \in Nat, NEW b \in Nat \ {0},
         NEW p \in 0..(b - 1), p <= g, g = f - 1 - a
  PROVE  /\ a + g - p \in Nat /\ a <= a + g - p
         /\ a + g - p < f
         /\ f <= (a + g - p) + b
OBVIOUS

(* A read passes over nothing that is to be seen.                          *)
LEMMA StartIs ==
  ASSUME changes \in Seq(ChangeType), NEW r, cursor[r].sequence \in 0..Captured
  PROVE  /\ Start(r) \in cursor[r].sequence..Captured
         /\ Latest(r, Start(r)) = {} => Start(r) = Captured
         /\ \A i \in (cursor[r].sequence + 1)..Start(r) : ~Visible(r, i)
<1>1. Captured \in Nat /\ BatchLimit \in Nat \ {0}
  BY KnowledgeAssumption DEF Captured
<1>2. PICK at \in Nat : at = cursor[r].sequence /\ at <= Captured
  BY <1>1
<1>3. PICK new : /\ new = {i \in (at + 1)..Captured : Visible(r, i)}
                 /\ new \subseteq Nat
  <2>1. \A i \in (at + 1)..Captured : i \in Nat
    BY <1>1, <1>2
  <2>2. {i \in (at + 1)..Captured : Visible(r, i)} \subseteq Nat
    BY <2>1
  <2> QED BY <2>2
<1>4. CASE new = {}
  <2>1. Start(r) = Captured
    BY <1>2, <1>3, <1>4 DEF Start
  <2> QED BY <1>1, <1>2, <1>3, <1>4, <2>1
<1>5. CASE new # {}
  <2>1. PICK first \in new : first = Min(new) /\ \A m \in new : first <= m
    <3>1. /\ Min(new) \in new
          /\ \A m \in new : Min(new) <= m
      BY <1>3, <1>5, MinIs
    <3> QED BY <3>1
  <2>2. PICK gone \in Nat : gone = first - 1 - at
    <3>1. first \in Nat /\ first >= at + 1
      BY <1>1, <1>2, <1>3, <2>1
    <3> QED BY <1>2, <3>1
  <2>3. PICK part \in 0..(BatchLimit - 1) : part = gone % BatchLimit /\ part <= gone
    <3>1. PICK b \in Nat \ {0} : b = BatchLimit
      BY <1>1
    <3>2. gone % b \in 0..(b - 1)
      OBVIOUS
    <3>3. gone % b <= gone
      OBVIOUS
    <3> QED BY <3>1, <3>2, <3>3
  <2>4. Start(r) = at + gone - part
    BY <1>2, <1>3, <1>5, <2>1, <2>2, <2>3 DEF Start
  <2>5. PICK n \in Nat : /\ n = Start(r) /\ at <= n /\ n < first
                         /\ first <= n + BatchLimit
    <3>1. first \in Nat
      BY <1>3, <2>1
    <3>2. /\ at + gone - part \in Nat /\ at <= at + gone - part
          /\ at + gone - part < first
          /\ first <= (at + gone - part) + BatchLimit
      BY <1>1, <2>2, <2>3, <3>1, WholeBatches
    <3> QED BY <2>4, <3>2
  <2>6. first \in Batch(n)
    <3>1. first \in Nat /\ first <= Captured
      BY <1>1, <1>2, <1>3, <2>1
    <3> QED BY <1>1, <2>5, <3>1 DEF Batch, Lesser
  <2>7. Latest(r, n) # {}
    BY <1>3, <2>1, <2>5, <2>6, LatestIs
  <2>8. \A i \in (at + 1)..n : ~Visible(r, i)
    <3>1. \A i \in (at + 1)..n : i \in (at + 1)..Captured /\ ~(first <= i)
      BY <1>1, <1>2, <1>3, <2>1, <2>5
    <3> QED BY <1>3, <2>1, <3>1
  <2>9. n <= Captured
    BY <1>1, <1>2, <1>3, <2>1, <2>5
  <2> QED BY <1>1, <1>2, <2>5, <2>7, <2>8, <2>9
<1> QED BY <1>4, <1>5

(* What fits are the first of what is shown; what does not fit alone is    *)
(* too large.                                                              *)
LEMMA FitsIs ==
  ASSUME IInv, NEW r, NEW from \in Nat, NEW latest, latest = Latest(r, from), latest # {}
  PROVE  /\ Fits(latest) \subseteq latest
         /\ \A i \in Fits(latest), j \in latest : j <= i => j \in Fits(latest)
         /\ Fits(latest) = {} => Size(Min(latest)) + 1 > PageRoom
<1>1. changes \in Seq(ChangeType)
  BY DEF IInv, TypeOK
<1>2. Captured \in Nat /\ DOMAIN changes = 1..Captured
  BY <1>1 DEF Captured
<1>3. latest \subseteq DOMAIN changes /\ latest \subseteq Nat /\ latest \subseteq 1..Captured
  BY <1>1, <1>2, LatestIs
<1> DEFINE Before(i) == {l \in latest : l <= i}
           Bytes(i) == UNION {Pieces(j) : j \in Before(i)}
<1>4. ASSUME NEW j \in latest
      PROVE  IsFiniteSet(Pieces(j)) /\ Cardinality(Pieces(j)) = Size(j) + 1
  <2>1. Size(j) \in Nat
    BY <1>3, SizeIs
  <2>2. IsFiniteSet(0..Size(j)) /\ Cardinality(0..Size(j)) = Size(j) + 1
    BY <2>1, FS_Interval
  <2>3. IsFiniteSet({j}) /\ Cardinality({j}) = 1
    BY FS_Singleton
  <2>4. Cardinality({j} \X (0..Size(j))) = 1 * (Size(j) + 1)
        /\ IsFiniteSet({j} \X (0..Size(j)))
    BY <2>2, <2>3, FS_Product
  <2> QED BY <2>1, <2>4 DEF Pieces
<1>5. IsFiniteSet(latest)
  <2>1. IsFiniteSet(1..Captured)
    BY <1>2, FS_Interval
  <2> QED BY <1>3, <2>1, FS_Subset
<1>6. ASSUME NEW i PROVE IsFiniteSet(Bytes(i))
  <2> DEFINE P == {Pieces(j) : j \in Before(i)}
  <2>1. IsFiniteSet(Before(i))
    BY <1>5, FS_Subset
  <2>2. IsFiniteSet(P)
    <3> DEFINE f == [j \in Before(i) |-> Pieces(j)]
    <3>1. f \in Surjection(Before(i), P)
      BY DEF Surjection
    <3> HIDE DEF f, P
    <3> QED BY <2>1, <3>1, FS_Surjection
  <2>3. \A p \in P : IsFiniteSet(p)
    BY <1>4
  <2> HIDE DEF P
  <2> QED BY <2>2, <2>3, FS_UNION DEF P
<1>7. ASSUME NEW i \in Fits(latest), NEW j \in latest, j <= i PROVE j \in Fits(latest)
  <2>1. i \in latest /\ Cardinality(Bytes(i)) <= PageRoom
    BY DEF Fits
  <2>2. Before(j) \subseteq Before(i)
    BY <1>3, <1>7, <2>1
  <2>3. Bytes(j) \subseteq Bytes(i)
    BY <2>2
  <2>4. Cardinality(Bytes(j)) <= Cardinality(Bytes(i))
    BY <1>6, <2>3, FS_Subset
  <2>5. Cardinality(Bytes(j)) \in Nat /\ Cardinality(Bytes(i)) \in Nat /\ PageRoom \in Nat
    BY <1>6, FS_CardinalityType, KnowledgeAssumption
  <2> HIDE DEF Bytes
  <2>6. Cardinality(Bytes(j)) <= PageRoom
    BY <2>1, <2>4, <2>5
  <2> QED BY <2>6 DEF Fits, Bytes
<1>8. ASSUME Fits(latest) = {} PROVE Size(Min(latest)) + 1 > PageRoom
  <2>1. PICK first \in latest : first = Min(latest) /\ \A l \in latest : first <= l
    BY <1>3, MinIs
  <2>2. Before(first) = {first}
    BY <1>3, <2>1
  <2>3. Bytes(first) = Pieces(first)
    BY <2>2
  <2>4. ~(Cardinality(Pieces(first)) <= PageRoom)
    BY <1>8, <2>3 DEF Fits
  <2>5. Size(first) \in Nat /\ PageRoom \in Nat
    BY <1>3, SizeIs, KnowledgeAssumption
  <2> QED BY <1>4, <2>1, <2>4, <2>5
<1> QED BY <1>7, <1>8 DEF Fits
-----------------------------------------------------------------------------
(* A text of which a reader has had the first pages                        *)
TextUnderWay(r) ==
  LET id == cursor[r].artifact
  IN /\ id \in DOMAIN rows /\ id \in Artifacts /\ IsTextual(id)
     /\ Length[rows[id]] \in Nat
     /\ cursor[r].offset \in 1..(Length[rows[id]] - 1)
     /\ id \in DOMAIN view[r] /\ view[r][id].upTo = cursor[r].offset
     /\ ~(PageRoom <= Details[id])

CursorType == [sequence : Nat, artifact : Artifacts \cup {NoArtifact}, offset : Nat]

ReaderInOrder(r) ==
  /\ cursor[r] \in CursorType
  /\ cursor[r].sequence <= Captured
  /\ cursor[r].artifact # NoArtifact => TextUnderWay(r)
  /\ EverythingWasShown(r)
  /\ stuck[r] => OversizeIsNext(r)

ReadersInOrder ==
  /\ DOMAIN cursor = Readers /\ DOMAIN view = Readers /\ DOMAIN stuck = Readers
  /\ \A r \in Readers : ReaderInOrder(r)

(* Rows and changes that are there stay.                                   *)
Grows ==
  /\ \A e \in DOMAIN rows : e \in DOMAIN rows' /\ rows'[e] = rows[e]
  /\ \A i \in DOMAIN changes : i \in DOMAIN changes' /\ changes'[i] = changes[i]

LEMMA CapturedGrows ==
  ASSUME IInv, IInv', Grows
  PROVE  /\ Captured \in Nat /\ Captured' \in Nat /\ Captured <= Captured'
         /\ DOMAIN changes = 1..Captured /\ DOMAIN changes' = 1..Captured'
<1>1. changes \in Seq(ChangeType) /\ changes' \in Seq(ChangeType)
  BY DEF IInv, TypeOK
<1>2. /\ Captured \in Nat /\ Captured' \in Nat
      /\ DOMAIN changes = 1..Captured /\ DOMAIN changes' = 1..Captured'
  BY <1>1 DEF Captured
<1>3. CASE Captured = 0
  BY <1>2, <1>3
<1>4. CASE Captured # 0
  <2>1. Captured \in DOMAIN changes
    BY <1>2, <1>4
  <2>2. Captured \in DOMAIN changes'
    BY <2>1 DEF Grows
  <2> QED BY <1>2, <2>2
<1> QED BY <1>2, <1>3, <1>4

LEMMA GrownFacts ==
  ASSUME IInv, IInv', Grows, NEW r, NEW i \in DOMAIN changes
  PROVE  /\ i \in DOMAIN changes'
         /\ Tells(i)' = Tells(i) /\ Visible(r, i)' = Visible(r, i)
         /\ Unpageable(i)' = Unpageable(i)
<1>4. i \in DOMAIN changes' /\ changes'[i] = changes[i]
  BY DEF Grows
<1>5. Tells(i)' = Tells(i)
  BY <1>4 DEF Tells
<1>6. Visible(r, i)' = Visible(r, i)
  BY <1>4 DEF Visible
<1>7. Tells(i) \in Artifacts => rows'[Tells(i)] = rows[Tells(i)]
  BY EntityIs DEF Grows
<1>9. Size(i)' = Size(i)
  BY <1>4, <1>7 DEF Size, IsTextual, Tells
<1>10. Tells(i) \in Artifacts => NoRoom(Tells(i), 0)' = NoRoom(Tells(i), 0)
  BY <1>5, <1>7 DEF NoRoom, PieceEnd, Room, Lesser
<1>11. Unpageable(i)' = Unpageable(i)
  BY <1>4, <1>5, <1>7, <1>9, <1>10 DEF Unpageable, IsTextual, Tells
<1> QED BY <1>4, <1>5, <1>6, <1>11

(* A reader that does not read stays in order.                             *)
LEMMA ReaderKept ==
  ASSUME IInv, IInv', Grows, NEW r \in Readers, ReaderInOrder(r),
         cursor'[r] = cursor[r], view'[r] = view[r], stuck'[r] = stuck[r]
  PROVE  ReaderInOrder(r)'
<1>1. Captured \in Nat /\ Captured' \in Nat /\ Captured <= Captured'
      /\ DOMAIN changes = 1..Captured /\ DOMAIN changes' = 1..Captured'
  BY CapturedGrows
<1>2. PICK at \in Nat : at = cursor[r].sequence /\ at = cursor'[r].sequence /\ at <= Captured
  BY DEF ReaderInOrder, CursorType
<1>3. cursor'[r] \in CursorType /\ cursor'[r].sequence <= Captured'
  BY <1>1, <1>2 DEF ReaderInOrder
<1>4. cursor'[r].artifact # NoArtifact => TextUnderWay(r)'
  <2> SUFFICES ASSUME cursor'[r].artifact # NoArtifact PROVE TextUnderWay(r)'
    OBVIOUS
  <2>1. TextUnderWay(r)
    BY DEF ReaderInOrder
  <2>2. rows'[cursor[r].artifact] = rows[cursor[r].artifact] /\ cursor[r].artifact \in DOMAIN rows'
    BY <2>1 DEF Grows, TextUnderWay
  <2> QED BY <2>1, <2>2 DEF TextUnderWay, IsTextual
<1>5. EverythingWasShown(r)'
  <2> SUFFICES ASSUME NEW i \in 1..at, Visible(r, i)', NEW e, e = changes'[i].entity
               PROVE  \/ \E j \in ChangesOf(e)' : j > at /\ Visible(r, j)'
                      \/ /\ e \in DOMAIN view'[r] /\ view'[r][e].at >= i
                         /\ e = cursor'[r].artifact \/ view'[r][e].upTo = Whole(e)'
    BY <1>2 DEF EverythingWasShown
  <2>1. i \in DOMAIN changes
    BY <1>1, <1>2
  <2>2. e = Tells(i) /\ Visible(r, i) /\ Whole(e)' = Whole(e)
    <3>1. e = Tells(i)
      BY <2>1 DEF Grows, Tells
    <3>2. e \in Artifacts => rows'[e] = rows[e]
      BY <2>1, <3>1, EntityIs DEF Grows
    <3>3. Whole(e)' = Whole(e)
      BY <3>2 DEF Whole, IsTextual
    <3> QED BY <2>1, <3>1, <3>3, GrownFacts
  <2>3. CASE \E j \in ChangesOf(e) : j > at /\ Visible(r, j)
    <3>1. PICK j \in DOMAIN changes : Tells(j) = e /\ j > at /\ Visible(r, j)
      BY <2>3 DEF ChangesOf, Tells
    <3>2. j \in DOMAIN changes' /\ changes'[j].entity = e
      BY <3>1 DEF Grows, Tells
    <3>3. j \in ChangesOf(e)'
      BY <3>2 DEF ChangesOf
    <3>4. Visible(r, j)'
      BY <3>1, GrownFacts
    <3> QED BY <3>1, <3>3, <3>4
  <2>4. CASE /\ e \in DOMAIN view[r] /\ view[r][e].at >= i
             /\ e = cursor[r].artifact \/ view[r][e].upTo = Whole(e)
    BY <2>2, <2>4
  <2> QED BY <1>2, <2>2, <2>3, <2>4 DEF ReaderInOrder, EverythingWasShown, Tells
<1>6. stuck'[r] => OversizeIsNext(r)'
  <2> SUFFICES ASSUME stuck[r] PROVE OversizeIsNext(r)'
    OBVIOUS
  <2>1. PICK i \in DOMAIN changes : i > at /\ Visible(r, i) /\ Unpageable(i)
    BY <1>2 DEF ReaderInOrder, OversizeIsNext
  <2>2. i \in DOMAIN changes' /\ Visible(r, i)' /\ Unpageable(i)'
    BY <2>1, GrownFacts
  <2> QED BY <1>2, <2>1, <2>2 DEF OversizeIsNext
<1> QED BY <1>3, <1>4, <1>5, <1>6 DEF ReaderInOrder

LEMMA StepGrows ==
  ASSUME IInv, [Next]_vars
  PROVE  Grows
<1>1. /\ changes \in Seq(ChangeType) /\ JobIsSound
      /\ \A x \in Records : Change(Row(x), Owner[x]) \in ChangeType
  BY KnowledgeAssumption DEF IInv, TypeOK, Change, ChangeType, Rows
<1>2. CASE UNCHANGED <<rows, changes>>
  BY <1>2 DEF Grows
<1>3. ASSUME UNCHANGED rows, NEW c, changes' = Append(changes, c)
      PROVE  Grows
  BY <1>1, <1>3 DEF Grows
<1>4. CASE InsertArtifact
  <2>1. PICK s : s = job.session
    OBVIOUS
  <2>2. Page(s) \notin DOMAIN rows
    BY <1>1, <1>4, <2>1 DEF InsertArtifact, Ready, JobIsSound, Idle, None
  <2>3. /\ DOMAIN rows' = DOMAIN rows \cup {Page(s)}
        /\ \A i \in DOMAIN rows : i # Page(s) => rows'[i] = rows[i]
        /\ changes' = Append(changes, Change(Page(s), s))
    BY <1>4, <2>1 DEF InsertArtifact, InsertRows
  <2>4. \A i \in DOMAIN changes : i \in DOMAIN changes' /\ changes'[i] = changes[i]
    BY <1>1, <2>3
  <2> QED BY <2>2, <2>3, <2>4 DEF Grows
<1>5. CASE CommitHome
  <2>1. PICK s : s = job.session
    OBVIOUS
  <2>2. CASE home = job.base /\ KeysAreFree(s)
    <3>1. CASE rows' = rows /\ changes' = changes
      BY <3>1, <1>2
    <3>2. CASE ~(rows' = rows /\ changes' = changes)
      <4>1. PICK new : new = <<Change(Source(s), s), Change(Page(s), s), Change(Home, s)>>
        OBVIOUS
      <4>2. /\ DOMAIN rows' = DOMAIN rows \cup {Page(s), Source(s)}
            /\ \A i \in DOMAIN rows : i \notin {Page(s), Source(s)} => rows'[i] = rows[i]
            /\ changes' = changes \o new
        BY <1>5, <2>1, <2>2, <3>2, <4>1 DEF CommitHome, InsertRows
      <4>3. Len(new) = 3 /\ Len(changes) \in Nat
        BY <1>1, <4>1
      <4>4. \A i \in DOMAIN changes : i \in DOMAIN changes' /\ changes'[i] = changes[i]
        BY <1>1, <4>2, <4>3
      <4> QED BY <2>2, <4>2, <4>4 DEF Grows, KeysAreFree
    <3> QED BY <3>1, <3>2
  <2>3. CASE ~(home = job.base /\ KeysAreFree(s))
    BY <1>2, <1>5, <2>1, <2>3 DEF CommitHome
  <2> QED BY <2>2, <2>3
<1>6. CASE \E x \in Records : Touch(x)
  BY <1>3, <1>6 DEF Touch
<1>7. CASE \E s \in Sessions : Dispatch(s) \/ Finish(s) \/ AnswerDropped(s)
  BY <1>2, <1>7 DEF Dispatch, Finish, AnswerDropped, disk
<1>8. CASE StoreFile \/ Rename \/ WriteFails \/ RowsFail \/ Crash \/ Recover
  BY <1>2, <1>8 DEF StoreFile, Rename, WriteFails, RowsFail, Crash, Recover, disk
<1>9. CASE \E r \in Readers : ReadOn(r) \/ ReadAgain(r)
  BY <1>2, <1>9 DEF ReadOn, ReadAgain, ReadPage, disk
<1>10. CASE UNCHANGED vars
  BY <1>2, <1>10 DEF vars, disk
<1> QED BY <1>4, <1>5, <1>6, <1>7, <1>8, <1>9, <1>10 DEF Next, StoreStep

(* A page of a text                                                        *)
LEMMA PageOfText ==
  ASSUME NEW r \in Readers, DOMAIN cursor = Readers, DOMAIN view = Readers,
         UNCHANGED <<rows, changes>>,
         NEW id \in Artifacts, id \in DOMAIN rows, IsTextual(id),
         Length[rows[id]] \in Nat, NEW sequence \in Nat, NEW offset \in Nat,
         offset <= Length[rows[id]], ~NoRoom(id, offset),
         offset # 0 => id \in DOMAIN view[r] /\ view[r][id].upTo = offset,
         ArtifactPage(r, id, sequence, offset)
  PROVE  /\ cursor'[r] \in CursorType /\ cursor'[r].sequence = sequence
         /\ cursor'[r].artifact # NoArtifact => TextUnderWay(r)'
         /\ DOMAIN view'[r] = DOMAIN view[r] \cup {id}
         /\ \A e \in DOMAIN view[r] : e # id => view'[r][e] = view[r][e]
         /\ view'[r][id].at = Captured
         /\ id = cursor'[r].artifact \/ view'[r][id].upTo = Whole(id)
<1>1. PICK len \in Nat : len = Length[rows[id]]
  OBVIOUS
<1>2. TextPage(r, id, sequence, offset)
  BY DEF ArtifactPage
<1>3. PICK end \in Nat : end = PieceEnd(id, offset) /\ offset <= end /\ end <= len
  BY <1>1, PieceEndIs
<1>11. ASSUME end # len PROVE offset < end /\ ~(PageRoom <= Details[id])
  <2>1. offset < len
    BY <1>1, <1>3, <1>11
  <2>2. ~(PageRoom <= Details[id])
    BY <1>1, <2>1, PieceEndIs
  <2>3. offset # end
    BY <1>1, <1>3, <2>1 DEF NoRoom
  <2> QED BY <1>3, <2>2, <2>3
<1>4. (IF offset = 0 \/ id \notin DOMAIN view[r] THEN 0 ELSE view[r][id].upTo) = offset
  OBVIOUS
<1>5. /\ cursor'[r] = [sequence |-> sequence,
                       artifact |-> IF end = len THEN NoArtifact ELSE id,
                       offset |-> IF end = len THEN 0 ELSE end]
      /\ view'[r] = [e \in DOMAIN view[r] \cup {id} |->
                       IF e = id THEN [at |-> Captured, upTo |-> offset + end - offset]
                       ELSE view[r][e]]
  BY <1>1, <1>2, <1>3, <1>4 DEF TextPage
<1>6. offset + end - offset = end
  OBVIOUS
<1>7. /\ DOMAIN view'[r] = DOMAIN view[r] \cup {id}
      /\ \A e \in DOMAIN view[r] : e # id => view'[r][e] = view[r][e]
      /\ view'[r][id].at = Captured /\ view'[r][id].upTo = end
  BY <1>5, <1>6
<1>8. cursor'[r] \in CursorType /\ cursor'[r].sequence = sequence
  BY <1>5 DEF CursorType
<1>9. ASSUME cursor'[r].artifact # NoArtifact PROVE TextUnderWay(r)'
  <2>1. cursor'[r].artifact = id /\ cursor'[r].offset = end /\ end < len
    BY <1>3, <1>5, <1>9
  <2>2. offset < end /\ ~(PageRoom <= Details[id])
    BY <1>11, <2>1
  <2> QED BY <1>1, <1>3, <1>7, <2>1, <2>2 DEF TextUnderWay, IsTextual
<1>10. Whole(id) = len
  BY <1>1 DEF Whole
<1> QED BY <1>5, <1>7, <1>8, <1>9, <1>10

(* A text whose details leave no room for it cannot be paged.              *)
LEMMA NoPage ==
  ASSUME IInv, NEW i \in DOMAIN changes,
         ~(Tells(i) \in Artifacts /\ IsTextual(Tells(i)) /\ ~NoRoom(Tells(i), 0)),
         Size(i) + 1 > PageRoom
  PROVE  Unpageable(i)
BY DEF Unpageable, Tells
-----------------------------------------------------------------------------
(* What a reader is to see up to `upTo` it has seen, or it is among what   *)
(* is shown now, or there is a later change of it behind `upTo`.           *)
Seen(r, i) ==
  /\ Tells(i) \in DOMAIN view[r] /\ view[r][Tells(i)].at >= i
  /\ view[r][Tells(i)].upTo = Whole(Tells(i))

LEMMA Accounted ==
  ASSUME IInv, NEW r \in Readers, ReaderInOrder(r), cursor[r].artifact = NoArtifact,
         NEW upTo \in {Start(r)} \cup Batch(Start(r)),
         NEW i \in DOMAIN changes, Visible(r, i),
         i <= cursor[r].sequence \/ i <= upTo
  PROVE  \/ i <= cursor[r].sequence /\ Seen(r, i)
         \/ \E l \in Latest(r, Start(r)) : l >= i /\ Tells(l) = Tells(i)
         \/ \E j \in DOMAIN changes : j > upTo /\ Visible(r, j) /\ Tells(j) = Tells(i)
<1>1. changes \in Seq(ChangeType)
  BY DEF IInv, TypeOK
<1>2. Captured \in Nat /\ DOMAIN changes = 1..Captured
  BY <1>1 DEF Captured
<1>3. PICK at \in 0..Captured : at = cursor[r].sequence
  BY <1>2 DEF ReaderInOrder, CursorType
<1>4. PICK from \in at..Captured : from = Start(r) /\ \A k \in (at + 1)..from : ~Visible(r, k)
  BY <1>1, <1>3, StartIs
<1>5. from \in Nat /\ at \in Nat /\ at <= from
  BY <1>2, <1>3, <1>4
<1>6. upTo \in Nat /\ \A k \in Nat : k > from /\ k <= upTo => k \in Batch(from)
  <2>1. PICK end \in Nat : Batch(from) = (from + 1)..end
    <3>1. BatchLimit \in Nat
      BY KnowledgeAssumption
    <3>2. Lesser(from + BatchLimit, Captured) \in Nat
      BY <1>2, <1>5, <3>1 DEF Lesser
    <3> QED BY <1>4, <3>2 DEF Batch
  <2>2. upTo \in {from} \cup ((from + 1)..end)
    BY <1>4, <2>1
  <2> QED BY <1>5, <2>1, <2>2
<1>7. \A k \in DOMAIN changes : k > at /\ Visible(r, k) /\ k <= upTo => k \in Batch(from)
  BY <1>2, <1>4, <1>5, <1>6
<1>8. ASSUME NEW k \in DOMAIN changes, k > at, k >= i, Visible(r, k), Tells(k) = Tells(i)
      PROVE  \/ \E l \in Latest(r, from) : l >= i /\ Tells(l) = Tells(i)
             \/ \E j \in DOMAIN changes : j > upTo /\ Visible(r, j) /\ Tells(j) = Tells(i)
  <2>1. CASE k > upTo
    BY <1>8, <2>1
  <2>2. CASE ~(k > upTo)
    <3>1. k \in Nat /\ i \in Nat
      BY <1>2
    <3>2. k \in Batch(from)
      BY <1>6, <1>7, <1>8, <2>2, <3>1
    <3>3. PICK l \in Latest(r, from) : l >= k /\ Tells(l) = Tells(k)
      BY <1>1, <1>5, <1>8, <3>2, LatestIs
    <3>4. l \in Nat
      BY <1>1, <1>2, <1>5, <3>3, LatestIs
    <3>5. l >= i
      BY <1>8, <3>1, <3>3, <3>4
    <3> QED BY <1>8, <3>3, <3>5
  <2> QED BY <2>1, <2>2
<1>9. CASE i > at
  BY <1>2, <1>4, <1>8, <1>9
<1>10. CASE ~(i > at)
  <2>1. i \in 1..at /\ i \in Nat
    BY <1>2, <1>3, <1>10
  <2>2. CASE \E j \in ChangesOf(Tells(i)) : j > at /\ Visible(r, j)
    <3>1. PICK j \in DOMAIN changes : Tells(j) = Tells(i) /\ j > at /\ Visible(r, j)
      BY <2>2 DEF ChangesOf, Tells
    <3>2. j >= i
      BY <1>2, <1>3, <2>1, <3>1
    <3> QED BY <1>4, <1>8, <3>1, <3>2
  <2>3. CASE ~\E j \in ChangesOf(Tells(i)) : j > at /\ Visible(r, j)
    <3>1. /\ Tells(i) \in DOMAIN view[r] /\ view[r][Tells(i)].at >= i
          /\ Tells(i) = cursor[r].artifact \/ view[r][Tells(i)].upTo = Whole(Tells(i))
      BY <1>3, <2>1, <2>3 DEF ReaderInOrder, EverythingWasShown, Tells
    <3>2. Tells(i) # NoArtifact
      BY EntityIs
    <3> QED BY <1>3, <2>1, <3>1, <3>2 DEF Seen
  <2> QED BY <2>2, <2>3
<1> QED BY <1>2, <1>3, <1>9, <1>10

LEMMA ShownIs ==
  ASSUME NEW r, UNCHANGED <<rows, changes>>,
         \A i \in DOMAIN changes :
           i <= cursor'[r].sequence /\ Visible(r, i) =>
             \/ \E j \in DOMAIN changes : /\ Tells(j) = Tells(i)
                                          /\ j > cursor'[r].sequence /\ Visible(r, j)
             \/ /\ Tells(i) \in DOMAIN view'[r] /\ view'[r][Tells(i)].at >= i
                /\ Tells(i) = cursor'[r].artifact
                     \/ view'[r][Tells(i)].upTo = Whole(Tells(i)),
         changes \in Seq(ChangeType), cursor'[r].sequence \in 0..Captured
  PROVE  EverythingWasShown(r)'
<1>1. Captured \in Nat /\ DOMAIN changes = 1..Captured
  BY DEF Captured
<1>2. \A j : Visible(r, j)' = Visible(r, j)
  BY DEF Visible
<1>3. \A e : ChangesOf(e)' = {j \in DOMAIN changes : Tells(j) = e} /\ Whole(e)' = Whole(e)
  BY DEF ChangesOf, Tells, Whole, IsTextual
<1> SUFFICES ASSUME NEW i \in 1..cursor'[r].sequence, Visible(r, i)',
                    NEW e, e = changes'[i].entity
             PROVE  \/ \E j \in ChangesOf(e)' : j > cursor'[r].sequence /\ Visible(r, j)'
                    \/ /\ e \in DOMAIN view'[r] /\ view'[r][e].at >= i
                       /\ e = cursor'[r].artifact \/ view'[r][e].upTo = Whole(e)'
  BY DEF EverythingWasShown
<1>4. i \in DOMAIN changes /\ i <= cursor'[r].sequence /\ e = Tells(i) /\ Visible(r, i)
  BY <1>1, <1>2 DEF Tells
<1> QED BY <1>2, <1>3, <1>4

(* Reading on keeps a reader in order.                                     *)
LEMMA ReadKeeps ==
  ASSUME IInv, NEW r \in Readers, DOMAIN cursor = Readers, DOMAIN view = Readers,
         DOMAIN stuck = Readers, ReaderInOrder(r), ReadPage(r)
  PROVE  ReaderInOrder(r)'
<1>1. /\ UNCHANGED <<rows, changes>> /\ changes \in Seq(ChangeType) /\ ~stuck[r]
      /\ Captured' = Captured /\ Captured \in Nat /\ DOMAIN changes = 1..Captured
  BY DEF ReadPage, disk, IInv, TypeOK, Captured
<1>2. PICK at \in 0..Captured : at = cursor[r].sequence
  BY <1>1 DEF ReaderInOrder, CursorType
<1>3. CASE cursor[r].artifact # NoArtifact
  <2>1. PICK id \in Artifacts : id = cursor[r].artifact
    BY <1>3 DEF ReaderInOrder, CursorType
  <2>2. PICK offset \in Nat : offset = cursor[r].offset
    BY DEF ReaderInOrder, CursorType
  <2>3. /\ id \in DOMAIN rows /\ IsTextual(id) /\ Length[rows[id]] \in Nat
        /\ offset <= Length[rows[id]] /\ id \in DOMAIN view[r] /\ view[r][id].upTo = offset
        /\ ~(PageRoom <= Details[id])
    BY <1>3, <2>1, <2>2 DEF ReaderInOrder, TextUnderWay
  <2>4. ArtifactPage(r, id, at, offset) /\ at \in Nat
    BY <1>2, <1>3, <2>1, <2>2 DEF ReadPage
  <2>9. ~NoRoom(id, offset)
    BY <2>3, PieceEndIs
  <2>5. /\ cursor'[r] \in CursorType /\ cursor'[r].sequence = at
        /\ cursor'[r].artifact # NoArtifact => TextUnderWay(r)'
        /\ DOMAIN view'[r] = DOMAIN view[r] \cup {id}
        /\ \A e \in DOMAIN view[r] : e # id => view'[r][e] = view[r][e]
        /\ view'[r][id].at = Captured
        /\ id = cursor'[r].artifact \/ view'[r][id].upTo = Whole(id)
    BY <1>1, <2>3, <2>4, <2>9, PageOfText
  <2>6. stuck' = stuck
    BY <2>4, <2>9 DEF ArtifactPage, TextPage
  <2>7. ASSUME NEW i \in DOMAIN changes, i <= cursor'[r].sequence, Visible(r, i)
        PROVE  \/ \E j \in DOMAIN changes : /\ Tells(j) = Tells(i)
                                            /\ j > cursor'[r].sequence /\ Visible(r, j)
               \/ /\ Tells(i) \in DOMAIN view'[r] /\ view'[r][Tells(i)].at >= i
                  /\ Tells(i) = cursor'[r].artifact
                       \/ view'[r][Tells(i)].upTo = Whole(Tells(i))
    <3>1. i \in 1..at /\ i <= Captured
      BY <1>1, <1>2, <2>5, <2>7
    <3>2. CASE Tells(i) = id
      BY <1>1, <2>5, <3>1, <3>2
    <3>3. CASE Tells(i) # id
      <4>1. \/ \E j \in ChangesOf(Tells(i)) : j > at /\ Visible(r, j)
            \/ /\ Tells(i) \in DOMAIN view[r] /\ view[r][Tells(i)].at >= i
               /\ view[r][Tells(i)].upTo = Whole(Tells(i))
        BY <1>2, <2>1, <2>7, <3>1, <3>3 DEF ReaderInOrder, EverythingWasShown, Tells
      <4> QED BY <2>5, <3>3, <4>1 DEF ChangesOf, Tells
    <3> QED BY <3>2, <3>3
  <2>8. EverythingWasShown(r)'
    BY <1>1, <1>2, <2>5, <2>7, ShownIs
  <2> QED BY <1>1, <1>2, <2>5, <2>6, <2>8 DEF ReaderInOrder
<1>4. CASE cursor[r].artifact = NoArtifact
  <2>1. PICK from \in at..Captured : /\ from = Start(r)
                                     /\ Latest(r, from) = {} => from = Captured
    BY <1>1, <1>2, StartIs
  <2>2. from \in Nat /\ FirstPage(r)
    BY <1>2, <1>4, <2>1 DEF ReadPage
  <2>3. PICK latest : latest = Latest(r, from)
    OBVIOUS
  <2>4. /\ latest \subseteq Batch(from) /\ latest \subseteq DOMAIN changes
        /\ latest \subseteq 1..Captured
    BY <1>1, <2>2, <2>3, LatestIs
  <2>5. \A l \in latest : l \in Nat /\ l > at /\ l <= Captured /\ Visible(r, l)
    BY <1>1, <1>2, <2>1, <2>2, <2>3, <2>4, LatestIs DEF Batch
  <2>6. ASSUME NEW upTo \in {from} \cup Batch(from), cursor'[r].sequence = upTo,
               cursor'[r] \in CursorType, cursor'[r].artifact # NoArtifact => TextUnderWay(r)',
               stuck' = stuck, DOMAIN view[r] \subseteq DOMAIN view'[r],
               NEW now, now \subseteq DOMAIN view'[r],
               \A l \in latest : l <= upTo => Tells(l) \in now,
               \A e \in DOMAIN view[r] \ now : view'[r][e] = view[r][e],
               \A e \in now : /\ view'[r][e].at = Captured
                              /\ e = cursor'[r].artifact \/ view'[r][e].upTo = Whole(e)
        PROVE  ReaderInOrder(r)'
    <3>1. upTo \in 0..Captured
      BY <1>1, <1>2, <2>1, <2>2, <2>6, LatestIs
    <3>2. ASSUME NEW i \in DOMAIN changes, i <= upTo, Visible(r, i)
          PROVE  \/ \E j \in DOMAIN changes : Tells(j) = Tells(i) /\ j > upTo /\ Visible(r, j)
                 \/ /\ Tells(i) \in DOMAIN view'[r] /\ view'[r][Tells(i)].at >= i
                    /\ Tells(i) = cursor'[r].artifact
                         \/ view'[r][Tells(i)].upTo = Whole(Tells(i))
      <4>1. i \in Nat /\ i <= Captured
        BY <1>1
      <4>2. CASE Tells(i) \in now
        BY <2>6, <4>1, <4>2
      <4>3. CASE Tells(i) \notin now /\ Seen(r, i)
        BY <2>6, <4>3 DEF Seen
      <4>4. CASE \E l \in latest : l >= i /\ Tells(l) = Tells(i)
        <5>1. PICK l \in latest : l >= i /\ Tells(l) = Tells(i)
          BY <4>4
        <5>2. CASE l <= upTo
          BY <2>6, <4>2, <5>1, <5>2
        <5>3. CASE ~(l <= upTo)
          BY <2>4, <2>5, <3>1, <5>1, <5>3
        <5> QED BY <5>2, <5>3
      <4>5. CASE \E j \in DOMAIN changes : j > upTo /\ Visible(r, j) /\ Tells(j) = Tells(i)
        BY <4>5
      <4> QED BY <1>4, <2>1, <2>3, <3>2, <4>2, <4>3, <4>4, <4>5, Accounted
    <3>3. EverythingWasShown(r)'
      BY <1>1, <2>6, <3>1, <3>2, ShownIs
    <3>4. ~stuck'[r]
      BY <1>1, <2>6
    <3> QED BY <1>1, <2>6, <3>1, <3>3, <3>4 DEF ReaderInOrder
  <2>7. CASE latest = {}
    <3>1. /\ cursor' = [cursor EXCEPT ![r].sequence = Captured] /\ view' = view /\ stuck' = stuck
      <4>1. Fits(latest) = {}
        BY <2>7 DEF Fits
      <4> QED BY <2>1, <2>2, <2>3, <2>7, <4>1 DEF FirstPage
    <3>2. /\ cursor'[r].sequence = Captured /\ cursor'[r].artifact = NoArtifact
          /\ cursor'[r] \in CursorType /\ from = Captured
      BY <1>1, <1>4, <2>1, <2>3, <2>7, <3>1 DEF ReaderInOrder, CursorType
    <3> QED BY <2>6, <2>7, <3>1, <3>2
  <2>8. CASE latest # {} /\ Fits(latest) = {}
    <3>1. PICK first \in latest : first = Min(latest) /\ \A l \in latest : first <= l
      BY <2>5, <2>8, MinIs
    <3>2. PICK id : id = Tells(first) /\ first \in DOMAIN changes
      BY <2>4
    <3>3. CASE id \in Artifacts /\ IsTextual(id) /\ ~NoRoom(id, 0)
      <4>1. ArtifactPage(r, id, first, 0)
        BY <2>1, <2>2, <2>3, <2>8, <3>1, <3>2, <3>3 DEF FirstPage, Tells
      <4>2. id \in DOMAIN rows /\ Length[rows[id]] \in Nat /\ 0 <= Length[rows[id]]
        BY <3>2, <3>3, EntityIs
      <4>3. /\ cursor'[r] \in CursorType /\ cursor'[r].sequence = first
            /\ cursor'[r].artifact # NoArtifact => TextUnderWay(r)'
            /\ DOMAIN view'[r] = DOMAIN view[r] \cup {id}
            /\ \A e \in DOMAIN view[r] : e # id => view'[r][e] = view[r][e]
            /\ view'[r][id].at = Captured
            /\ id = cursor'[r].artifact \/ view'[r][id].upTo = Whole(id)
        BY <1>1, <2>5, <3>3, <4>1, <4>2, PageOfText
      <4>4. stuck' = stuck
        BY <3>3, <4>1 DEF ArtifactPage, TextPage
      <4>5. \A l \in latest : l <= first => Tells(l) \in {id}
        BY <2>5, <3>1, <3>2
      <4>6. first \in {from} \cup Batch(from)
        BY <2>4
      <4> QED BY <2>6, <4>3, <4>4, <4>5, <4>6
    <3>4. CASE ~(id \in Artifacts /\ IsTextual(id) /\ ~NoRoom(id, 0))
      <4>1. /\ cursor' = cursor /\ view' = view /\ stuck'[r] = TRUE
        BY <2>1, <2>2, <2>3, <2>8, <3>1, <3>2, <3>4 DEF FirstPage, ArtifactPage, Tells, Fail
      <4>2. Size(first) + 1 > PageRoom
        BY <2>2, <2>3, <2>8, <3>1, FitsIs
      <4>3. Unpageable(first)
        BY <3>2, <3>4, <4>2, NoPage
      <4>4. OversizeIsNext(r)
        BY <1>2, <2>5, <3>2, <4>3 DEF OversizeIsNext
      <4>5. OversizeIsNext(r)' = OversizeIsNext(r) /\ EverythingWasShown(r)' = EverythingWasShown(r)
            /\ TextUnderWay(r)' = TextUnderWay(r)
        BY <1>1, <4>1
           DEF OversizeIsNext, EverythingWasShown, TextUnderWay, Visible, Size, IsTextual,
               Whole, ChangesOf, Unpageable, NoRoom, PieceEnd, Room, Lesser
      <4> QED BY <1>1, <4>1, <4>4, <4>5 DEF ReaderInOrder
    <3> QED BY <3>3, <3>4
  <2>9. CASE Fits(latest) # {}
    <3>1. PICK fits : fits = Fits(latest) /\ fits \subseteq latest
      BY DEF Fits
    <3>2. fits \subseteq 0..Captured /\ fits # {} /\ latest # {}
      BY <2>4, <2>9, <3>1
    <3>3. PICK last \in fits : last = Max(fits) /\ \A m \in fits : m <= last
      BY <1>1, <3>2, MaxIs
    <3>4. PICK now : now = {changes[i].entity : i \in fits}
      OBVIOUS
    <3>5. /\ cursor' = [cursor EXCEPT ![r].sequence = last]
          /\ view' = [view EXCEPT ![r] = Shown(r, now)] /\ stuck' = stuck
      BY <2>1, <2>2, <2>3, <2>9, <3>1, <3>2, <3>3, <3>4 DEF FirstPage
    <3>6. /\ cursor'[r].sequence = last /\ cursor'[r].artifact = NoArtifact
          /\ cursor'[r] \in CursorType
      BY <1>4, <2>5, <3>1, <3>5 DEF ReaderInOrder, CursorType
    <3>7. /\ DOMAIN view'[r] = DOMAIN view[r] \cup now
          /\ \A e \in now : view'[r][e].at = Captured /\ view'[r][e].upTo = Whole(e)
          /\ \A e \in DOMAIN view[r] \ now : view'[r][e] = view[r][e]
      BY <3>5 DEF Shown
    <3>8. ASSUME NEW l \in latest, l <= last PROVE Tells(l) \in now
      <4>1. l \in fits
        BY <2>2, <2>3, <3>1, <3>2, <3>3, <3>8, FitsIs
      <4> QED BY <3>4, <4>1 DEF Tells
    <3>9. last \in {from} \cup Batch(from)
      BY <2>4, <3>1
    <3> QED BY <2>6, <3>5, <3>6, <3>7, <3>8, <3>9
  <2> QED BY <2>7, <2>8, <2>9
<1> QED BY <1>3, <1>4

LEMMA ReadersStart == Init => ReadersInOrder
<1> SUFFICES ASSUME Init, NEW r \in Readers PROVE ReaderInOrder(r)
  BY DEF ReadersInOrder, Init
<1>1. /\ cursor[r] = [sequence |-> 0, artifact |-> NoArtifact, offset |-> 0] /\ ~stuck[r]
      /\ Captured = 0
  BY DEF Init, Captured
<1>2. cursor[r] \in CursorType
  BY <1>1 DEF CursorType
<1>3. EverythingWasShown(r)
  BY <1>1 DEF EverythingWasShown
<1> QED BY <1>1, <1>2, <1>3 DEF ReaderInOrder

LEMMA ReadersStep ==
  ASSUME IInv, ReadersInOrder, [Next]_vars
  PROVE  ReadersInOrder'
<1>1. IInv' /\ Grows
  BY NextStep, StepGrows
<1>2. /\ DOMAIN cursor = Readers /\ DOMAIN view = Readers /\ DOMAIN stuck = Readers
      /\ \A r \in Readers : ReaderInOrder(r)
  BY DEF ReadersInOrder
<1>3. CASE UNCHANGED reading
  BY <1>1, <1>2, <1>3, ReaderKept DEF reading, ReadersInOrder
<1>4. ASSUME NEW r \in Readers, ReadPage(r)
      PROVE  ReadersInOrder'
  <2>1. ReaderInOrder(r)'
    BY <1>2, <1>4, ReadKeeps
  <2>2. /\ DOMAIN cursor' = Readers /\ DOMAIN view' = Readers /\ DOMAIN stuck' = Readers
        /\ \A q \in Readers \ {r} : /\ cursor'[q] = cursor[q] /\ view'[q] = view[q]
                                    /\ stuck'[q] = stuck[q]
    <3>1. CASE cursor[r].artifact # NoArtifact
      BY <1>2, <1>4, <3>1 DEF ReadPage, ArtifactPage, TextPage, Fail
    <3>2. CASE cursor[r].artifact = NoArtifact
      <4>1. FirstPage(r)
        BY <1>4, <3>2 DEF ReadPage
      <4>2. PICK latest : latest = Latest(r, Start(r))
        OBVIOUS
      <4>3. CASE latest = {}
        <5>1. Fits(latest) = {}
          BY <4>3 DEF Fits
        <5> QED BY <1>2, <4>1, <4>2, <4>3, <5>1 DEF FirstPage
      <4>4. CASE latest # {} /\ Fits(latest) = {}
        BY <1>2, <4>1, <4>2, <4>4 DEF FirstPage, ArtifactPage, TextPage, Fail
      <4>5. CASE latest # {} /\ Fits(latest) # {}
        BY <1>2, <4>1, <4>2, <4>5 DEF FirstPage
      <4> QED BY <4>3, <4>4, <4>5
    <3> QED BY <3>1, <3>2
  <2>3. \A q \in Readers \ {r} : ReaderInOrder(q)'
    BY <1>1, <1>2, <2>2, ReaderKept
  <2> QED BY <2>1, <2>2, <2>3 DEF ReadersInOrder
<1>5. CASE \E s \in Sessions : Dispatch(s) \/ Finish(s) \/ AnswerDropped(s)
  BY <1>3, <1>5 DEF Dispatch, Finish, AnswerDropped
<1>6. CASE StoreStep
  BY <1>3, <1>6 DEF StoreStep, StoreFile, Rename, InsertArtifact, CommitHome
<1>7. CASE WriteFails \/ RowsFail \/ Crash \/ Recover
  BY <1>3, <1>7 DEF WriteFails, RowsFail, Crash, Recover
<1>8. CASE \E x \in Records : Touch(x)
  BY <1>3, <1>8 DEF Touch
<1>9. CASE \E r \in Readers : ReadOn(r) \/ ReadAgain(r)
  BY <1>4, <1>9 DEF ReadOn, ReadAgain
<1>10. CASE UNCHANGED vars
  BY <1>3, <1>10 DEF vars
<1> QED BY <1>5, <1>6, <1>7, <1>8, <1>9, <1>10 DEF Next

(* A reader's cursor is one the Store gave, a text under way is continued  *)
(* where its last page ended, and nothing before the cursor was missed,    *)
(* whatever is published meanwhile.                                        *)
THEOREM ReadersStayInOrder == Spec => [](IInv /\ ReadersInOrder)
<1>1. Init => IInv /\ ReadersInOrder
  BY InitStep, ReadersStart
<1>2. IInv /\ ReadersInOrder /\ [Next]_vars => (IInv /\ ReadersInOrder)'
  BY NextStep, ReadersStep
<1> QED BY <1>1, <1>2, PTL DEF Spec

(* Whatever the batches, the page size, the programs a reader leaves out,  *)
(* and however many publications, updates, crashes and failed writes come  *)
(* between its pages, a reader misses no change that it is to see, has     *)
(* every text to its end or is reading it, and is refused only in front of *)
(* a record, or an Artifact's name and metadata, that fill a page          *)
(* (project_snapshot_changes, latest_entity_changes, artifact_page).       *)
THEOREM NothingIsMissed == Spec => []ReadersMissNothing
<1>1. ReadersInOrder => ReadersMissNothing
  BY DEF ReadersInOrder, ReaderInOrder, ReadersMissNothing
<1> QED BY <1>1, ReadersStayInOrder, PTL
=============================================================================
