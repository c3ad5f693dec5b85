-------------------------- MODULE TurnRows_proofs --------------------------
(***************************************************************************)
(* What the rows say of a Turn's inputs, of its tokens and of its Steps.   *)
(*                                                                         *)
(* Inputs: what a context shows of them is acknowledged by the records     *)
(* that show it, and what the records acknowledge is not claimed again     *)
(* (Presented). Tokens: each sample a provider charged for is in the       *)
(* Session's total, due with a record of the open Turn, or lost with a     *)
(* Turn that did not complete, a crash or a failed write (Counted). Steps: *)
(* one that is over says what the records say of its call, a call whose    *)
(* Step is not over is in the context or on its way there, and no Turn     *)
(* completes before its Steps are over (Mirrored). All three strengthen    *)
(* Sound, of TurnLoop_proofs.                                              *)
(***************************************************************************)
EXTENDS TurnLoop_proofs

Shown(i, items) == \E n \in DOMAIN items : items[n] = Said(i)
Once(items) ==
  \A i \in Inputs : \A m, n \in DOMAIN items : items[m] = Said(i) /\ items[n] = Said(i) => m = n
Mute(items) == \A i \in Inputs : ~Shown(i, items)

LEMMA SaidIs ==
  /\ \A i, j \in Inputs : Said(i) = Said(j) => i = j
  /\ \A i \in Inputs : Said(i)[1] \in {"message", "interrupt", "finish"}
BY RolloutAssumption DEF Said

LEMMA MuteIsOnce == \A items : Mute(items) => Once(items)
  BY DEF Mute, Shown, Once

LEMMA JoinedShow ==
  ASSUME NEW u, NEW a, NEW b, Joins(u, a, b, Item)
  PROVE  /\ \A i : Shown(i, u) <=> Shown(i, a) \/ Shown(i, b)
         /\ Once(a) /\ Once(b) /\ (\A i \in Inputs : ~(Shown(i, a) /\ Shown(i, b))) => Once(u)
<1>1. /\ Len(a) \in Nat
      /\ \A n \in DOMAIN a : n \in DOMAIN u /\ u[n] = a[n]
      /\ \A n \in DOMAIN b : n \in Nat \ {0} /\ Len(a) + n \in DOMAIN u /\ u[Len(a) + n] = b[n]
      /\ \A k \in DOMAIN u : k \in DOMAIN a \/ \E n \in DOMAIN b : k = Len(a) + n
  BY JoinedItems
<1>2. \A i : Shown(i, u) <=> Shown(i, a) \/ Shown(i, b)
  BY <1>1 DEF Shown
<1>3. ASSUME Once(a), Once(b), \A i \in Inputs : ~(Shown(i, a) /\ Shown(i, b)),
             NEW i \in Inputs, NEW m \in DOMAIN u, NEW n \in DOMAIN u, u[m] = Said(i), u[n] = Said(i)
      PROVE  m = n
  <2>1. CASE m \in DOMAIN a /\ n \in DOMAIN a
    BY <1>1, <1>3, <2>1 DEF Once
  <2>2. ASSUME NEW k \in DOMAIN u, NEW l \in DOMAIN u, u[k] = Said(i), u[l] = Said(i),
               k \in DOMAIN a, l \notin DOMAIN a
        PROVE  FALSE
    <3>1. Shown(i, a)
      BY <1>1, <2>2 DEF Shown
    <3>2. Shown(i, b)
      BY <1>1, <2>2 DEF Shown
    <3> QED BY <1>3, <3>1, <3>2
  <2>3. CASE m \notin DOMAIN a /\ n \notin DOMAIN a
    <3>1. PICK k \in DOMAIN b : m = Len(a) + k
      BY <1>1, <2>3
    <3>2. PICK l \in DOMAIN b : n = Len(a) + l
      BY <1>1, <2>3
    <3>3. b[k] = Said(i) /\ b[l] = Said(i)
      BY <1>1, <1>3, <3>1, <3>2
    <3>4. k = l
      BY <1>3, <3>3 DEF Once
    <3> QED BY <3>1, <3>2, <3>4
  <2> QED BY <1>3, <2>1, <2>2, <2>3
<1>4. Once(a) /\ Once(b) /\ (\A i \in Inputs : ~(Shown(i, a) /\ Shown(i, b))) => Once(u)
  BY <1>3 DEF Once
<1> QED BY <1>2, <1>4

(* What shows no input may join what shows some.                           *)
LEMMA MuteJoins ==
  ASSUME NEW u, NEW a, NEW b, Joins(u, a, b, Item), Mute(b)
  PROVE  /\ \A i \in Inputs : Shown(i, u) <=> Shown(i, a)
         /\ Once(a) => Once(u)
BY JoinedShow, MuteIsOnce DEF Mute

LEMMA OneIsMute ==
  ASSUME NEW x, x[1] \notin {"message", "interrupt", "finish"}
  PROVE  Mute(<<x>>)
BY SaidIs DEF Mute, Shown

LEMMA OthersAreMute ==
  /\ \A t : Mute(<<Ask(t)>>) /\ Mute(<<Answer(t)>>)
  /\ \A c : Mute(<<Out(c)>>)
  /\ Mute(<<FinishNow>>) /\ Mute(<<Summary>>) /\ Mute(<<>>)
<1>1. \A t : Ask(t)[1] = "ask" /\ Answer(t)[1] = "answer"
  BY DEF Ask, Answer
<1>2. \A c : Out(c)[1] = "out"
  BY DEF Out
<1>3. FinishNow[1] = "final" /\ Summary[1] = "summary"
  BY DEF FinishNow, Summary
<1>4. Mute(<<>>)
  BY DEF Mute, Shown
<1>5. \A t : Mute(<<Ask(t)>>) /\ Mute(<<Answer(t)>>)
  BY <1>1, OneIsMute
<1>6. \A c : Mute(<<Out(c)>>)
  BY <1>2, OneIsMute
<1>7. Mute(<<FinishNow>>) /\ Mute(<<Summary>>)
  BY <1>3, OneIsMute
<1> QED BY <1>4, <1>5, <1>6, <1>7

LEMMA EachIsMute ==
  ASSUME NEW S \in SUBSET Calls, IsFiniteSet(S), NEW k \in {"call", "aborted"}
  PROVE  Mute(EachOf(k, S))
<1>1. \A n \in DOMAIN EachOf(k, S) : \E c \in S : EachOf(k, S)[n] = <<k, c>>
  BY EachType
<1>2. \A n \in DOMAIN EachOf(k, S) : EachOf(k, S)[n][1] = k
  BY <1>1
<1> QED BY <1>2, SaidIs DEF Mute, Shown

(* What a Turn claims is shown once.                                       *)
LEMMA ShowingShows ==
  ASSUME NEW got \in FewInputs
  PROVE  /\ Once(Showing(got))
         /\ \A i \in Inputs : Shown(i, Showing(got)) => i \in got
<1> DEFINE fin == {i \in got : Kind[i] = "finish"}
           mes == {i \in got : Kind[i] = "message"}
<1>1. PICK f, s : /\ f = IF fin = {} THEN <<>> ELSE <<Said(Max(fin))>>
                  /\ s = SaidOf(mes)
  OBVIOUS
<1>2. /\ got \in SUBSET Inputs /\ IsFiniteSet(fin) /\ IsFiniteSet(mes)
      /\ fin \in SUBSET Inputs /\ mes \in SUBSET Inputs /\ fin \in SUBSET Nat
  BY FS_Subset, RolloutAssumption DEF FewInputs
<1>3. /\ s \in Seq(Item)
      /\ \A n \in DOMAIN s : Nth(mes, n) \in mes /\ s[n] = Said(Nth(mes, n))
      /\ \A m, n \in DOMAIN s : s[m] = s[n] => m = n
  BY <1>1, <1>2, SaidType
<1>4. \A n \in DOMAIN f : fin # {} /\ n = 1 /\ f[n] = Said(Max(fin))
  BY <1>1
<1>5. fin # {} => Max(fin) \in fin
  BY <1>2, MaxIs
<1>6. f \in Seq(Item)
  <2>1. CASE fin = {}
    BY <1>1, <2>1, EmptySeq
  <2>2. CASE fin # {}
    <3>1. PICK x \in Item : x = Said(Max(fin))
      BY <1>2, <1>5, <2>2, ItemsAre
    <3> QED BY <1>1, <2>2, <3>1
  <2> QED BY <2>1, <2>2
<1>7. \A i \in Inputs : Shown(i, f) => i \in fin
  BY <1>2, <1>4, <1>5, SaidIs DEF Shown
<1>8. \A i \in Inputs : Shown(i, s) => i \in mes
  <2>1. ASSUME NEW i \in Inputs, Shown(i, s) PROVE i \in mes
    <3>1. PICK n \in DOMAIN s : s[n] = Said(i)
      BY <2>1 DEF Shown
    <3>2. PICK j \in mes : s[n] = Said(j)
      BY <1>3
    <3>3. j \in Inputs /\ j = i
      BY <1>2, <3>1, <3>2, SaidIs
    <3> QED BY <3>2, <3>3
  <2> QED BY <2>1
<1>9. Once(f) /\ Once(s)
  BY <1>3, <1>4 DEF Once
<1>10. \A i \in Inputs : ~(Shown(i, f) /\ Shown(i, s))
  BY <1>7, <1>8
<1>11. PICK u : u = f \o s
  OBVIOUS
<1>12. Joins(u, f, s, Item)
  BY <1>3, <1>6, <1>11 DEF Joins
<1>13. Once(u) /\ \A i \in Inputs : Shown(i, u) => i \in got
  BY <1>7, <1>8, <1>9, <1>10, <1>12, JoinedShow
<1>14. u = Showing(got)
  BY <1>1, <1>11 DEF Showing
<1> QED BY <1>13, <1>14

(* build_compacted_history keeps of the inputs some, and none twice.       *)
LEMMA CompactedShows ==
  ASSUME NEW items \in Seq(Item), Once(items)
  PROVE  /\ Once(Compacted(items))
         /\ \A i \in Inputs : Shown(i, Compacted(items)) => Shown(i, items)
<1>1. PICK kept, at : /\ kept = ItemsAt(items, Newest(items))
                      /\ at = [n \in DOMAIN kept |-> Nth(Newest(items), n)]
  OBVIOUS
<1>2. /\ Compacted(items) = Append(kept, Summary) /\ kept \in Seq(Item)
      /\ \A n \in DOMAIN kept : at[n] \in DOMAIN items /\ kept[n] = items[at[n]]
      /\ \A m, n \in DOMAIN kept : at[m] = at[n] => m = n
  BY <1>1, CompactedIs
<1>3. \A i \in Inputs : Shown(i, kept) => Shown(i, items)
  BY <1>2 DEF Shown
<1>4. Once(kept)
  <2>1. ASSUME NEW i \in Inputs, NEW m \in DOMAIN kept, NEW n \in DOMAIN kept,
               kept[m] = Said(i), kept[n] = Said(i)
        PROVE  m = n
    <3>1. at[m] = at[n]
      BY <1>2, <2>1 DEF Once
    <3> QED BY <1>2, <3>1
  <2> QED BY <2>1 DEF Once
<1>5. Joins(Append(kept, Summary), kept, <<Summary>>, Item)
  BY <1>2, ItemsAre, AppendsItem
<1>6. PICK u : u = Append(kept, Summary)
  OBVIOUS
<1>7. Once(u) /\ \A i \in Inputs : Shown(i, u) => Shown(i, kept)
  BY <1>4, <1>5, <1>6, MuteJoins, OthersAreMute
<1> QED BY <1>2, <1>3, <1>6, <1>7

(* So does trim_history.                                                   *)
LEMMA ThinnedShows ==
  ASSUME NEW u, NEW a, Thins(u, a), Once(a)
  PROVE  Once(u) /\ \A i \in Inputs : Shown(i, u) => Shown(i, a)
<1>1. PICK k \in Nat :
        /\ \A n \in DOMAIN u : n # 1 => n + k \in DOMAIN a /\ u[n] = a[n + k]
        /\ \A n \in DOMAIN a : n > k + 1 => n - k \in DOMAIN u
  BY DEF Thins
<1>2. /\ u \in Seq(Item) /\ a \in Seq(Item)
      /\ 1 \in DOMAIN u /\ 1 \in DOMAIN a /\ u[1] = a[1]
  BY DEF Thins
<1>3. (\A n \in DOMAIN u : n \in Nat \ {0}) /\ (\A n \in DOMAIN a : n \in Nat \ {0})
  BY <1>2, LenProperties
<1>4. PICK p : p = [n \in DOMAIN u |-> IF n = 1 THEN 1 ELSE n + k]
  OBVIOUS
<1>5. \A n \in DOMAIN u : p[n] \in DOMAIN a /\ u[n] = a[p[n]]
  BY <1>1, <1>2, <1>3, <1>4
<1>6. \A m, n \in DOMAIN u : p[m] = p[n] => m = n
  BY <1>1, <1>3, <1>4
<1> QED BY <1>5, <1>6 DEF Once, Shown
-----------------------------------------------------------------------------
(* Beginnings and rests of sequences                                       *)

LEMMA SameStart ==
  ASSUME NEW B, NEW s \in Seq(B), NEW t \in Seq(B), NEW k \in 0..Len(s), k \in 0..Len(t),
         SubSeq(t, 1, k) = SubSeq(s, 1, k)
  PROVE  \A n \in 1..k : t[n] = s[n]
<1>1. Len(s) \in Nat /\ Len(t) \in Nat /\ k \in Int
  BY LenProperties
<1>2. \A i \in 1..k : s[i] \in B /\ t[i] \in B
  BY <1>1, ElementOfSeq
<1>3. PICK v : v = SubSeq(s, 1, k) /\ v = SubSeq(t, 1, k)
  OBVIOUS
<1>4. \A i \in 1..k : v[i] = s[i]
  BY <1>1, <1>2, <1>3, SubSeqProperties
<1>5. \A i \in 1..k : v[i] = t[i]
  BY <1>1, <1>2, <1>3, SubSeqProperties
<1> QED BY <1>4, <1>5

LEMMA SameBeginning ==
  ASSUME NEW B, NEW s \in Seq(B), NEW t \in Seq(B), Len(t) \in {Len(s), Len(s) + 1},
         SubSeq(t, 1, Len(s)) = s
  PROVE  \A n \in 1..Len(s) : t[n] = s[n]
<1>1. Len(s) \in Nat /\ Len(s) \in 0..Len(s) /\ Len(s) \in 0..Len(t)
  BY LenProperties
<1>2. SubSeq(s, 1, Len(s)) = s
  BY SubSeqFull
<1> QED BY <1>1, <1>2, SameStart

LEMMA RestOf ==
  ASSUME NEW B, NEW s \in Seq(B), NEW k \in 0..Len(s), NEW rest, rest = SubSeq(s, k + 1, Len(s))
  PROVE  /\ Len(rest) = Len(s) - k
         /\ \A n \in 1..Len(s) :
              n \in 1..k \/ (n - k \in 1..Len(rest) /\ rest[n - k] = s[n])
<1>1. Len(s) \in Nat /\ k \in Nat /\ k <= Len(s) /\ k + 1 \in Int
  BY LenProperties
<1>2. \A i \in (k + 1)..Len(s) : s[i] \in B
  BY <1>1, ElementOfSeq
<1>3. /\ Len(rest) = IF k + 1 <= Len(s) THEN Len(s) - (k + 1) + 1 ELSE 0
      /\ \A i \in 1..(Len(s) - (k + 1) + 1) : rest[i] = s[k + 1 + i - 1]
  BY <1>1, <1>2, SubSeqProperties
<1>4. Len(rest) = Len(s) - k
  BY <1>1, <1>3
<1>5. ASSUME NEW n \in 1..Len(s), n \notin 1..k
      PROVE  n - k \in 1..Len(rest) /\ rest[n - k] = s[n]
  <2>1. n - k \in 1..Len(rest) /\ n - k \in 1..(Len(s) - (k + 1) + 1) /\ k + 1 + (n - k) - 1 = n
    BY <1>1, <1>4, <1>5
  <2> QED BY <1>3, <2>1
<1> QED BY <1>4, <1>5
-----------------------------------------------------------------------------
(* What the records acknowledge is applied in the rows.                    *)

AcksApplied ==
  ~damaged => \A i \in Inputs, n \in 1..projected : i \in file[n].acks => rows.input[i] = "applied"

LEMMA AppliedStays ==
  ASSUME rows \in RowsType, RowsOnly, NEW i \in Inputs, rows.input[i] = "applied"
  PROVE  rows'.input[i] = "applied"
<1>1. /\ rows.input \in [Inputs -> {"none", "pending", "claimed", "applied"}]
      /\ rows = [status |-> rows.status, used |-> rows.used, last |-> rows.last,
                 tokens |-> rows.tokens, input |-> rows.input, owner |-> rows.owner]
  BY RowsAreARecord
<1>2. ASSUME NEW j \in Inputs, SendInput(j) PROVE rows'.input[i] = "applied"
  BY <1>1, <1>2 DEF SendInput, RowsType
<1>3. ASSUME NEW t \in Turns, ClaimInputs(t) PROVE rows'.input[i] = "applied"
  <2>1. i \notin Claimable(t)
    BY DEF Claimable
  <2>2. PICK got : got = Claimable(t)
    OBVIOUS
  <2>3. rows' = [rows EXCEPT
          !.input = [j \in Inputs |-> IF j \in got THEN "claimed" ELSE rows.input[j]],
          !.owner = [j \in Inputs |-> IF j \in got THEN t ELSE rows.owner[j]]]
    BY <1>3, <2>2 DEF ClaimInputs
  <2>4. rows'.input = [j \in Inputs |-> IF j \in got THEN "claimed" ELSE rows.input[j]]
    BY <2>3 DEF RowsType
  <2> QED BY <2>1, <2>2, <2>4
<1>4. ASSUME NEW t \in Turns, EndAction(t) PROVE rows'.input[i] = "applied"
  <2>1. rows' = [rows EXCEPT !.input = [j \in Inputs |->
          IF BoundTo[j] = t /\ rows.input[j] \in {"pending", "claimed"}
            THEN "applied" ELSE rows.input[j]]]
    BY <1>4 DEF EndAction
  <2>2. rows'.input = [j \in Inputs |->
          IF BoundTo[j] = t /\ rows.input[j] \in {"pending", "claimed"}
            THEN "applied" ELSE rows.input[j]]
    BY <2>1 DEF RowsType
  <2> QED BY <2>2
<1>5. ASSUME NEW n \in Nat, ChargeTokens(n) PROVE rows'.input[i] = "applied"
  BY <1>5 DEF ChargeTokens, RowsType
<1> QED BY <1>2, <1>3, <1>4, <1>5 DEF RowsOnly

(* As long as the file only grows behind what is projected, or not at all  *)
LEMMA AppliedWith ==
  ASSUME AcksApplied, damaged' = damaged, projected' = projected,
         ~damaged => \A n \in 1..projected : file'[n] = file[n],
         \A i \in Inputs : rows.input[i] = "applied" => rows'.input[i] = "applied"
  PROVE  AcksApplied'
<1>1. ~damaged' => \A i \in Inputs, n \in 1..projected' :
        i \in file'[n].acks => rows'.input[i] = "applied"
  BY DEF AcksApplied
<1> QED BY <1>1 DEF AcksApplied

LEMMA AcksAppliedStep ==
  ASSUME StoreType(Item), StoreIsInOrder, AcksApplied, StoreAction(Item)
  PROVE  AcksApplied'
<1> DEFINE B == RecordOf(Item)
<1>1. /\ file \in Seq(B) /\ Len(file) \in Nat /\ rows \in RowsType /\ projected \in Nat
      /\ ~damaged => projected \in 0..Len(file)
  BY LenProperties DEF StoreType, StoreIsInOrder
<1>2. ASSUME UNCHANGED <<file, damaged, projected, rows>> PROVE AcksApplied'
  BY <1>2, AppliedWith
<1>3. ASSUME NEW r \in B, Commit(r) PROVE AcksApplied'
  BY <1>2, <1>3 DEF Commit
<1>4. CASE AppendRecord
  <2>1. CASE ~(~damaged /\ trailing = <<>> /\ projected = Len(file))
    <3>1. damaged' = TRUE
      BY <1>4, <2>1 DEF AppendRecord
    <3> QED BY <3>1 DEF AcksApplied
  <2>2. CASE ~damaged /\ trailing = <<>> /\ projected = Len(file)
    <3>1. /\ file' = Append(file, commit.record) /\ UNCHANGED <<damaged, rows, projected>>
          /\ commit # Idle /\ ~damaged
      BY <1>4, <2>2 DEF AppendRecord, Idle
    <3>2. commit.record \in B
      BY <3>1, CommitTypes
    <3>3. \A n \in 1..Len(file) : file'[n] = file[n]
      BY <1>1, <3>1, <3>2, AppendProperties
    <3>4. \A n \in 1..projected : n \in 1..Len(file)
      BY <1>1, <3>1
    <3> QED BY <3>1, <3>3, <3>4, AppliedWith
  <2> QED BY <2>1, <2>2
<1>5. CASE ProjectRecord
  <2>1. Projecting /\ commit.record \in B
    BY <1>5, CommitTypes DEF ProjectRecord, Projecting, Idle
  <2>2. /\ rows' = Project(rows, commit.record) /\ projected' = projected + 1
        /\ UNCHANGED <<file, damaged>>
    BY <1>5 DEF ProjectRecord
  <2>3. projected + 1 = Len(file) /\ file[projected + 1] = commit.record /\ ~damaged
    BY <2>1 DEF StoreIsInOrder
  <2>4. \A i \in Inputs : rows'.input[i] = "applied" <=>
          rows.input[i] = "applied" \/ i \in commit.record.acks
    BY <1>1, <2>1, <2>2, ProjectApplies
  <2>5. \A n \in 1..projected' : n \in 1..projected \/ n = projected + 1
    BY <1>1, <2>2
  <2>6. ASSUME NEW i \in Inputs, NEW n \in 1..projected', i \in file'[n].acks
        PROVE  rows'.input[i] = "applied"
    BY <2>2, <2>3, <2>4, <2>5, <2>6 DEF AcksApplied
  <2> QED BY <2>6 DEF AcksApplied
<1>6. CASE AppendFails
  BY <1>2, <1>6 DEF AppendFails
<1>7. CASE projected = Len(file) /\ Scan
  <2>1. UNCHANGED <<damaged, rows, projected>> /\ file' = Records /\ ~damaged
    BY <1>7 DEF Scan
  <2>2. SubSeq(Records, 1, Len(file)) = file /\ Records \in Seq(B)
        /\ Len(Records) \in {Len(file), Len(file) + 1}
    BY WholeType
  <2>3. \A n \in 1..Len(file) : Records[n] = file[n]
    BY <1>1, <2>2, SameBeginning
  <2> QED BY <1>7, <2>1, <2>3, AppliedWith
<1>8. ASSUME NEW survives \in BOOLEAN, Reopen(survives) PROVE AcksApplied'
  <2>1. /\ ~damaged /\ file' \in Seq(B) /\ projected' = Len(file') /\ Len(file) <= Len(file')
        /\ SubSeq(file', 1, projected) = SubSeq(file, 1, projected)
    BY <1>8, ReopenIs
  <2>2. PICK rest \in Seq(B) : rest = SubSeq(file', projected + 1, Len(file'))
    BY <1>8, ReopenIs
  <2>3. rows' = Replay(Project, rows, rest)
    BY <1>8, <2>2, ReopenIs
  <2>4. \A i \in Inputs : rows'.input[i] = "applied" <=>
          rows.input[i] = "applied" \/ \E n \in 1..Len(rest) : i \in rest[n].acks
    BY <1>1, <2>3, ReplayApplies
  <2>5. Len(file') \in Nat /\ projected \in 0..Len(file')
    BY <1>1, <2>1, LenProperties
  <2>6. \A n \in 1..projected : file'[n] = file[n]
    BY <1>1, <2>1, <2>5, SameStart
  <2>7. \A n \in 1..Len(file') : n \in 1..projected
          \/ (n - projected \in 1..Len(rest) /\ rest[n - projected] = file'[n])
    BY <2>1, <2>2, <2>5, RestOf
  <2>8. ASSUME NEW i \in Inputs, NEW n \in 1..projected', i \in file'[n].acks
        PROVE  rows'.input[i] = "applied"
    <3>1. CASE n \in 1..projected
      BY <2>1, <2>4, <2>6, <2>8, <3>1 DEF AcksApplied
    <3>2. CASE n \notin 1..projected
      BY <2>1, <2>4, <2>7, <2>8, <3>2
    <3> QED BY <3>1, <3>2
  <2> QED BY <2>8 DEF AcksApplied
<1>9. CASE RowsOnly
  <2>1. UNCHANGED <<file, damaged, projected>>
    BY <1>1, <1>9, RowsOnlyStep
  <2> QED BY <1>1, <1>9, <2>1, AppliedStays, AppliedWith
<1>10. CASE Retry
  BY <1>2, <1>10 DEF Retry
<1>11. CASE UNCHANGED rolloutVars
  BY <1>2, <1>11 DEF rolloutVars
<1> QED BY <1>3, <1>4, <1>5, <1>6, <1>7, <1>8, <1>9, <1>10, <1>11 DEF StoreAction, RowsOnly
-----------------------------------------------------------------------------
(* The files, the record on its way to them, and the task                  *)

AckedIn(all, i) == \E n \in DOMAIN all : i \in all[n].acks
Acked(i) == AckedIn(Records, i)

StateShows(S) ==
  /\ Once(S.context) /\ Once(S.committed)
  /\ \A i \in Inputs : Shown(i, S.context) \/ Shown(i, S.committed) => Acked(i)

FilesShow == StateShows(Latest) /\ Once(Canonical.context)

(* A record that shows an input anew acknowledges it.                      *)
Adopts(S, r) ==
  LET items == NewContext(S, r)
  IN Once(items) /\ \A i \in Inputs : Shown(i, items) => Shown(i, S.context) \/ i \in r.acks
CommitShows == Committing /\ commit.record.kind = "checkpoint" => Adopts(Latest, commit.record)

(* What the history shows and no record does, the task will acknowledge.   *)
HistoryShows ==
  pc \in Loop =>
    /\ Once(history)
    /\ \A i \in Inputs : Shown(i, history) =>
         Shown(i, task.context) \/ (i \in task.acks /\ pc \in {"window", "compacting", "prompt"})

Presented == Sound /\ AcksApplied /\ FilesShow /\ CommitShows /\ HistoryShows

LEMMA AckedByOneMore ==
  ASSUME NEW s, NEW r, NEW t, Follows(t, s, r, RecordOf(Item))
  PROVE  \A i : AckedIn(t, i) <=> AckedIn(s, i) \/ i \in r.acks
<1>1. /\ s \in Seq(RecordOf(Item)) /\ r \in RecordOf(Item) /\ t = Append(s, r)
  BY DEF Follows
<1>2. Len(s) \in Nat /\ DOMAIN s = 1..Len(s)
  BY <1>1, LenProperties
<1>3. /\ t \in Seq(RecordOf(Item)) /\ Len(t) = Len(s) + 1
      /\ \A i \in 1..Len(s) : t[i] = s[i]
      /\ t[Len(s) + 1] = r
  BY <1>1, AppendProperties
<1>4. DOMAIN t = 1..(Len(s) + 1)
  BY <1>3, LenProperties
<1>5. \A n : n \in DOMAIN t <=> n \in DOMAIN s \/ n = Len(s) + 1
  BY <1>2, <1>4, SMT
<1> QED BY <1>2, <1>3, <1>5 DEF AckedIn

LEMMA ReadShows ==
  ASSUME NEW S \in StateOf(Item), NEW r \in RecordOf(Item), NEW old, NEW new,
         Once(S.context), Once(S.committed),
         \A i \in Inputs : Shown(i, S.context) \/ Shown(i, S.committed) => i \in old,
         r.kind = "checkpoint" => Adopts(S, r),
         old \cup r.acks \subseteq new
  PROVE  LET T == Read(S, r)
         IN /\ Once(T.context) /\ Once(T.committed)
            /\ \A i \in Inputs : Shown(i, T.context) \/ Shown(i, T.committed) => i \in new
<1>1. PICK T : T = Read(S, r)
  OBVIOUS
<1>2. Mute(<<>>) /\ Once(<<>>)
  BY OthersAreMute, MuteIsOnce
<1>3. CASE r.kind = "created"
  <2>1. T.context = S.committed /\ T.committed = S.committed
    BY <1>1, <1>3, ReadCreated
  <2> QED BY <1>1, <2>1
<1>4. CASE r.kind = "checkpoint"
  <2>1. PICK items : items = NewContext(S, r)
    OBVIOUS
  <2>2. T.context = items /\ T.committed = S.committed
    BY <1>1, <1>4, <2>1, ReadCheckpoint
  <2>3. Once(items) /\ \A i \in Inputs : Shown(i, items) => Shown(i, S.context) \/ i \in r.acks
    BY <1>4, <2>1 DEF Adopts
  <2> QED BY <1>1, <2>2, <2>3
<1>5. CASE r.kind = "updated"
  <2>1. /\ NoTurn(S.context).context = <<>> /\ NoTurn(S.context).committed = S.context
        /\ NoTurn(S.committed).context = <<>> /\ NoTurn(S.committed).committed = S.committed
    BY DEF NoTurn
  <2>2. r.status \in {"Running"} \cup TerminalTurn
    BY <1>5, KindsAre
  <2>3. T = NoTurn(S.context) \/ T = NoTurn(S.committed) \/ T = S
    BY <1>1, <1>5, <2>2, ReadUpdated DEF TerminalTurn
  <2> QED BY <1>1, <1>2, <2>1, <2>3 DEF Mute
<1> QED BY <1>3, <1>4, <1>5, KindsAre

LEMMA FilesShowStep ==
  ASSUME Presented, [Next]_vars
  PROVE  FilesShow' /\ AcksApplied'
<1>1. StoreType(Item) /\ StoreIsInOrder /\ StoreAction(Item)
  BY StoreActs DEF Presented, Sound, Ordered, TypeOK
<1>2. AcksApplied'
  BY <1>1, AcksAppliedStep DEF Presented
<1>3. CASE Records' = Records /\ Latest' = Latest
  <2>1. StateShows(Latest)'
    BY <1>3 DEF Presented, FilesShow, StateShows, Acked
  <2>2. Canonical' \in {Canonical, Latest'}
    BY <1>1, LatestStep
  <2>3. Once(Canonical'.context)
    BY <1>3, <2>2 DEF Presented, FilesShow, StateShows
  <2> QED BY <1>2, <2>1, <2>3 DEF FilesShow
<1>4. CASE /\ Adding /\ commit.record \in RecordOf(Item)
           /\ Records' = Append(Records, commit.record)
           /\ Latest' = Read(Latest, commit.record)
  <2>1. Committing
    BY <1>4 DEF Adding
  <2>2. PICK r \in RecordOf(Item) : r = commit.record
    BY <1>4
  <2>3. PICK S \in StateOf(Item) : S = Latest
    BY <1>1, LatestType
  <2>4. PICK s, t : s = Records /\ t = Records'
    OBVIOUS
  <2>5. Follows(t, s, r, RecordOf(Item))
    BY <1>1, <1>4, <2>2, <2>4, WholeType DEF Follows
  <2>6. PICK old, new : old = {i \in Inputs : AckedIn(s, i)} /\ new = {i \in Inputs : AckedIn(t, i)}
    OBVIOUS
  <2>7. r.acks \subseteq Inputs
    BY KindsAre DEF FewInputs
  <2>8. old \cup r.acks \subseteq new
    BY <2>5, <2>6, <2>7, AckedByOneMore
  <2>9. /\ Once(S.context) /\ Once(S.committed)
        /\ \A i \in Inputs : Shown(i, S.context) \/ Shown(i, S.committed) => i \in old
    BY <2>3, <2>4, <2>6 DEF Presented, FilesShow, StateShows, Acked
  <2>10. r.kind = "checkpoint" => Adopts(S, r)
    BY <2>1, <2>2, <2>3 DEF Presented, CommitShows
  <2>11. PICK T : T = Read(S, r)
    OBVIOUS
  <2>12. /\ Once(T.context) /\ Once(T.committed)
         /\ \A i \in Inputs : Shown(i, T.context) \/ Shown(i, T.committed) => i \in new
    BY <2>8, <2>9, <2>10, <2>11, ReadShows
  <2>13. T = Latest'
    BY <1>4, <2>2, <2>3, <2>11
  <2>14. StateShows(Latest)'
    <3>1. \A i \in Inputs : i \in new <=> AckedIn(Records', i)
      BY <2>4, <2>6
    <3> QED BY <2>12, <2>13, <3>1 DEF StateShows, Acked
  <2>15. Canonical' \in {Canonical, Latest'}
    BY <1>1, LatestStep
  <2>16. Once(Canonical'.context)
    BY <2>12, <2>13, <2>15 DEF Presented, FilesShow
  <2> QED BY <1>2, <2>14, <2>16 DEF FilesShow
<1> QED BY <1>1, <1>3, <1>4, ToldStep

(* A step after which no record is on its way                              *)
LEMMA QuietPresented ==
  ASSUME Presented, [Next]_vars, ~Committing', HistoryShows'
  PROVE  Presented'
<1>1. CommitShows'
  BY DEF CommitShows
<1>2. Sound'
  BY SoundStep DEF Presented
<1> QED BY <1>1, <1>2, FilesShowStep DEF Presented

(* A step that hands a record to the Store                                 *)
LEMMA CommitPresented ==
  ASSUME Presented, [Next]_vars, NEW r, Commit(r), r.kind = "checkpoint" => Adopts(Latest, r),
         HistoryShows'
  PROVE  Presented'
<1>1. Latest' = Latest /\ commit'.record = r
  BY Commits DEF Presented
<1>2. Committing' /\ commit'.record.kind = "checkpoint" => Adopts(Latest', commit'.record)
  BY <1>1
<1>3. CommitShows'
  BY <1>2 DEF CommitShows
<1>4. Sound'
  BY SoundStep DEF Presented
<1> QED BY <1>3, <1>4, FilesShowStep DEF Presented

(* A step that leaves the record on its way, or the lack of one            *)
LEMMA SteadyPresented ==
  ASSUME Presented, [Next]_vars, UNCHANGED rolloutVars, HistoryShows'
  PROVE  Presented'
<1>1. Latest' = Latest /\ commit' = commit
  <2>1. StandsStill /\ commit' = commit
    BY QuietTask DEF Presented, Sound, OnlyWrites, rolloutVars
  <2> QED BY <2>1 DEF StandsStill
<1>2. Committing' /\ commit'.record.kind = "checkpoint" => Adopts(Latest', commit'.record)
  BY <1>1 DEF Presented, CommitShows, Committing
<1>3. CommitShows'
  BY <1>2 DEF CommitShows
<1>4. Sound'
  BY SoundStep DEF Presented
<1> QED BY <1>3, <1>4, FilesShowStep DEF Presented

(* What the task does with its history                                     *)
LEMMA OutOfTheLoop == pc' \notin Loop => HistoryShows'
  BY DEF HistoryShows

LEMMA HistoryStays ==
  ASSUME Presented, pc \in Loop, pc \in {"window", "compacting", "prompt"}
           => pc' \in {"window", "compacting", "prompt"} /\ task'.acks = task.acks,
         task'.history = task.history, task'.context = task.context
  PROVE  HistoryShows'
<1>1. /\ Once(history') /\ \A i \in Inputs : Shown(i, history') =>
          Shown(i, task'.context) \/ (i \in task'.acks /\ pc' \in {"window", "compacting", "prompt"})
  BY DEF Presented, HistoryShows, history
<1> QED BY <1>1 DEF HistoryShows

(* Saving a history with the acknowledgement of what it shows anew         *)
LEMMA SavePresented ==
  ASSUME Presented, [Next]_vars, pc \in Loop,
         NEW items \in Seq(Item), NEW total, NEW step, NEW last, NEW acks,
         Save(items, total, step, last, acks), Once(items),
         \A i \in Inputs : Shown(i, items) => Shown(i, task.context) \/ i \in acks
  PROVE  Presented'
<1>1. task \in TaskType
  BY DEF Presented, Sound, Ordered, TypeOK, LoopType
<1>2. PICK r : r = SavedRecord(items, total, step, last, acks)
  OBVIOUS
<1>3. Commit(r) /\ task' = SavedTask(items, total, last)
  BY <1>2, SaveIs
<1>4. task'.history = items /\ task'.context = items
  BY <1>1, <1>3 DEF SavedTask, TaskType
<1>5. /\ r.kind = "checkpoint" /\ r.replace = ~IsPrefix(task.context, items)
      /\ r.items = NewItems(items) /\ r.acks = acks
  BY <1>2 DEF SavedRecord, Checkpoint
<1>6. Latest.context = task.context
  BY <1>3, AtItsFile DEF Presented, Commit
<1>7. NewContext(Latest, r) = items
  <2>1. task.context \in Seq(Item)
    BY <1>1, TaskIsARecord
  <2>2. IsPrefix(task.context, items) => task.context \o NewItems(items) = items
    BY <2>1, NewItemsType
  <2>3. ~IsPrefix(task.context, items) => NewItems(items) = items
    BY DEF NewItems
  <2> QED BY <1>5, <1>6, <2>2, <2>3 DEF NewContext
<1>8. Adopts(Latest, r)
  BY <1>5, <1>6, <1>7 DEF Adopts
<1>9. HistoryShows'
  <2>1. Once(history') /\ \A i \in Inputs : Shown(i, history') => Shown(i, task'.context)
    BY <1>4 DEF history
  <2> QED BY <2>1 DEF HistoryShows
<1> QED BY <1>3, <1>8, <1>9, CommitPresented
-----------------------------------------------------------------------------
LEMMA WithTask ==
  ASSUME Presented
  PROVE  /\ history \in Seq(Item) /\ task \in TaskType /\ task.context \in Seq(Item)
         /\ StoreIdle => ~Committing
         /\ pc # "off" => Turn \in Turns
BY TaskIsARecord DEF Presented, Sound, Ordered, TypeOK, LoopType, history, StoreIdle, Committing, Idle

(* Steps before, after and beside the loop                                 *)
LEMMA EdgesPresented ==
  ASSUME Presented, [Next]_vars
  PROVE  /\ \A t \in Turns : Attach(t) \/ CancelRow(t) => Presented'
         /\ StartTurn \/ Complete \/ EndTurn => Presented'
         /\ \A t \in Turns : TakeUp(t) \/ ActionRecovers(t) => Presented'
         /\ TaskEnds \/ FinishPending => Presented'
         /\ \A survives \in BOOLEAN : Crash(survives) => Presented'
<1>1. ASSUME NEW r, Commit(r), r.kind # "checkpoint", pc' \notin Loop
      PROVE  Presented'
  BY <1>1, OutOfTheLoop, CommitPresented
<1>2. ASSUME commit' = Idle, pc' \notin Loop PROVE Presented'
  <2>1. ~Committing'
    BY <1>2 DEF Committing, Idle
  <2> QED BY <1>2, <2>1, OutOfTheLoop, QuietPresented
<1>3. ASSUME NEW t \in Turns, Attach(t) PROVE Presented'
  <2>1. Commit(Created(t)) /\ Created(t).kind # "checkpoint" /\ pc' = "start"
    BY <1>3 DEF Attach, Created
  <2> QED BY <1>1, <2>1 DEF Loop
<1>4. ASSUME NEW t \in Turns, CancelRow(t) PROVE Presented'
  <2>1. Commit(Updated(t, "Cancelled", {})) /\ Updated(t, "Cancelled", {}).kind # "checkpoint"
        /\ pc' \in {"off", "left"}
    BY <1>4 DEF CancelRow, Updated, At, volatile
  <2> QED BY <1>1, <2>1 DEF Loop
<1>5. \A t, status, acks : Updated(t, status, acks).kind # "checkpoint"
  BY DEF Updated
<1>6. ASSUME StartTurn \/ Complete \/ EndTurn PROVE Presented'
  <2>1. /\ commit = Idle /\ pc' \notin Loop
        /\ UNCHANGED rolloutVars \/ \E t, status, acks : Commit(Updated(t, status, acks))
    BY <1>6 DEF StartTurn, Complete, EndTurn, At, StoreIdle, Loop
  <2>2. CASE UNCHANGED rolloutVars
    BY <1>2, <2>1, <2>2 DEF rolloutVars
  <2>3. CASE \E t, status, acks : Commit(Updated(t, status, acks))
    <3>1. PICK r : Commit(r) /\ r.kind # "checkpoint"
      BY <1>5, <2>3
    <3> QED BY <1>1, <2>1, <3>1
  <2> QED BY <2>1, <2>2, <2>3
<1>7. ASSUME NEW t \in Turns, TakeUp(t) \/ ActionRecovers(t) PROVE Presented'
  <2>1. commit' = Idle /\ pc' \in {"start", "off"}
    BY <1>7 DEF TakeUp, ActionRecovers, EndAction, At, StoreIdle, rolloutVars, volatile
  <2> QED BY <1>2, <2>1 DEF Loop
<1>8. ASSUME TaskEnds \/ FinishPending PROVE Presented'
  <2>1. commit' = Idle /\ pc' \in {"off", "end"}
    BY <1>8 DEF TaskEnds, FinishPending, EndAction, At, StoreIdle, rolloutVars
  <2> QED BY <1>2, <2>1 DEF Loop
<1>9. ASSUME NEW survives \in BOOLEAN, Crash(survives) PROVE Presented'
  <2>1. commit' = Idle /\ pc' = "off"
    BY <1>9 DEF Crash, Reopen
  <2> QED BY <1>2, <2>1 DEF Loop
<1> QED BY <1>3, <1>4, <1>6, <1>7, <1>8, <1>9

(* Steps that end the loop early                                           *)
LEMMA LeavesPresented ==
  ASSUME Presented, [Next]_vars
  PROVE  /\ CompactFails \/ BeginFails => Presented'
         /\ SampleDuplicate \/ SampleFails \/ SampleCancelled => Presented'
<1>1. ASSUME commit' = Idle, pc' = "ending" PROVE Presented'
  <2>1. ~Committing' /\ pc' \notin Loop
    BY <1>1 DEF Committing, Idle, Loop
  <2> QED BY <2>1, OutOfTheLoop, QuietPresented
<1>2. ASSUME CompactFails \/ BeginFails PROVE Presented'
  BY <1>1, <1>2 DEF CompactFails, BeginFails, Leave, At, StoreIdle, rolloutVars
<1>3. ASSUME SampleDuplicate \/ SampleFails \/ SampleCancelled PROVE Presented'
  BY <1>1, <1>3 DEF SampleDuplicate, SampleFails, SampleCancelled, ChargeTokens, Leave, At,
     StoreIdle, rolloutVars
<1> QED BY <1>2, <1>3

(* Steps of others, which leave the task as it is                          *)
LEMMA OthersPresented ==
  ASSUME Presented, [Next]_vars
  PROVE  /\ CommitStep \/ CommitFails => Presented'
         /\ \A i \in Inputs : Send(i) => Presented'
         /\ \A c \in Calls : Dispatch(c) \/ Return(c) => Presented'
         /\ Cancel \/ UNCHANGED vars => Presented'
<1>1. ASSUME UNCHANGED <<pc, task>> PROVE HistoryShows'
  <2>1. CASE pc \in Loop
    BY <1>1, <2>1, HistoryStays
  <2>2. CASE pc \notin Loop
    BY <1>1, <2>2, OutOfTheLoop
  <2> QED BY <2>1, <2>2
<1>2. ASSUME CommitStep PROVE Presented'
  <2>1. UNCHANGED <<pc, task>> /\ (AppendRecord \/ ProjectRecord)
    BY <1>2 DEF CommitStep, volatile
  <2>2. ~Committing'
    <3>1. Projecting' \/ commit' = Idle
      BY <2>1, CommitStepIs DEF Presented, Sound, Ordered, TypeOK
    <3> QED BY <3>1 DEF Projecting, Committing, Idle
  <2> QED BY <1>1, <2>1, <2>2, QuietPresented
<1>3. ASSUME CommitFails PROVE Presented'
  <2>1. /\ AppendFails
        /\ UNCHANGED <<pc, task>> \/ pc' \in {"ending", "left"}
    BY <1>3 DEF CommitFails, Leave
  <2>2. ~Committing'
    BY <2>1 DEF AppendFails, Committing, Idle
  <2>3. HistoryShows'
    BY <1>1, <2>1, OutOfTheLoop DEF Loop
  <2> QED BY <2>2, <2>3, QuietPresented
<1>4. ASSUME NEW i \in Inputs, Send(i) PROVE Presented'
  <2>1. ~Committing' /\ UNCHANGED <<pc, task>>
    BY <1>4 DEF Send, SendInput, StoreIdle, volatile, Committing, Idle
  <2> QED BY <1>1, <2>1, QuietPresented
<1>5. ASSUME NEW c \in Calls, Dispatch(c) \/ Return(c) PROVE Presented'
  <2>1. UNCHANGED rolloutVars /\ UNCHANGED <<pc, task>>
    BY <1>5 DEF Dispatch, Return
  <2> QED BY <1>1, <2>1, SteadyPresented
<1>6. ASSUME Cancel \/ UNCHANGED vars PROVE Presented'
  <2>1. UNCHANGED rolloutVars /\ UNCHANGED <<pc, task>>
    BY <1>6 DEF Cancel, vars, volatile
  <2> QED BY <1>1, <2>1, SteadyPresented
<1> QED BY <1>2, <1>3, <1>4, <1>5, <1>6

(* The task begins with what the file says.                                *)
LEMMA LoadPresented ==
  ASSUME Presented, [Next]_vars, Load
  PROVE  Presented'
<1>1. /\ commit' = Idle /\ task \in TaskType
      /\ pc' = "left" \/ (pc' \in {"reconcile", "begin"} /\ task' = [task EXCEPT
           !.resumed = Canonical'.begun, !.history = Canonical'.context,
           !.context = Canonical'.context, !.step = Canonical'.steps,
           !.total = Canonical'.used, !.last = Canonical'.last])
  BY WithTask DEF Load, At, StoreIdle, Scan, rolloutVars
<1>2. ~Committing'
  BY <1>1 DEF Committing, Idle
<1>3. CASE pc' = "left"
  BY <1>2, <1>3, OutOfTheLoop, QuietPresented DEF Loop
<1>4. CASE pc' # "left"
  <2>1. PICK read : read = Canonical'
    OBVIOUS
  <2>2. task'.history = read.context /\ task'.context = read.context
    BY <1>1, <1>4, <2>1 DEF TaskType
  <2>3. Once(read.context)
    BY <2>1, FilesShowStep DEF FilesShow
  <2>4. Once(history') /\ \A i \in Inputs : Shown(i, history') => Shown(i, task'.context)
    BY <2>2, <2>3 DEF history
  <2>5. HistoryShows'
    BY <2>4 DEF HistoryShows
  <2> QED BY <1>2, <2>5, QuietPresented
<1> QED BY <1>3, <1>4

(* Steps that leave the history as it is                                   *)
LEMMA SameHistoryPresented ==
  ASSUME Presented, [Next]_vars
  PROVE  /\ Reconcile \/ CompactStart \/ SampleRetry \/ Announce => Presented'
         /\ \A c \in Calls : FinishStep(c) => Presented'
<1>1. ASSUME pc \in Loop, commit' = Idle, pc \in {"window", "compacting", "prompt"}
               => pc' \in {"window", "compacting", "prompt"} /\ task'.acks = task.acks,
             task'.history = task.history, task'.context = task.context
      PROVE  Presented'
  <2>1. ~Committing'
    BY <1>1 DEF Committing, Idle
  <2> QED BY <1>1, <2>1, HistoryStays, QuietPresented
<1>2. task \in TaskType
  BY WithTask
<1>3. ASSUME Reconcile \/ Announce PROVE Presented'
  <2>1. pc \in {"reconcile", "announce"} /\ commit' = Idle /\ task' = task
    BY <1>3 DEF Reconcile, Announce, At, StoreIdle, rolloutVars
  <2> QED BY <1>1, <2>1 DEF Loop
<1>4. ASSUME CompactStart PROVE Presented'
  <2>1. pc = "window" /\ pc' = "compacting" /\ commit' = Idle
    BY <1>4 DEF CompactStart, At, StoreIdle, rolloutVars
  <2>2. task'.history = task.history /\ task'.context = task.context /\ task'.acks = task.acks
    BY <1>2, <1>4 DEF CompactStart, TaskType
  <2> QED BY <1>1, <2>1, <2>2 DEF Loop
<1>5. ASSUME SampleRetry PROVE Presented'
  <2>1. pc = "sample" /\ commit' = Idle
    BY <1>5 DEF SampleRetry, At, StoreIdle
  <2>2. task'.history = task.history /\ task'.context = task.context
    BY <1>2, <1>5 DEF SampleRetry, TaskType
  <2> QED BY <1>1, <2>1, <2>2 DEF Loop
<1>6. ASSUME NEW c \in Calls, FinishStep(c) PROVE Presented'
  <2>1. pc = "tools" /\ commit' = Idle
    BY <1>6 DEF FinishStep, At, StoreIdle, rolloutVars
  <2>2. task'.history = task.history /\ task'.context = task.context
    BY <1>2, <1>6 DEF FinishStep, TaskType
  <2> QED BY <1>1, <2>1, <2>2 DEF Loop
<1> QED BY <1>3, <1>4, <1>5, <1>6
-----------------------------------------------------------------------------
(* Steps that add to the history, and save it                              *)

LEMMA HistoryIs ==
  ASSUME Presented
  PROVE  /\ pc \in Loop => Once(history)
         /\ pc \in Loop \ {"window", "compacting", "prompt"} =>
              \A i \in Inputs : Shown(i, history) => Shown(i, task.context)
         /\ pc \in {"window", "compacting", "prompt"} =>
              \A i \in Inputs : Shown(i, history) => Shown(i, task.context) \/ i \in task.acks
BY DEF Presented, HistoryShows, Loop

(* What adds no input to a saved history may be saved with it.             *)
LEMMA SavesMute ==
  ASSUME Presented, [Next]_vars, pc \in Loop \ {"window", "compacting", "prompt"},
         NEW items, NEW more, Joins(items, history, more, Item), Mute(more),
         NEW total, NEW step, NEW last, Save(items, total, step, last, {})
  PROVE  Presented'
<1>1. Once(history) /\ \A i \in Inputs : Shown(i, history) => Shown(i, task.context)
  BY HistoryIs
<1>2. Once(items) /\ \A i \in Inputs : Shown(i, items) => Shown(i, task.context)
  BY <1>1, MuteJoins
<1>3. items \in Seq(Item)
  BY JoinedItems
<1> QED BY <1>2, <1>3, SavePresented

LEMMA RepairPresented ==
  ASSUME Presented, [Next]_vars, Repair
  PROVE  Presented'
<1>1. pc = "repair" /\ pc' = "begin" /\ StoreIdle /\ pc \in Loop
  BY DEF Repair, At, Loop
<1>2. history \in Seq(Item)
  BY WithTask
<1>3. CASE Unanswered(history) = {}
  <2>1. UNCHANGED task /\ ~Committing'
    BY <1>1, <1>3 DEF Repair, rolloutVars, StoreIdle, Committing, Idle
  <2> QED BY <1>1, <2>1, HistoryStays, QuietPresented
<1>4. CASE Unanswered(history) # {}
  <2>1. PICK open : open = Unanswered(history)
    OBVIOUS
  <2>2. IsFiniteSet(open) /\ open \in SUBSET Calls
    BY <1>2, <2>1, CallsAreFew
  <2>3. PICK items : items = history \o EachOf("aborted", open)
    OBVIOUS
  <2>4. Joins(items, history, EachOf("aborted", open), Item)
    BY <1>2, <2>2, <2>3, EachType DEF Joins
  <2>5. Mute(EachOf("aborted", open))
    BY <2>2, EachIsMute
  <2>6. Save(items, task.total, task.step, task.last, {})
    <3>1. Save(history \o Each(Aborted, open), task.total, task.step, task.last, {})
      BY <1>4, <2>1 DEF Repair
    <3> QED BY <2>3, <3>1, EachIs
  <2> QED BY <1>1, <2>4, <2>5, <2>6, SavesMute
<1> QED BY <1>3, <1>4

LEMMA BeginPresented ==
  ASSUME Presented, [Next]_vars, Begin
  PROVE  Presented'
<1>1. pc = "begin" /\ ~Committing' /\ pc \in Loop
  BY DEF Begin, At, Loop, StoreIdle, rolloutVars, Committing, Idle
<1>2. /\ history \in Seq(Item) /\ task \in TaskType /\ Turn \in Turns
      /\ Once(history) /\ \A i \in Inputs : Shown(i, history) => Shown(i, task.context)
  BY <1>1, WithTask, HistoryIs
<1>3. CASE UNCHANGED task
  BY <1>1, <1>3, HistoryStays, QuietPresented
<1>4. CASE ~UNCHANGED task
  <2>1. PICK items : items = IF task.resumed THEN history ELSE Append(history, Ask(Turn))
    OBVIOUS
  <2>2. PICK known : known = CallsIn(items) \cup Answered(items)
    OBVIOUS
  <2>3. task' = [task EXCEPT !.history = items, !.step = @ + 1, !.known = known]
    BY <1>4, <2>1, <2>2 DEF Begin
  <2>4. task'.history = items /\ task'.context = task.context
    BY <1>2, <2>3 DEF TaskType
  <2>5. Once(items) /\ \A i \in Inputs : Shown(i, items) => Shown(i, task.context)
    <3>1. CASE task.resumed
      BY <1>2, <2>1, <3>1
    <3>2. CASE ~task.resumed
      <4>1. Joins(items, history, <<Ask(Turn)>>, Item)
        BY <1>2, <2>1, <3>2, ItemsAre, AppendsItem
      <4> QED BY <1>2, <4>1, MuteJoins, OthersAreMute
    <3> QED BY <3>1, <3>2
  <2>6. Once(history') /\ \A i \in Inputs : Shown(i, history') => Shown(i, task'.context)
    BY <2>4, <2>5 DEF history
  <2>7. HistoryShows'
    BY <2>6 DEF HistoryShows
  <2> QED BY <1>1, <2>7, QuietPresented
<1> QED BY <1>3, <1>4

(* What the context shows is applied, so it cannot be claimed again.       *)
LEMMA ShownIsNotClaimable ==
  ASSUME Presented, At("top"), NEW i \in Inputs, Shown(i, history)
  PROVE  i \notin Claimable(Turn)
<1>1. pc \in Loop \ {"window", "compacting", "prompt"} /\ StoreIdle
  BY DEF At, Loop
<1>2. Shown(i, task.context)
  BY <1>1, HistoryIs
<1>3. Latest.context = task.context /\ Settled
  BY <1>1, AtItsFile DEF Presented
<1>4. AckedIn(Records, i)
  BY <1>2, <1>3 DEF Presented, FilesShow, StateShows, Acked
<1>5. ~damaged /\ projected = Len(file) /\ Records = file
  <2>1. ~Projecting
    BY <1>1 DEF StoreIdle, Projecting, Idle
  <2>2. trailing = <<>> /\ StoreType(Item)
    BY <1>3 DEF Settled, Presented, Sound, Ordered, TypeOK
  <2> QED BY <1>3, <2>1, <2>2, WholeType DEF Settled
<1>6. DOMAIN file = 1..Len(file)
  BY LenProperties DEF Presented, Sound, Ordered, TypeOK, StoreType
<1>7. rows.input[i] = "applied"
  BY <1>4, <1>5, <1>6 DEF AckedIn, Presented, AcksApplied
<1> QED BY <1>7 DEF Claimable

LEMMA TopPresented ==
  ASSUME Presented, [Next]_vars, Top
  PROVE  Presented'
<1>1. pc = "top" /\ ~Committing' /\ pc \in Loop /\ At("top")
  BY DEF Top, At, Loop, StoreIdle, rolloutVars, ClaimInputs, Committing, Idle
<1>2. /\ history \in Seq(Item) /\ task \in TaskType /\ Turn \in Turns
      /\ Once(history) /\ \A i \in Inputs : Shown(i, history) => Shown(i, task.context)
  BY <1>1, WithTask, HistoryIs
<1>3. CASE pc' = "ending"
  BY <1>1, <1>3, OutOfTheLoop, QuietPresented DEF Loop
<1>4. CASE pc' # "ending"
  <2>1. PICK got \in FewInputs : got = Claimable(Turn)
    BY <1>2, ClaimableIsFew DEF Presented, Sound, Ordered, TypeOK, StoreType, StoreIsInOrder
  <2>2. PICK all : all = history \o Showing(got)
    OBVIOUS
  <2>3. /\ pc' = "window"
        /\ task' = [task EXCEPT !.acks = got,
                     !.final = @ \/ {i \in got : Kind[i] = "finish"} # {}, !.history = all]
    <3>1. InOrder(Said, {i \in got : Kind[i] = "message"}) = SaidOf({i \in got : Kind[i] = "message"})
      BY ShowingType
    <3>2. (history \o (IF {i \in got : Kind[i] = "finish"} = {} THEN <<>>
                       ELSE <<Said(Max({i \in got : Kind[i] = "finish"}))>>))
                      \o SaidOf({i \in got : Kind[i] = "message"}) = all
      BY <1>2, <2>2, ShowingType
    <3> QED BY <1>4, <2>1, <3>1, <3>2 DEF Top, Leave, history
  <2>4. task'.history = all /\ task'.context = task.context /\ task'.acks = got
    BY <1>2, <2>3 DEF TaskType
  <2>5. Joins(all, history, Showing(got), Item)
    BY <1>2, <2>2, ShowingType DEF Joins
  <2>6. Once(Showing(got)) /\ \A i \in Inputs : Shown(i, Showing(got)) => i \in got
    BY ShowingShows
  <2>7. \A i \in Inputs : ~(Shown(i, history) /\ Shown(i, Showing(got)))
    BY <1>1, <2>1, <2>6, ShownIsNotClaimable
  <2>8. Once(all) /\ \A i \in Inputs : Shown(i, all) => Shown(i, task.context) \/ i \in got
    BY <1>2, <2>5, <2>6, <2>7, JoinedShow
  <2>9. /\ Once(history')
        /\ \A i \in Inputs : Shown(i, history') =>
             Shown(i, task'.context) \/ (i \in task'.acks /\ pc' \in {"window", "compacting", "prompt"})
    BY <2>3, <2>4, <2>8 DEF history
  <2>10. HistoryShows'
    BY <2>9 DEF HistoryShows
  <2> QED BY <1>1, <2>10, QuietPresented
<1> QED BY <1>3, <1>4

LEMMA CompactPresented ==
  ASSUME Presented, [Next]_vars, CompactDone
  PROVE  Presented'
<1>1. pc = "compacting" /\ pc' = "prompt" /\ ~Committing' /\ pc \in Loop
  BY DEF CompactDone, At, StoreIdle, rolloutVars, Committing, Idle, Loop
<1>2. history \in Seq(Item) /\ task \in TaskType
  BY WithTask
<1>3. PICK h : h = Compacted(history)
  OBVIOUS
<1>4. task'.context = task.context /\ task'.history = h /\ task'.acks = task.acks
  BY <1>2, <1>3 DEF CompactDone, TaskType, history
<1>5. Once(h) /\ \A i \in Inputs : Shown(i, h) => Shown(i, history)
  BY <1>1, <1>2, <1>3, HistoryIs, CompactedShows
<1>6. \A i \in Inputs : Shown(i, h) => Shown(i, task.context) \/ i \in task.acks
  BY <1>1, <1>5, HistoryIs
<1>7. /\ Once(history')
      /\ \A i \in Inputs : Shown(i, history') =>
           Shown(i, task'.context) \/ (i \in task'.acks /\ pc' \in {"window", "compacting", "prompt"})
  BY <1>1, <1>4, <1>5, <1>6 DEF history
<1>8. HistoryShows'
  BY <1>7 DEF HistoryShows
<1> QED BY <1>1, <1>8, QuietPresented

LEMMA PromptPresented ==
  ASSUME Presented, [Next]_vars, Prompt
  PROVE  Presented'
<1>1. pc \in {"prompt", "window"} /\ StoreIdle /\ pc \in Loop
  BY PromptIs DEF At, Loop
<1>2. /\ history \in Seq(Item) /\ Once(history)
      /\ \A i \in Inputs : Shown(i, history) => Shown(i, task.context) \/ i \in task.acks
  BY <1>1, WithTask, HistoryIs
<1>3. CASE Leave("Failed") /\ UNCHANGED rolloutVars
  <2>1. ~Committing' /\ pc' = "ending"
    BY <1>1, <1>3 DEF rolloutVars, StoreIdle, Committing, Idle, Leave
  <2> QED BY <2>1, OutOfTheLoop, QuietPresented DEF Loop
<1>4. CASE Save(Sampled, task.total, task.step - 1, FALSE, task.acks)
  <2>1. PICK items, all : items = Sampled /\ all = Prompted
    OBVIOUS
  <2>1a. /\ all \in Seq(Item) /\ all # <<>> /\ Once(all)
         /\ \A i \in Inputs : Shown(i, all) => Shown(i, history)
    <3>1. CASE all = history
      BY <1>1, <1>2, <3>1 DEF Presented, Sound, TaskIsSound, HistoryIsSound
    <3>2. CASE all = Append(history, FinishNow)
      <4>1. Joins(all, history, <<FinishNow>>, Item)
        BY <1>2, <3>2, AppendsItem, ItemsAre
      <4>2. all # <<>>
        BY <4>1, JoinedNonempty
      <4> QED BY <1>2, <4>1, <4>2, MuteJoins, OthersAreMute, JoinedItems
    <3> QED BY <2>1, <3>1, <3>2 DEF Prompted
  <2>2. /\ items \in Seq(Item) /\ Once(items)
        /\ \A i \in Inputs : Shown(i, items) => Shown(i, history)
    <3>1. Thins(items, all)
      BY <2>1, <2>1a, TrimThins DEF Sampled
    <3> QED BY <2>1a, <3>1, ThinnedKeeps, ThinnedShows
  <2>3. \A i \in Inputs : Shown(i, items) => Shown(i, task.context) \/ i \in task.acks
    BY <1>2, <2>2
  <2> QED BY <1>1, <1>4, <2>1, <2>2, <2>3, SavePresented
<1> QED BY <1>3, <1>4, PromptIs

LEMMA AnswerPresented ==
  ASSUME Presented, [Next]_vars, SampleAnswer
  PROVE  Presented'
<1>1. pc = "sample" /\ history \in Seq(Item) /\ Turn \in Turns
  BY WithTask DEF SampleAnswer, At
<1>2. PICK items : items = Append(history, Answer(Turn))
  OBVIOUS
<1>3. Joins(items, history, <<Answer(Turn)>>, Item)
  BY <1>1, <1>2, AppendsItem, ItemsAre
<1>4. Save(items, task.total + task.wasted + 1, task.step, TRUE, {})
  BY <1>2 DEF SampleAnswer
<1>5. Mute(<<Answer(Turn)>>)
  BY OthersAreMute
<1> QED BY <1>1, <1>3, <1>4, <1>5, SavesMute DEF Loop

LEMMA CollectPresented ==
  ASSUME Presented, [Next]_vars, NEW c \in Calls, Collect(c)
  PROVE  Presented'
<1>1. pc = "tools" /\ history \in Seq(Item)
  BY WithTask DEF Collect, At
<1>2. PICK items : items = Append(history, Out(c))
  OBVIOUS
<1>3. Joins(items, history, <<Out(c)>>, Item)
  BY <1>1, <1>2, AppendsItem, ItemsAre
<1>4. Save(items, task.total, task.step, FALSE, {})
  BY <1>2 DEF Collect
<1>5. Mute(<<Out(c)>>)
  BY OthersAreMute
<1> QED BY <1>1, <1>3, <1>4, <1>5, SavesMute DEF Loop

LEMMA CallsPresented ==
  ASSUME Presented, [Next]_vars, NEW S \in Responses, SampleCalls(S)
  PROVE  Presented'
<1>1. /\ pc = "sample" /\ pc \in Loop /\ StoreIdle
      /\ Commit(CallRecord(S)) /\ task' = CallTask(S)
  BY SampleCallsIs DEF At, Loop
<1>2. S \in SUBSET Calls /\ IsFiniteSet(S)
  BY ResponsesAre
<1>3. history \in Seq(Item) /\ task \in TaskType /\ history = task.context
  BY <1>1, WithTask DEF Presented, Sound, TaskIsSound, HistoryIsSound
<1>4. PICK items : items = history \o CallItems(S)
  OBVIOUS
<1>5. Joins(items, history, EachOf("call", S), Item)
  BY <1>2, <1>3, <1>4, EachType DEF Joins, CallItems
<1>6. Once(items) /\ \A i \in Inputs : Shown(i, items) => Shown(i, task.context)
  <2>1. Once(history) /\ \A i \in Inputs : Shown(i, history) => Shown(i, task.context)
    BY <1>1, HistoryIs
  <2> QED BY <1>2, <1>5, <2>1, EachIsMute, MuteJoins
<1>7. task'.history = items /\ task'.context = items
  BY <1>1, <1>3, <1>4 DEF CallTask, TaskType
<1>8. PICK r : r = CallRecord(S)
  OBVIOUS
<1>9. r.replace = FALSE /\ r.items = CallItems(S)
  BY <1>8 DEF CallRecord, Checkpoint
<1>10. Latest.context = history
  BY <1>1, <1>3, AtItsFile DEF Presented
<1>11. Adopts(Latest, r)
  BY <1>3, <1>4, <1>6, <1>9, <1>10 DEF Adopts, NewContext
<1>12. Once(history') /\ \A i \in Inputs : Shown(i, history') => Shown(i, task'.context)
  BY <1>6, <1>7 DEF history, Shown
<1>13. HistoryShows'
  BY <1>12 DEF HistoryShows
<1> QED BY <1>1, <1>8, <1>11, <1>13, CommitPresented
-----------------------------------------------------------------------------
LEMMA PresentedInit == Init => Presented
<1> SUFFICES ASSUME Init PROVE Presented
  OBVIOUS
<1>1. Sound
  BY SoundInit
<1>2. file = <<>> /\ trailing = <<>> /\ commit = Idle /\ pc = "off" /\ projected = 0
  BY DEF Init, RolloutInit
<1>3. Records = <<>>
  BY <1>2, ConcatEmptySeq, EmptySeq DEF Records, Whole, Torn
<1>4. NoTurn(<<>>) \in StateOf(Item)
  BY EmptySeq, NoTurnType
<1>5. PICK S : S = NoTurn(<<>>)
  OBVIOUS
<1>6. Latest = S /\ Canonical = S
  BY <1>2, <1>3, <1>4, <1>5, ReadsNothing DEF Latest, Canonical
<1>7. S.context = <<>> /\ S.committed = <<>>
  BY <1>5 DEF NoTurn
<1>8. FilesShow
  BY <1>6, <1>7, OthersAreMute, MuteIsOnce DEF FilesShow, StateShows, Mute
<1>9. AcksApplied
  BY <1>2 DEF AcksApplied
<1>10. CommitShows /\ HistoryShows
  BY <1>2 DEF CommitShows, HistoryShows, Committing, Idle, Loop
<1> QED BY <1>1, <1>8, <1>9, <1>10 DEF Presented

LEMMA PresentedStep == Presented /\ [Next]_vars => Presented'
<1> SUFFICES ASSUME Presented, [Next]_vars PROVE Presented'
  OBVIOUS
<1>1. CASE TaskStep
  <2>1. CASE (\E t \in Turns : Attach(t) \/ TakeUp(t) \/ ActionRecovers(t))
             \/ StartTurn \/ Load \/ TaskEnds
    BY <2>1, EdgesPresented, LoadPresented
  <2>2. CASE Reconcile \/ Repair \/ Begin \/ Top \/ CompactStart \/ CompactDone
             \/ CompactFails \/ BeginFails \/ Prompt
    BY <2>2, SameHistoryPresented, RepairPresented, BeginPresented, TopPresented,
       CompactPresented, LeavesPresented, PromptPresented
  <2>3. CASE SampleAnswer \/ (\E S \in Responses : SampleCalls(S)) \/ SampleDuplicate
             \/ SampleRetry \/ SampleFails \/ SampleCancelled
    BY <2>3, AnswerPresented, CallsPresented, LeavesPresented, SameHistoryPresented
  <2>4. CASE Announce \/ (\E c \in Calls : Dispatch(c) \/ Collect(c) \/ FinishStep(c))
             \/ Complete \/ FinishPending \/ EndTurn
    BY <2>4, SameHistoryPresented, OthersPresented, CollectPresented, EdgesPresented
  <2> QED BY <1>1, <2>1, <2>2, <2>3, <2>4 DEF TaskStep
<1>2. CASE UNCHANGED vars
  BY <1>2, OthersPresented
<1>3. CASE ~TaskStep /\ Next
  BY <1>3, EdgesPresented, OthersPresented DEF Next
<1> QED BY <1>1, <1>2, <1>3

(* What a context shows of the Agent's inputs the records that show it     *)
(* acknowledge, and what the projected records acknowledge is applied: no  *)
(* context, saved or in memory, shows an input twice.                      *)
THEOREM TurnPresented == Spec => []Presented
  BY PresentedInit, PresentedStep, PTL DEF Spec

(* However often a crash or a failed write interrupts its Turn, a message  *)
(* or a finish enters its Agent's context once, is applied when it is in   *)
(* it, and is not held for a Turn that is over (claim_agent_inputs,        *)
(* apply_agent_input_acknowledgements_tx, apply_rollout_record_tx).        *)
THEOREM TurnShowsInputsOnce == Spec => []InputsShownOnce
<1>1. Presented => InputsShownOnce
  <2> SUFFICES ASSUME Presented PROVE InputsShownOnce
    OBVIOUS
  <2>1. ClaimsEndWithTheirTurn
    BY DEF Presented, Sound, Ordered, StoreIsInOrder, ClaimsSound, ClaimsEndWithTheirTurn
  <2>2. PICK items : items = Canonical.context
    OBVIOUS
  <2>3. StoreType(Item) /\ items \in Seq(Item)
    <3>1. StoreType(Item)
      BY DEF Presented, Sound, Ordered, TypeOK
    <3>2. PICK S \in StateOf(Item) : S = Canonical
      BY <3>1, LatestType
    <3> QED BY <2>2, <3>1, <3>2 DEF StateOf
  <2>4. ASSUME NEW i \in Inputs
        PROVE  LET shown == {n \in DOMAIN items : items[n] = Said(i)}
               IN /\ Cardinality(shown) <= 1
                  /\ shown # {} /\ commit = Idle /\ mishaps.fault = 0 => rows.input[i] = "applied"
    <3> DEFINE shown == {n \in DOMAIN items : items[n] = Said(i)}
    <3>1. \A m, n \in shown : m = n
      BY <2>2 DEF Presented, FilesShow, Once
    <3>2. Cardinality(shown) <= 1
      <4>1. CASE shown = {}
        BY <4>1, FS_EmptySet
      <4>2. CASE shown # {}
        <5>1. PICK n : shown = {n}
          BY <3>1, <4>2
        <5> QED BY <5>1, FS_Singleton
      <4> QED BY <4>1, <4>2
    <3>3. ASSUME shown # {}, commit = Idle, mishaps.fault = 0 PROVE rows.input[i] = "applied"
      <4>1. Settled /\ ~Projecting
        BY <3>3 DEF Presented, Sound, Ordered, StoreIsInOrder, Projecting, Idle
      <4>2. Records = file /\ ~damaged /\ projected = Len(file)
        BY <2>3, <4>1, WholeType DEF Settled
      <4>3. Latest = Canonical
        BY <4>2 DEF Latest, Canonical
      <4>4. Shown(i, items)
        BY <3>3 DEF Shown
      <4>5. AckedIn(Records, i)
        BY <2>2, <4>3, <4>4 DEF Presented, FilesShow, StateShows, Acked
      <4>6. DOMAIN file = 1..Len(file)
        BY <2>3, LenProperties DEF StoreType
      <4> QED BY <4>2, <4>5, <4>6 DEF AckedIn, Presented, AcksApplied
    <3> QED BY <3>2, <3>3
  <2> QED BY <2>1, <2>2, <2>4 DEF InputsShownOnce
<1> QED BY <1>1, TurnPresented, PTL
-----------------------------------------------------------------------------
(* What the Session is charged beside its records, what is owed for the    *)
(* samples of the task, and what no record will ever charge                *)
Seen  == Upto(EmptyRows, file, projected)
Aside == rows.tokens - Seen.tokens
Due   == IF pc \in Loop THEN task.total - Told.used[Turn] + task.wasted ELSE 0
Lost  == spent - (Aside + Told.tokens + Due)

Undisturbed == mishaps.crash = 0 /\ mishaps.fault = 0
Short == TerminalTurn \ {"Completed"}
FallsShort ==
  \/ pc \in Leaving
  \/ commit # Idle /\ commit.record.kind = "updated" /\ commit.record.status \in Short
  \/ \E t \in Turns : rows.status[t] \in Short

(* The total of a Turn in the file is what the rows will say of it.        *)
TurnsAreNew ==
  /\ commit # Idle /\ commit.record.kind = "created" => rows.status[commit.record.turn] = "none"
  /\ ~damaged => \A t \in Turns : Told.status[t] = "none" => Told.used[t] = 0
  /\ ~damaged /\ Latest.turn # 0 => Latest.used = Told.used[Latest.turn]

TaskTotals ==
  /\ pc \in (Loop \ {"sample"}) \cup {"start", "load"} => task.wasted = 0
  /\ pc \in Loop =>
       /\ Told.used[Turn] <= task.total
       /\ Committing => /\ commit.record.turn = Turn /\ commit.record.used = task.total
                        /\ task.wasted = 0
       /\ pc # "prompt" /\ ~Committing => task.total = Told.used[Turn]

RowIsOpen ==
  Undisturbed /\ pc \in Loop \cup Leaving =>
    rows.status[Turn] \in OpenTurn /\ (pc \in Leaving => commit = Idle)

Charged ==
  /\ rows.tokens <= spent
  /\ ~damaged => 0 <= Lost
  /\ Undisturbed => Lost = 0 \/ FallsShort

Counted == Sound /\ TurnsAreNew /\ TaskTotals /\ RowIsOpen /\ Charged
-----------------------------------------------------------------------------
(* The Store                                                               *)
LEMMA UsedAfter ==
  ASSUME NEW db \in RowsType, NEW r \in RecordOf(Item)
  PROVE  LET next == Project(db, r)
         IN /\ next \in RowsType
            /\ r.kind # "checkpoint" => next.tokens = db.tokens /\ next.used = db.used
            /\ r.kind = "checkpoint" =>
                 /\ next.tokens = db.tokens + Saturating(r.used, db.used[r.turn])
                 /\ next.used = [db.used EXCEPT ![r.turn] = r.used]
                 /\ r.used \in Nat /\ r.turn \in Turns
<1>1. r.kind \in {"created", "checkpoint", "updated"} /\ Project(db, r) \in RowsType
  BY KindsAre, ProjectType
<1>2. CASE r.kind = "created"
  BY <1>1, <1>2, ProjectCreated
<1>3. CASE r.kind = "updated"
  BY <1>1, <1>3, ProjectUpdated
<1>4. CASE r.kind = "checkpoint"
  <2>1. r.used \in Nat /\ r.turn \in Turns
    BY <1>4, KindsAre DEF CheckpointRecord
  <2> QED BY <1>1, <1>4, <2>1, ProjectCheckpoint DEF TokensAfter
<1> QED BY <1>1, <1>2, <1>3, <1>4

LEMMA SaturatingIs ==
  \A a, b \in Nat : /\ Saturating(a, b) \in Nat
                    /\ b <= a => Saturating(a, b) = a - b
BY DEF Saturating

(* Records only ever add to the tokens.                                    *)
LEMMA TokensGrow ==
  ASSUME NEW base \in RowsType, NEW s \in Seq(RecordOf(Item))
  PROVE  base.tokens <= Replay(Project, base, s).tokens
<1> DEFINE G == {db \in RowsType : base.tokens <= db.tokens}
<1>1. base.tokens \in Nat /\ base \in G
  BY DEF RowsType
<1>2. ASSUME NEW db \in RowsType, NEW r \in RecordOf(Item), db \in G
      PROVE  Project(db, r) \in G
  <2>1. PICK next : next = Project(db, r)
    OBVIOUS
  <2>2. /\ next \in RowsType
        /\ r.kind # "checkpoint" => next.tokens = db.tokens
        /\ r.kind = "checkpoint" => /\ next.tokens = db.tokens + Saturating(r.used, db.used[r.turn])
                                    /\ r.used \in Nat /\ r.turn \in Turns
    BY <2>1, UsedAfter
  <2>3. db.tokens \in Nat /\ db.used \in [Turns -> Nat] /\ base.tokens <= db.tokens
    BY <1>2, RowsAreARecord
  <2>4. base.tokens <= next.tokens
    <3>1. CASE r.kind # "checkpoint"
      BY <2>2, <2>3, <3>1
    <3>2. CASE r.kind = "checkpoint"
      <4>1. Saturating(r.used, db.used[r.turn]) \in Nat
        BY <2>2, <2>3, <3>2, SaturatingIs
      <4>2. next.tokens = db.tokens + Saturating(r.used, db.used[r.turn])
        BY <2>2, <3>2
      <4> QED BY <1>1, <2>3, <4>1, <4>2
    <3> QED BY <3>1, <3>2
  <2> QED BY <2>1, <2>2, <2>4
<1> HIDE DEF G
<1>3. Replay(Project, base, s) \in G
  BY <1>1, <1>2, ReplayKeeps
<1> QED BY <1>3 DEF G

LEMMA Divided ==
  ASSUME NEW B, NEW s \in Seq(B), NEW k \in 0..Len(s)
  PROVE  Joins(s, SubSeq(s, 1, k), SubSeq(s, k + 1, Len(s)), B)
<1>1. Len(s) \in Nat /\ \A n \in 1..Len(s) : s[n] \in B
  BY LenProperties, ElementOfSeq
<1>2. SubSeq(s, 1, k) \in Seq(B) /\ SubSeq(s, k + 1, Len(s)) \in Seq(B)
  BY <1>1, SubSeqProperties
<1>3. /\ 1 \in 1..(Len(s) + 1) /\ k \in (1 - 1)..Len(s)
      /\ Len(s) \in k..Len(s)
  BY <1>1
<1>4. SubSeq(s, 1, k) \o SubSeq(s, k + 1, Len(s)) = SubSeq(s, 1, Len(s))
  BY <1>3, ConcatAdjacentSubSeq
<1>5. SubSeq(s, 1, Len(s)) = s
  BY SubSeqFull
<1> QED BY <1>2, <1>4, <1>5 DEF Joins

LEMMA SeenType ==
  ASSUME StoreType(Item), StoreIsInOrder, ~damaged
  PROVE  /\ Seen \in RowsType /\ Agree(rows, Seen)
         /\ Seen.tokens \in Nat /\ Seen.tokens <= Told.tokens
         /\ Told \in RowsType /\ Told.tokens \in Nat /\ rows.tokens \in Nat
<1>1. /\ file \in Seq(RecordOf(Item)) /\ projected \in 0..Len(file) /\ rows \in RowsType
      /\ Agree(rows, Seen)
  BY DEF StoreType, StoreIsInOrder, Seen
<1>2. Seen \in RowsType
  BY <1>1, ProjectUpto, EmptyRowsType DEF Seen
<1>3. /\ Records \in Seq(RecordOf(Item)) /\ Len(file) <= Len(Records)
      /\ SubSeq(Records, 1, projected) = SubSeq(file, 1, projected)
  BY <1>1, WholeType, RecordsBegin
<1>4. PICK s, t : /\ s = SubSeq(Records, 1, projected)
                  /\ t = SubSeq(Records, projected + 1, Len(Records))
  OBVIOUS
<1>5. Joins(Records, s, t, RecordOf(Item))
  <2>1. projected \in 0..Len(Records)
    BY <1>1, <1>3, LenProperties
  <2> QED BY <1>3, <1>4, <2>1, Divided
<1>6. Told = Replay(Project, Seen, t)
  <2>1. Replay(Project, EmptyRows, s) = Seen
    BY <1>3, <1>4 DEF Seen, Upto
  <2> QED BY <1>5, <2>1, ReplayConcat, EmptyRowsType DEF Told
<1>7. Seen.tokens <= Told.tokens
  BY <1>2, <1>5, <1>6, TokensGrow DEF Joins
<1>9. Told \in RowsType
  BY ToldType
<1> QED BY <1>1, <1>2, <1>7, <1>9, RowsAreARecord

LEMMA ShiftedIs ==
  ASSUME StoreType(Item), StoreIsInOrder, ~damaged
  PROVE  Seen \in RowsType /\ rows \in RowsType /\ Aside \in Int /\ Shifted(Seen, rows, Aside)
<1>1. /\ Seen \in RowsType /\ rows \in RowsType /\ Agree(rows, Seen)
      /\ Seen.tokens \in Nat /\ rows.tokens \in Nat
  BY SeenType DEF StoreType
<1>2. Aside \in Int /\ rows.tokens = Seen.tokens + Aside
  BY <1>1 DEF Aside
<1>3. Agree(Seen, rows)
  BY <1>1 DEF Agree
<1> QED BY <1>1, <1>2, <1>3 DEF Shifted

LEMMA ShiftedAgain ==
  ASSUME NEW old \in Int, NEW seen \in RowsType, NEW after, Shifted(seen, after, old),
         seen = Seen', after = rows'
  PROVE  Aside' = old
BY RowsAreARecord DEF Aside, Shifted

(* Nothing is charged aside by what writes the file, projects or reopens it*)
LEMMA AsideWritten ==
  ASSUME StoreType(Item), StoreIsInOrder, ~damaged, ~damaged',
         AppendRecord \/ ProjectRecord \/ \E survives \in BOOLEAN : Reopen(survives)
  PROVE  Aside' = Aside
<1>1. /\ Seen \in RowsType /\ rows \in RowsType /\ Aside \in Int /\ Shifted(Seen, rows, Aside)
      /\ file \in Seq(RecordOf(Item)) /\ projected \in 0..Len(file) /\ Len(file) \in Nat
  BY ShiftedIs, LenProperties DEF StoreType, StoreIsInOrder
<1>2. CASE AppendRecord
  <2>1. commit.record \in RecordOf(Item)
    BY <1>2, CommitTypes DEF AppendRecord, Idle
  <2>2. /\ file' = Append(file, commit.record) /\ projected' = projected /\ rows' = rows
    BY <1>2 DEF AppendRecord
  <2>3. SubSeq(Append(file, commit.record), 1, projected) = SubSeq(file, 1, projected)
    BY <1>1, <2>1, RecordsBegin
  <2>4. SubSeq(file', 1, projected') = SubSeq(file, 1, projected)
    BY <2>2, <2>3
  <2>5. Seen' = Seen
    BY <2>4 DEF Seen, Upto
  <2> QED BY <2>2, <2>5 DEF Aside
<1>3. CASE ProjectRecord
  <2>1. /\ file' = file /\ projected' = projected + 1 /\ rows' = Project(rows, commit.record)
        /\ commit.at = "project"
    BY <1>3 DEF ProjectRecord
  <2>2. projected + 1 = Len(file) /\ file[Len(file)] = commit.record
    BY <2>1 DEF StoreIsInOrder, Projecting
  <2>3. commit.record \in RecordOf(Item)
    BY <2>1, CommitTypes DEF Idle
  <2>4. Upto(EmptyRows, file, projected + 1) = Project(Upto(EmptyRows, file, projected), file[projected + 1])
    <3>1. projected + 1 \in 1..Len(file) /\ (projected + 1) - 1 = projected
      BY <1>1, <2>2
    <3> QED BY <1>1, <3>1, ProjectUptoNext
  <2>5. Seen' = Project(Seen, commit.record)
    BY <2>1, <2>2, <2>4 DEF Seen
  <2>6. Project(Seen, commit.record) \in RowsType
    BY <1>1, <2>3, ProjectType
  <2>7. Shifted(Project(Seen, commit.record), Project(rows, commit.record), Aside)
    BY <1>1, <2>3, ProjectShifted
  <2> QED BY <1>1, <2>1, <2>5, <2>6, <2>7, ShiftedAgain
<1>4. CASE \E survives \in BOOLEAN : Reopen(survives)
  <2>1. PICK rest : /\ rest = SubSeq(file', projected + 1, Len(file'))
                    /\ file' \in Seq(RecordOf(Item)) /\ projected' = Len(file')
                    /\ Len(file) <= Len(file')
                    /\ SubSeq(file', 1, projected) = SubSeq(file, 1, projected)
                    /\ rows' = Replay(Project, rows, rest)
    BY <1>4, ReopenIs
  <2>2. Joins(file', SubSeq(file', 1, projected), rest, RecordOf(Item))
    <3>1. projected \in 0..Len(file')
      BY <1>1, <2>1, LenProperties
    <3> QED BY <2>1, <3>1, Divided
  <2>3. Replay(Project, EmptyRows, file') = Replay(Project, Seen, rest)
    <3>1. Replay(Project, EmptyRows, SubSeq(file', 1, projected)) = Seen
      BY <2>1 DEF Seen, Upto
    <3> QED BY <2>2, <3>1, ReplayConcat, EmptyRowsType
  <2>4. Seen' = Replay(Project, Seen, rest)
    <3>1. Upto(EmptyRows, file', Len(file')) = Replay(Project, EmptyRows, file')
      BY <2>1, ProjectUpto, EmptyRowsType
    <3> QED BY <2>1, <2>3, <3>1 DEF Seen
  <2>5. rest \in Seq(RecordOf(Item))
    BY <2>2 DEF Joins
  <2>6. Replay(Project, Seen, rest) \in RowsType
    BY <1>1, <2>5, ProjectsToType
  <2>7. Shifted(Replay(Project, Seen, rest), Replay(Project, rows, rest), Aside)
    BY <1>1, <2>5, ReplayShifted
  <2> QED BY <1>1, <2>1, <2>4, <2>6, <2>7, ShiftedAgain
<1> QED BY <1>2, <1>3, <1>4

LEMMA DamageStays ==
  ASSUME NEW B, StoreAction(B), damaged \in BOOLEAN
  PROVE  damaged => damaged' = damaged
BY DEF StoreAction, Commit, AppendRecord, ProjectRecord, AppendFails, Scan, Reopen,
       SendInput, ClaimInputs, EndAction, ChargeTokens, Retry, rolloutVars
-----------------------------------------------------------------------------
(* What a record that joins the file makes of the totals                   *)
LEMMA CreatesANewTurn ==
  ASSUME Counted, ~damaged, Adding, commit.record.kind = "created"
  PROVE  Told.status[commit.record.turn] = "none" /\ Told.used[commit.record.turn] = 0
<1>1. Ordered /\ StoreType(Item) /\ StoreIsInOrder /\ commit # Idle /\ ~Projecting
  BY CommitTypes DEF Counted, Sound, Ordered, TypeOK, Adding, Committing, Projecting, Idle
<1>2. Whole = <<>>
  BY <1>1, WholeType DEF Adding
<1>3. projected = Len(file)
  <2>1. ~Lagging
    BY <1>1, RecordFits DEF MayLag
  <2> QED BY <1>1, <2>1 DEF Lagging
<1>4. Agree(rows, Told)
  BY <1>1, <1>2, <1>3, ToldAgrees
<1>5. rows.status[commit.record.turn] = "none" /\ commit.record.turn \in Turns
  BY <1>1, CommitTypes, KindsAre DEF Counted, TurnsAreNew
<1> QED BY <1>4, <1>5 DEF Agree, Counted, TurnsAreNew

LEMMA SavesItsTurn ==
  ASSUME Counted, Committing, commit.record.kind = "checkpoint"
  PROVE  /\ pc \in Loop /\ Turn \in Turns /\ Turn # 0 /\ task.wasted = 0
         /\ commit.record.turn = Turn /\ commit.record.used = task.total /\ Latest.turn = Turn
<1>1. Ordered /\ StoreType(Item) /\ StoreIsInOrder /\ commit # Idle /\ task \in TaskType
  BY DEF Counted, Sound, Ordered, TypeOK, LoopType, Committing, Idle
<1>2. pc \in Loop
  BY <1>1 DEF Ordered, Control, TaskInOrder, CommitFits, Fitting
<1>3. Turn \in Turns /\ Turn # 0
  BY <1>1, <1>2, RolloutAssumption DEF Ordered, TypeOK, LoopType, Loop
<1>4. Upcoming.turn = Turn /\ Upcoming = Read(Latest, commit.record)
  BY <1>2 DEF Counted, Sound, TaskIsSound, TaskFollowsFile, Upcoming
<1>5. Latest \in StateOf(Item) /\ commit.record \in RecordOf(Item)
  BY <1>1, LatestType, CommitTypes
<1>6. Latest.turn = Turn
  BY <1>4, <1>5, TurnAfter
<1> QED BY <1>2, <1>3, <1>6 DEF Counted, TaskTotals

LEMMA JoinedTotals ==
  ASSUME Counted, Joined
  PROVE  /\ commit.record.kind # "checkpoint" => Told'.tokens = Told.tokens /\ Told'.used = Told.used
         /\ commit.record.kind = "checkpoint" =>
              /\ Told'.used = [Told.used EXCEPT ![Turn] = task.total]
              /\ pc \in Loop /\ Turn \in Turns
              /\ Told'.tokens = Told.tokens + (task.total - Told.used[Turn])
<1>1. /\ StoreType(Item) /\ task \in TaskType /\ Told \in RowsType /\ Committing
      /\ commit.record \in RecordOf(Item) /\ Told' = Project(Told, commit.record)
  <2>1. StoreType(Item) /\ task \in TaskType /\ commit # Idle
    BY DEF Counted, Sound, Ordered, TypeOK, LoopType, Joined, Adding, Committing, Idle
  <2> QED BY <2>1, ToldType, CommitTypes DEF Joined, Adding
<1>2. CASE commit.record.kind # "checkpoint"
  BY <1>1, <1>2, UsedAfter
<1>3. CASE commit.record.kind = "checkpoint"
  <2>1. /\ pc \in Loop /\ Turn \in Turns
        /\ commit.record.turn = Turn /\ commit.record.used = task.total
    BY <1>1, <1>3, SavesItsTurn
  <2>2. Told.used[Turn] <= task.total
    BY <2>1 DEF Counted, TaskTotals
  <2>3. Told.used[Turn] \in Nat /\ task.total \in Nat
    BY <1>1, <2>1, RowsAreARecord, TaskIsARecord
  <2>4. Saturating(task.total, Told.used[Turn]) = task.total - Told.used[Turn]
    BY <2>2, <2>3, SaturatingIs
  <2> QED BY <1>1, <1>3, <2>1, <2>4, UsedAfter
<1> QED BY <1>2, <1>3

LEMMA JoinedIsNew ==
  ASSUME Counted, Joined, ~damaged
  PROVE  /\ \A t \in Turns : Told'.status[t] = "none" => Told'.used[t] = 0
         /\ Latest'.turn # 0 => Latest'.used = Told'.used[Latest'.turn]
<1>1. /\ StoreType(Item) /\ Told \in RowsType /\ Committing /\ Latest \in StateOf(Item)
      /\ commit.record \in RecordOf(Item)
      /\ Told' = Project(Told, commit.record) /\ Latest' = Read(Latest, commit.record)
  <2>1. StoreType(Item) /\ commit # Idle
    BY DEF Counted, Sound, Ordered, TypeOK, Joined, Adding, Committing, Idle
  <2> QED BY <2>1, ToldType, LatestType, CommitTypes DEF Joined, Adding
<1>2. /\ \A t \in Turns : Told.status[t] = "none" => Told.used[t] = 0
      /\ Latest.turn # 0 => Latest.used = Told.used[Latest.turn]
      /\ Told.status \in [Turns -> {"none"} \cup OpenTurn \cup TerminalTurn]
      /\ Told.used \in [Turns -> Nat]
  BY <1>1, RowsAreARecord DEF Counted, TurnsAreNew
<1>3. PICK r : r = commit.record
  OBVIOUS
<1>4. /\ r \in RecordOf(Item) /\ r.turn \in Turns
      /\ r.kind \in {"created", "checkpoint", "updated"}
  BY <1>1, <1>3, KindsAre
<1>9. /\ r.kind = "created" => Told'.status = [Told.status EXCEPT ![r.turn] = "Queued"]
      /\ r.kind = "checkpoint" => Told'.status = Told.status
      /\ r.kind = "updated" => Told'.status = [Told.status EXCEPT ![r.turn] = r.status]
  <2>1. PICK db \in RowsType : db = Told
    BY <1>1
  <2>2. r \in RecordOf(Item)
    BY <1>4
  <2>3. /\ r.kind = "created" => Project(db, r).status = [db.status EXCEPT ![r.turn] = "Queued"]
        /\ r.kind = "checkpoint" => Project(db, r).status = db.status
        /\ r.kind = "updated" => Project(db, r).status = [db.status EXCEPT ![r.turn] = r.status]
    BY <2>2, StatusAfter
  <2>4. Told' = Project(db, r)
    BY <1>1, <1>3, <2>1
  <2> QED BY <2>1, <2>3, <2>4
<1>5. CASE r.kind = "created"
  <2>1. Told.status[r.turn] = "none" /\ Told.used[r.turn] = 0
    BY <1>3, <1>5, CreatesANewTurn DEF Joined
  <2>2. Told'.used = Told.used /\ Told'.status = [Told.status EXCEPT ![r.turn] = "Queued"]
    <3>1. Told'.status = [Told.status EXCEPT ![r.turn] = "Queued"]
      BY <1>5, <1>9
    <3> QED BY <1>3, <1>5, <3>1, JoinedTotals
  <2>3. Latest'.turn = r.turn /\ Latest'.used = 0
    BY <1>1, <1>3, <1>5, ReadCreated
  <2> QED BY <1>2, <1>4, <2>1, <2>2, <2>3
<1>6. CASE r.kind = "checkpoint"
  <2>1. /\ Turn \in Turns /\ Turn # 0 /\ Latest.turn = Turn /\ r.turn = Turn /\ r.used = task.total
    BY <1>1, <1>3, <1>6, SavesItsTurn
  <2>2. Told'.used = [Told.used EXCEPT ![Turn] = task.total] /\ Told'.status = Told.status
    <3>1. Told'.status = Told.status
      BY <1>6, <1>9
    <3> QED BY <1>3, <1>6, <3>1, JoinedTotals
  <2>3. Latest'.turn = Turn /\ Latest'.used = task.total
    BY <1>1, <1>3, <1>6, <2>1, ReadCheckpoint
  <2>4. Told.status[Turn] # "none"
    BY <2>1 DEF Counted, Sound, Ordered, Control, AtAnOpenTurn, OpenTurn
  <2> QED BY <1>2, <2>1, <2>2, <2>3, <2>4
<1>7. CASE r.kind = "updated"
  <2>1. Told'.used = Told.used /\ Told'.status = [Told.status EXCEPT ![r.turn] = r.status]
        /\ r.status \in {"Running"} \cup TerminalTurn
    <3>1. Told'.status = [Told.status EXCEPT ![r.turn] = r.status]
      BY <1>7, <1>9
    <3>2. r.status \in {"Running"} \cup TerminalTurn
      BY <1>4, <1>7, KindsAre
    <3> QED BY <1>3, <1>7, <3>1, <3>2, JoinedTotals
  <2>2. r.status # "none"
    BY <2>1 DEF TerminalTurn
  <2>3. \A t \in Turns : Told'.status[t] = "none" => Told'.used[t] = 0
    BY <1>2, <1>4, <2>1, <2>2
  <2>4. Latest'.turn # 0 => Latest' = Latest
    <3>1. r.status \in TerminalTurn => Latest'.turn = 0
      BY <1>1, <1>3, <1>7, TurnAfter
    <3>2. r.status = "Running" => Latest' = Latest
      BY <1>1, <1>3, <1>7, ReadUpdated
    <3> QED BY <2>1, <3>1, <3>2
  <2> QED BY <1>2, <2>1, <2>3, <2>4
<1> QED BY <1>4, <1>5, <1>6, <1>7

LEMMA FileTotalsStep ==
  ASSUME Counted, [Next]_vars, ~damaged'
  PROVE  /\ ~damaged
         /\ \A t \in Turns : Told'.status[t] = "none" => Told'.used[t] = 0
         /\ Latest'.turn # 0 => Latest'.used = Told'.used[Latest'.turn]
<1>1. /\ Ordered /\ StoreType(Item) /\ StoreIsInOrder /\ StoreAction(Item) /\ damaged \in BOOLEAN
  <2>1. Ordered /\ StoreType(Item) /\ StoreIsInOrder /\ damaged \in BOOLEAN
    BY DEF Counted, Sound, Ordered, TypeOK, StoreType
  <2> QED BY <2>1, StoreActs
<1>2. ~damaged
  BY <1>1, DamageStays
<1>3. Unmoved \/ Joined
  BY <1>1, ToldStep DEF Unmoved, Joined
<1>4. CASE Unmoved
  BY <1>2, <1>4 DEF Unmoved, Counted, TurnsAreNew
<1>5. CASE Joined
  BY <1>2, <1>5, JoinedIsNew
<1> QED BY <1>2, <1>3, <1>4, <1>5
-----------------------------------------------------------------------------
(* What a step has to show of the account                                  *)
LEMMA AccountTypes ==
  Ordered /\ ~damaged =>
    /\ Seen.tokens \in Nat /\ Told.tokens \in Nat /\ Seen.tokens <= Told.tokens
    /\ rows.tokens \in Nat /\ spent \in Nat /\ Aside \in Int
<1> SUFFICES ASSUME Ordered, ~damaged
             PROVE  /\ Seen.tokens \in Nat /\ Told.tokens \in Nat /\ Seen.tokens <= Told.tokens
                    /\ rows.tokens \in Nat /\ spent \in Nat /\ Aside \in Int
  OBVIOUS
<1>1. StoreType(Item) /\ StoreIsInOrder /\ spent \in Nat
  BY DEF Ordered, TypeOK, LoopType
<1>2. /\ Seen.tokens \in Nat /\ Told.tokens \in Nat /\ Seen.tokens <= Told.tokens
      /\ rows.tokens \in Nat
  BY <1>1, SeenType
<1> QED BY <1>1, <1>2 DEF Aside

LEMMA AccountTypesNext ==
  Ordered' /\ ~damaged' =>
    /\ Seen'.tokens \in Nat /\ Told'.tokens \in Nat /\ Seen'.tokens <= Told'.tokens
    /\ rows'.tokens \in Nat /\ spent' \in Nat /\ Aside' \in Int
<1>1. (Ordered /\ ~damaged =>
         /\ Seen.tokens \in Nat /\ Told.tokens \in Nat /\ Seen.tokens <= Told.tokens
         /\ rows.tokens \in Nat /\ spent \in Nat /\ Aside \in Int)'
  BY AccountTypes, PTL
<1> QED BY <1>1

LEMMA TotalTypes ==
  Ordered =>
    /\ task \in TaskType /\ task.total \in Nat /\ task.wasted \in Nat
    /\ pc \in Loop \cup Leaving \cup {"start", "load"} => Turn \in Turns /\ Told.used[Turn] \in Nat
<1> SUFFICES ASSUME Ordered
             PROVE  /\ task \in TaskType /\ task.total \in Nat /\ task.wasted \in Nat
                    /\ pc \in Loop \cup Leaving \cup {"start", "load"}
                         => Turn \in Turns /\ Told.used[Turn] \in Nat
  OBVIOUS
<1>1. StoreType(Item) /\ task \in TaskType /\ (pc # "off" => Turn \in Turns)
  BY DEF Ordered, TypeOK, LoopType
<1>2. Told \in RowsType /\ Told.used \in [Turns -> Nat]
  BY <1>1, ToldType, RowsAreARecord
<1>3. "off" \notin Loop \cup Leaving \cup {"start", "load"}
  BY DEF Loop, Leaving
<1>4. task.total \in Nat /\ task.wasted \in Nat
  BY <1>1, TaskIsARecord
<1> QED BY <1>1, <1>2, <1>3, <1>4

LEMMA TotalTypesNext ==
  Ordered' =>
    /\ task' \in TaskType /\ task'.total \in Nat /\ task'.wasted \in Nat
    /\ pc' \in Loop \cup Leaving \cup {"start", "load"}
         => task'.turn \in Turns /\ Told'.used[task'.turn] \in Nat
<1>1. (Ordered =>
         /\ task \in TaskType /\ task.total \in Nat /\ task.wasted \in Nat
         /\ pc \in Loop \cup Leaving \cup {"start", "load"}
              => Turn \in Turns /\ Told.used[Turn] \in Nat)'
  BY TotalTypes, PTL
<1> QED BY <1>1 DEF Turn

LEMMA DueIs ==
  ASSUME Ordered', TaskTotals'
  PROVE  /\ Due' \in Nat
         /\ pc' \in Loop => Due' = task'.total - Told'.used[task'.turn] + task'.wasted
         /\ pc' \notin Loop => Due' = 0
<1>1. pc' \in Loop => Due' = task'.total - Told'.used[task'.turn] + task'.wasted
  BY DEF Due, Turn
<1>2. pc' \notin Loop => Due' = 0
  BY DEF Due
<1>3. CASE pc' \in Loop
  <2>1. Told'.used[task'.turn] <= task'.total
    BY <1>3 DEF TaskTotals, Turn
  <2>2. task'.total \in Nat /\ task'.wasted \in Nat /\ Told'.used[task'.turn] \in Nat
    BY <1>3, TotalTypesNext
  <2> QED BY <1>1, <1>3, <2>1, <2>2
<1> QED BY <1>1, <1>2, <1>3

LEMMA DueWas ==
  ASSUME Counted
  PROVE  /\ Due \in Nat
         /\ pc \in Loop => /\ Due = task.total - Told.used[Turn] + task.wasted
                           /\ ~damaged /\ Settled
         /\ pc \notin Loop => Due = 0
<1>1. pc \in Loop => Due = task.total - Told.used[Turn] + task.wasted
  BY DEF Due
<1>2. pc \notin Loop => Due = 0
  BY DEF Due
<1>3. CASE pc \in Loop
  <2>1. Told.used[Turn] <= task.total
    BY <1>3 DEF Counted, TaskTotals
  <2>2. task.total \in Nat /\ task.wasted \in Nat /\ Told.used[Turn] \in Nat
    BY <1>3, TotalTypes DEF Counted, Sound
  <2>3. Settled /\ ~damaged
    BY <1>3 DEF Counted, Sound, TaskIsSound, TaskFollowsFile, Settled
  <2> QED BY <1>1, <1>3, <2>1, <2>2, <2>3
<1> QED BY <1>1, <1>2, <1>3

LEMMA MishapsStay ==
  ASSUME Ordered, [Next]_vars, Undisturbed'
  PROVE  Undisturbed /\ ~damaged /\ ~damaged'
<1>1. /\ mishaps \in [crash : Nat, fault : Nat, retry : Nat] /\ damaged \in BOOLEAN
      /\ StoreAction(Item) /\ StoreIsInOrder
  BY StoreActs DEF Ordered, TypeOK, StoreType
<1>2. \/ UNCHANGED mishaps
      \/ mishaps' = [mishaps EXCEPT !.crash = @ + 1]
      \/ mishaps' = [mishaps EXCEPT !.fault = @ + 1]
      \/ mishaps' = [mishaps EXCEPT !.retry = @ + 1]
  BY <1>1 DEF StoreAction, Commit, AppendRecord, ProjectRecord, AppendFails, Scan, Reopen,
       SendInput, ClaimInputs, EndAction, ChargeTokens, Retry, rolloutVars
<1>3. Undisturbed
  BY <1>1, <1>2 DEF Undisturbed
<1>4. StoreIsInOrder'
  BY OrderedStep DEF Ordered
<1> QED BY <1>1, <1>3, <1>4 DEF Undisturbed, StoreIsInOrder, Settled

LEMMA CountedBy ==
  ASSUME Counted, [Next]_vars, TaskTotals', RowIsOpen',
         commit' # Idle /\ commit'.record.kind = "created"
           => rows'.status[commit'.record.turn] = "none",
         damaged' => rows'.tokens <= spent',
         ~damaged' => Lost <= Lost',
         Undisturbed' => (Lost' = Lost \/ FallsShort') /\ (FallsShort => FallsShort')
  PROVE  Counted'
<1>1. Sound' /\ Ordered' /\ Ordered
  BY SoundStep DEF Counted, Sound
<1>2. TurnsAreNew'
  <2>1. ASSUME ~damaged'
        PROVE  /\ \A t \in Turns : Told'.status[t] = "none" => Told'.used[t] = 0
               /\ Latest'.turn # 0 => Latest'.used = Told'.used[Latest'.turn]
    BY <2>1, FileTotalsStep
  <2> QED BY <2>1 DEF TurnsAreNew
<1>3. ASSUME ~damaged'
      PROVE  /\ 0 <= Lost' /\ rows'.tokens <= spent' /\ Lost' \in Int /\ Lost \in Int
  <2>1. ~damaged
    BY <1>3, FileTotalsStep
  <2>2. /\ Told.tokens \in Nat /\ spent \in Nat /\ Aside \in Int /\ Due \in Nat
    BY <1>1, <2>1, AccountTypes, DueWas
  <2>3. /\ Seen'.tokens \in Nat /\ Told'.tokens \in Nat /\ Seen'.tokens <= Told'.tokens
        /\ rows'.tokens \in Nat /\ spent' \in Nat /\ Aside' \in Int /\ Due' \in Nat
    BY <1>1, <1>3, AccountTypesNext, DueIs
  <2>4. Lost \in Int /\ 0 <= Lost
    BY <2>1, <2>2 DEF Lost, Counted, Charged
  <2>5. Lost' = spent' - (Aside' + Told'.tokens + Due') /\ Lost' \in Int
    BY <2>3 DEF Lost
  <2>6. rows'.tokens = Aside' + Seen'.tokens
    BY <2>3 DEF Aside
  <2>7. 0 <= Lost'
    BY <1>3, <2>4, <2>5
  <2>8. rows'.tokens <= spent'
    BY <2>3, <2>5, <2>6, <2>7
  <2> QED BY <2>4, <2>5, <2>7, <2>8
<1>4. Charged'
  <2>1. rows'.tokens <= spent'
    BY <1>3
  <2>2. ~damaged' => 0 <= Lost'
    BY <1>3
  <2>3. ASSUME Undisturbed' PROVE Lost' = 0 \/ FallsShort'
    <3>1. Undisturbed /\ ~damaged
      BY <1>1, <2>3, MishapsStay
    <3>2. Lost = 0 \/ FallsShort
      BY <3>1 DEF Counted, Charged
    <3> QED BY <2>3, <3>2
  <2> QED BY <2>1, <2>2, <2>3 DEF Charged
<1> QED BY <1>1, <1>2, <1>4 DEF Counted
-----------------------------------------------------------------------------
(* Steps that neither write the file nor project it                        *)
LEMMA StillAccount ==
  ASSUME Counted, StandsStill, ~damaged, NEW n \in Nat, rows'.tokens = rows.tokens + n
  PROVE  /\ Told' = Told /\ ~damaged' /\ rows'.status = rows.status
         /\ Told.tokens \in Nat /\ Aside \in Int /\ spent \in Nat /\ Due \in Nat
         /\ Lost = spent - (Aside + Told.tokens + Due)
         /\ Lost' = spent' - (Aside + n + Told.tokens + Due')
<1>1. /\ Told' = Told /\ ~damaged' /\ rows'.status = rows.status
      /\ file' = file /\ projected' = projected
  BY DEF StandsStill
<1>2. /\ Seen.tokens \in Nat /\ Told.tokens \in Nat /\ rows.tokens \in Nat
      /\ Aside \in Int /\ spent \in Nat /\ Due \in Nat
  BY AccountTypes, DueWas DEF Counted, Sound
<1>3. Seen' = Seen
  BY <1>1 DEF Seen
<1>4. Aside' = Aside + n
  BY <1>2, <1>3 DEF Aside
<1>5. Lost' = spent' - (Aside' + Told'.tokens + Due')
  BY DEF Lost
<1>6. Lost = spent - (Aside + Told.tokens + Due)
  BY DEF Lost
<1> QED BY <1>1, <1>2, <1>4, <1>5, <1>6

LEMMA ShortStays ==
  ASSUME FallsShort, pc \in Leaving => pc' \in Leaving, rows'.status = rows.status,
         commit = Idle \/ commit' = commit
  PROVE  FallsShort'
<1>1. CASE pc \in Leaving
  BY <1>1 DEF FallsShort
<1>2. CASE commit # Idle /\ commit.record.kind = "updated" /\ commit.record.status \in Short
  BY <1>2 DEF FallsShort
<1>3. CASE \E t \in Turns : rows.status[t] \in Short
  BY <1>3 DEF FallsShort
<1> QED BY <1>1, <1>2, <1>3 DEF FallsShort

(* The loop goes on: what is sampled is in the total or wasted so far.     *)
LEMMA LoopOn ==
  ASSUME Counted, [Next]_vars, pc \in Loop, pc' \in Loop, commit = Idle,
         OnlyWrites \/ \E r : Commit(r),
         rows'.tokens = rows.tokens, task'.turn = task.turn, task.total <= task'.total,
         task'.total + task'.wasted = task.total + task.wasted + (spent' - spent),
         pc' # "sample" => task'.wasted = 0,
         \/ commit' = Idle /\ (pc' = "prompt" \/ (pc # "prompt" /\ task'.total = task.total))
         \/ \E r : Commit(r) /\ r.kind = "checkpoint" /\ r.turn = Turn /\ r.used = task'.total
                    /\ task'.wasted = 0
  PROVE  Counted'
<1>1. StandsStill /\ Ordered /\ Ordered'
  BY QuietTask, OrderedStep DEF Counted, Sound
<1>2. /\ Turn \in Turns /\ Told.used[Turn] \in Nat /\ task.total \in Nat /\ task.wasted \in Nat
      /\ task'.total \in Nat /\ task'.wasted \in Nat /\ spent' \in Nat /\ spent \in Nat
  <2>1. spent' \in Nat /\ spent \in Nat
    BY <1>1 DEF Ordered, TypeOK, LoopType
  <2> QED BY <1>1, <2>1, TotalTypes, TotalTypesNext
<1>3. /\ ~damaged /\ Due = task.total - Told.used[Turn] + task.wasted
  BY DueWas
<1>4. rows'.tokens = rows.tokens + 0 /\ rows.tokens \in Nat
  BY <1>1, <1>3, AccountTypes
<1>5. /\ Told' = Told /\ ~damaged' /\ rows'.status = rows.status
      /\ Told.tokens \in Nat /\ Aside \in Int
      /\ Lost = spent - (Aside + Told.tokens + Due)
      /\ Lost' = spent' - (Aside + 0 + Told.tokens + Due')
  BY <1>1, <1>3, <1>4, StillAccount
<1>6. /\ Told.used[Turn] <= task.total
      /\ pc # "prompt" => task.total = Told.used[Turn]
  BY DEF Counted, TaskTotals, Committing, Idle
<1>7. /\ commit' = Idle => ~Committing'
      /\ \A r : Commit(r) => Committing' /\ commit'.record = r
  BY DEF Committing, Idle, Commit
<1>16. task'.turn = Turn
  BY DEF Turn
<1>8. TaskTotals'
  <2>1. Told'.used[task'.turn] <= task'.total
    BY <1>2, <1>5, <1>6, <1>16
  <2>2. Committing' => /\ commit'.record.turn = task'.turn /\ commit'.record.used = task'.total
                       /\ task'.wasted = 0
    <3>1. CASE commit' = Idle
      BY <1>7, <3>1
    <3>2. CASE \E r : /\ Commit(r) /\ r.kind = "checkpoint" /\ r.turn = Turn
                      /\ r.used = task'.total /\ task'.wasted = 0
      BY <1>7, <1>16, <3>2
    <3> QED BY <3>1, <3>2
  <2>3. pc' # "prompt" /\ ~Committing' => task'.total = Told'.used[task'.turn]
    <3>1. CASE commit' = Idle /\ (pc' = "prompt" \/ (pc # "prompt" /\ task'.total = task.total))
      BY <1>5, <1>6, <1>16, <3>1
    <3>2. CASE \E r : Commit(r)
      BY <1>7, <3>2
    <3> QED BY <3>1, <3>2
  <2>4. pc' \notin {"start", "load"}
    BY DEF Loop
  <2>5. /\ pc' \in (Loop \ {"sample"}) \cup {"start", "load"} => task'.wasted = 0
        /\ pc' \in Loop =>
             /\ Told'.used[task'.turn] <= task'.total
             /\ Committing' => /\ commit'.record.turn = task'.turn
                               /\ commit'.record.used = task'.total
                               /\ task'.wasted = 0
             /\ pc' # "prompt" /\ ~Committing' => task'.total = Told'.used[task'.turn]
    BY <2>1, <2>2, <2>3, <2>4
  <2> QED BY <2>5 DEF TaskTotals, Turn
<1>9. Undisturbed' => Undisturbed
  BY <1>1, MishapsStay
<1>10. pc \notin Leaving /\ pc' \notin Leaving
  BY DEF Loop, Leaving
<1>11. RowIsOpen'
  <2>1. Undisturbed' => rows'.status[task'.turn] \in OpenTurn
    BY <1>5, <1>9 DEF Counted, RowIsOpen, Turn
  <2> QED BY <1>10, <2>1 DEF RowIsOpen, Turn
<1>12. Lost' = Lost
  <2>1. Due' = task'.total - Told.used[Turn] + task'.wasted
    BY <1>1, <1>5, <1>8, <1>16, DueIs
  <2> QED BY <1>2, <1>3, <1>5, <2>1
<1>13. FallsShort => FallsShort'
  BY <1>5, <1>10, ShortStays
<1>14. commit' # Idle /\ commit'.record.kind = "created"
         => rows'.status[commit'.record.turn] = "none"
  BY <1>7
<1>15. Lost \in Int
  BY <1>2, <1>3, <1>5
<1> QED BY <1>5, <1>8, <1>11, <1>12, <1>13, <1>14, <1>15, CountedBy

(* The loop is left with an error: what the last sample cost may be lost.  *)
LEMMA LoopOut ==
  ASSUME Counted, [Next]_vars, pc \in Loop, pc' = "ending", commit = Idle, OnlyWrites,
         task'.turn = task.turn,
         NEW n \in Nat, rows'.tokens = rows.tokens + n, spent + n <= spent' + task.wasted
  PROVE  Counted'
<1>1. StandsStill /\ Ordered /\ Ordered' /\ commit' = Idle
  BY OnlyWritesKeep, OrderedStep DEF Counted, Sound
<1>2. /\ Turn \in Turns /\ Told.used[Turn] \in Nat /\ task.total \in Nat /\ task.wasted \in Nat
      /\ spent' \in Nat /\ spent \in Nat
  <2>1. spent' \in Nat /\ spent \in Nat
    BY <1>1 DEF Ordered, TypeOK, LoopType
  <2> QED BY <1>1, <2>1, TotalTypes
<1>3. /\ ~damaged /\ Due = task.total - Told.used[Turn] + task.wasted
      /\ Told.used[Turn] <= task.total
  BY DueWas DEF Counted, TaskTotals
<1>4. /\ Told' = Told /\ ~damaged' /\ rows'.status = rows.status
      /\ Told.tokens \in Nat /\ Aside \in Int
      /\ Lost = spent - (Aside + Told.tokens + Due)
      /\ Lost' = spent' - (Aside + n + Told.tokens + Due')
  BY <1>1, <1>3, StillAccount
<1>5. pc' \notin Loop /\ pc' \in Leaving /\ pc' \notin {"start", "load"} /\ pc \notin Leaving
  BY DEF Loop, Leaving
<1>6. TaskTotals'
  BY <1>5 DEF TaskTotals
<1>7. RowIsOpen'
  <2>1. Undisturbed' => rows'.status[task'.turn] \in OpenTurn
    BY <1>1, <1>4, MishapsStay DEF Counted, RowIsOpen, Turn
  <2> QED BY <1>1, <2>1 DEF RowIsOpen, Turn
<1>8. Lost <= Lost'
  <2>1. Due' = 0
    BY <1>1, <1>5, <1>6, DueIs
  <2> QED BY <1>2, <1>3, <1>4, <2>1
<1>9. FallsShort'
  BY <1>5 DEF FallsShort
<1> QED BY <1>1, <1>4, <1>6, <1>7, <1>8, <1>9, CountedBy

(* Outside of the loop nothing is due.                                     *)
LEMMA Outside ==
  ASSUME Counted, [Next]_vars, pc \notin Loop, pc' \notin Loop,
         OnlyWrites \/ \E r : Commit(r), commit = Idle \/ commit' = commit,
         rows'.tokens = rows.tokens, spent' = spent,
         pc' \in {"start", "load"} => task'.wasted = 0, RowIsOpen',
         Undisturbed' /\ pc \in Leaving => FallsShort',
         commit' = commit \/ commit' = Idle \/ commit'.record.kind # "created"
           \/ rows.status[commit'.record.turn] = "none"
  PROVE  Counted'
<1>1. StandsStill /\ Ordered /\ Ordered'
  BY QuietTask, OrderedStep DEF Counted, Sound
<1>2. /\ damaged' = damaged /\ rows'.status = rows.status
  BY <1>1 DEF StandsStill
<1>3. TaskTotals'
  BY DEF TaskTotals, Loop
<1>4. Due' = 0 /\ Due = 0
  BY DEF Due
<1>5. ASSUME ~damaged PROVE Lost' = Lost /\ Lost \in Int
  <2>1. rows'.tokens = rows.tokens + 0 /\ 0 \in Nat
    BY <1>1, <1>5, AccountTypes
  <2>2. /\ Told.tokens \in Nat /\ Aside \in Int /\ spent \in Nat
        /\ Lost = spent - (Aside + Told.tokens + Due)
        /\ Lost' = spent' - (Aside + 0 + Told.tokens + Due')
    BY <1>1, <1>5, <2>1, StillAccount
  <2> QED BY <1>4, <2>2
<1>6. Undisturbed' /\ FallsShort => FallsShort'
  <2>1. CASE pc \in Leaving
    BY <2>1
  <2>2. CASE pc \notin Leaving
    BY <1>2, <2>2, ShortStays
  <2> QED BY <2>1, <2>2
<1>7. rows'.tokens <= spent'
  BY DEF Counted, Charged
<1>8. commit' # Idle /\ commit'.record.kind = "created"
        => rows'.status[commit'.record.turn] = "none"
  BY <1>2 DEF Counted, TurnsAreNew
<1>9. ~damaged' => Lost <= Lost'
  BY <1>2, <1>5
<1>10. Undisturbed' => Lost' = Lost
  BY <1>1, <1>5, MishapsStay
<1> QED BY <1>3, <1>6, <1>7, <1>8, <1>9, <1>10, CountedBy

(* Others' steps, which leave the task and the Store's commit              *)
LEMMA SteadyCounted ==
  ASSUME Counted, [Next]_vars, OnlyWrites, UNCHANGED <<pc, task, commit, spent>>,
         rows'.tokens = rows.tokens
  PROVE  Counted'
<1>1. StandsStill /\ Ordered
  BY QuietTask DEF Counted, Sound
<1>2. /\ Told' = Told /\ damaged' = damaged /\ rows'.status = rows.status
  BY <1>1 DEF StandsStill
<1>3. TaskTotals'
  BY <1>2 DEF Counted, TaskTotals, Committing, Turn
<1>4. RowIsOpen'
  BY <1>1, <1>2, MishapsStay DEF Counted, RowIsOpen, Turn
<1>5. Due' = Due
  BY <1>2 DEF Due, Turn
<1>6. ASSUME ~damaged PROVE Lost' = Lost /\ Lost \in Int
  <2>1. rows'.tokens = rows.tokens + 0 /\ 0 \in Nat
    BY <1>1, <1>6, AccountTypes
  <2>2. /\ Told.tokens \in Nat /\ Aside \in Int /\ spent \in Nat /\ Due \in Nat
        /\ Lost = spent - (Aside + Told.tokens + Due)
        /\ Lost' = spent' - (Aside + 0 + Told.tokens + Due')
    BY <1>1, <1>6, <2>1, StillAccount
  <2> QED BY <1>5, <2>2
<1>7. FallsShort => FallsShort'
  BY <1>2, ShortStays
<1>8. rows'.tokens <= spent'
  BY DEF Counted, Charged
<1>9. commit' # Idle /\ commit'.record.kind = "created"
        => rows'.status[commit'.record.turn] = "none"
  BY <1>2 DEF Counted, TurnsAreNew
<1>10. ~damaged' => Lost <= Lost'
  BY <1>2, <1>6
<1>11. Undisturbed' => Lost' = Lost
  BY <1>1, <1>6, MishapsStay
<1> QED BY <1>3, <1>4, <1>7, <1>8, <1>9, <1>10, <1>11, CountedBy
-----------------------------------------------------------------------------
LEMMA WithTotals ==
  ASSUME Counted
  PROVE  /\ Ordered /\ task \in TaskType /\ rows \in RowsType /\ rows.tokens \in Nat
         /\ task.total \in Nat /\ task.wasted \in Nat /\ spent \in Nat
         /\ pc \in {"start", "load"} => task.wasted = 0
         /\ pc \in Loop /\ pc # "sample" => task.wasted = 0
         /\ pc # "off" => Turn \in Turns
         /\ "start" \notin Loop /\ "load" \notin Loop /\ "off" \notin Loop /\ "left" \notin Loop
         /\ Leaving = {"ending", "end"} /\ "ending" \notin Loop /\ "end" \notin Loop
<1>1. Ordered /\ StoreType(Item) /\ LoopType
  BY DEF Counted, Sound, Ordered, TypeOK
<1>2. rows \in RowsType /\ rows.tokens \in Nat
  BY <1>1, RowsAreARecord DEF StoreType
<1>3. task \in TaskType /\ task.total \in Nat /\ task.wasted \in Nat
  BY <1>1, TotalTypes
<1>4. spent \in Nat /\ (pc # "off" => Turn \in Turns)
  BY <1>1 DEF LoopType
<1> QED BY <1>1, <1>2, <1>3, <1>4 DEF Counted, TaskTotals, Loop, Leaving

(* Before and after the loop                                               *)
LEMMA EdgesCounted ==
  ASSUME Counted, [Next]_vars
  PROVE  /\ \A t \in Turns : Attach(t) \/ TakeUp(t) => Counted'
         /\ \A t \in Turns : ActionRecovers(t) \/ CancelRow(t) => Counted'
         /\ StartTurn \/ TaskEnds => Counted'
<1>1. ASSUME NEW t \in Turns, Attach(t) PROVE Counted'
  <2>1. /\ Commit(Created(t)) /\ pc = "off" /\ pc' = "start" /\ commit = Idle
        /\ task' = NewTask(t) /\ rows.status[t] = "none" /\ UNCHANGED spent
    BY <1>1 DEF Attach, At, StoreIdle, NewTask
  <2>2. rows' = rows /\ commit'.record = Created(t) /\ Created(t).turn = t
    BY <2>1 DEF Commit, Created
  <2>3. task'.wasted = 0
    BY <2>1, NewTaskType
  <2> QED BY <2>1, <2>2, <2>3, WithTotals, Outside DEF RowIsOpen
<1>2. ASSUME NEW t \in Turns, TakeUp(t) PROVE Counted'
  <2>1. /\ UNCHANGED rolloutVars /\ pc = "off" /\ pc' = "start" /\ commit = Idle
        /\ task' = NewTask(t) /\ UNCHANGED spent
    BY <1>2 DEF TakeUp, At, StoreIdle, NewTask
  <2>2. rows' = rows /\ commit' = commit /\ OnlyWrites
    BY <2>1 DEF rolloutVars, OnlyWrites
  <2>3. task'.wasted = 0
    BY <2>1, NewTaskType
  <2> QED BY <2>1, <2>2, <2>3, WithTotals, Outside DEF RowIsOpen
<1>3. ASSUME NEW t \in Turns, ActionRecovers(t) PROVE Counted'
  <2>1. /\ EndAction(t) /\ pc = "off" /\ commit = Idle /\ UNCHANGED <<pc, spent>>
    BY <1>3 DEF ActionRecovers, At, StoreIdle, volatile
  <2>2. rows'.tokens = rows.tokens /\ commit' = commit /\ OnlyWrites
    BY <2>1, WithTotals, EndsAnAction, RowsWork DEF EndAction
  <2> QED BY <2>1, <2>2, WithTotals, Outside DEF RowIsOpen
<1>4. ASSUME NEW t \in Turns, CancelRow(t) PROVE Counted'
  <2>1. /\ Commit(Updated(t, "Cancelled", {})) /\ pc \in {"off", "left"} /\ commit = Idle
        /\ UNCHANGED <<pc, spent>>
    BY <1>4 DEF CancelRow, At, StoreIdle, volatile
  <2>2. rows' = rows /\ commit'.record.kind # "created"
    BY <2>1 DEF Commit, Updated
  <2> QED BY <2>1, <2>2, WithTotals, Outside DEF RowIsOpen
<1>5. ASSUME StartTurn PROVE Counted'
  <2>1. /\ pc = "start" /\ commit = Idle /\ UNCHANGED <<task, spent>> /\ pc' \in {"load", "left"}
        /\ Commit(Updated(Turn, "Running", {})) \/ UNCHANGED rolloutVars
    BY <1>5 DEF StartTurn, At, StoreIdle
  <2>2. /\ rows' = rows /\ (commit' = commit \/ commit'.record.kind # "created")
        /\ OnlyWrites \/ \E r : Commit(r)
    BY <2>1 DEF Commit, Updated, rolloutVars, OnlyWrites
  <2> QED BY <2>1, <2>2, WithTotals, Outside DEF RowIsOpen
<1>6. ASSUME TaskEnds PROVE Counted'
  <2>1. /\ EndAction(Turn) /\ pc = "left" /\ pc' = "off" /\ commit = Idle /\ UNCHANGED spent
    BY <1>6 DEF TaskEnds, At, StoreIdle
  <2>2. rows'.tokens = rows.tokens /\ commit' = commit /\ OnlyWrites
    BY <2>1, WithTotals, EndsAnAction, RowsWork DEF EndAction
  <2> QED BY <2>1, <2>2, WithTotals, Outside DEF RowIsOpen
<1> QED BY <1>1, <1>2, <1>3, <1>4, <1>5, <1>6

LEMMA EndingCounted ==
  ASSUME Counted, [Next]_vars
  PROVE  FinishPending \/ EndTurn => Counted'
<1>1. ASSUME FinishPending PROVE Counted'
  <2>1. /\ UNCHANGED rolloutVars /\ pc = "ending" /\ pc' = "end" /\ commit = Idle
        /\ UNCHANGED <<task, spent>>
    BY <1>1 DEF FinishPending, At, StoreIdle
  <2>2. rows' = rows /\ commit' = commit /\ OnlyWrites
    BY <2>1 DEF rolloutVars, OnlyWrites
  <2>3. RowIsOpen'
    BY <2>1, <2>2, WithTotals, MishapsStay DEF Counted, RowIsOpen, Turn
  <2>4. FallsShort'
    BY <2>1, WithTotals DEF FallsShort
  <2> QED BY <2>1, <2>2, <2>3, <2>4, WithTotals, Outside
<1>2. ASSUME EndTurn PROVE Counted'
  <2>1. /\ pc = "end" /\ pc' = "left" /\ commit = Idle /\ UNCHANGED <<task, spent>>
        /\ task.verdict \in {"Failed", "Cancelled", "Interrupted"}
    <3>1. task.verdict # "none" /\ task.verdict \in {"none", "Failed", "Cancelled", "Interrupted"}
      BY <1>2, WithTotals, TaskIsARecord DEF EndTurn, At, Ordered, TypeOK, LoopType
    <3> QED BY <1>2, <3>1 DEF EndTurn, At, StoreIdle
  <2>2. \/ rows.status[Turn] \notin OpenTurn /\ UNCHANGED rolloutVars
        \/ \E acks : Commit(Updated(Turn, task.verdict, acks))
    BY <1>2 DEF EndTurn
  <2>3. /\ rows' = rows /\ (commit' = commit \/ commit'.record.kind # "created")
        /\ OnlyWrites \/ \E r : Commit(r)
    BY <2>2 DEF Commit, Updated, rolloutVars, OnlyWrites
  <2>4. Undisturbed' => FallsShort'
    <3>1. ASSUME Undisturbed' PROVE FallsShort'
      <4>1. rows.status[Turn] \in OpenTurn
        BY <2>1, <3>1, WithTotals, MishapsStay DEF Counted, RowIsOpen
      <4>2. PICK acks : Commit(Updated(Turn, task.verdict, acks))
        BY <2>2, <4>1
      <4>3. commit' # Idle /\ commit'.record.kind = "updated" /\ commit'.record.status = task.verdict
        BY <4>2 DEF Commit, Updated, Idle
      <4> QED BY <2>1, <4>3 DEF FallsShort, Short, TerminalTurn
    <3> QED BY <3>1
  <2> QED BY <2>1, <2>3, <2>4, WithTotals, Outside DEF RowIsOpen
<1> QED BY <1>1, <1>2
-----------------------------------------------------------------------------
(* The loop                                                                *)
LEMMA SaveTotals ==
  ASSUME Counted, NEW items, NEW total, NEW step, NEW last, NEW acks,
         Save(items, total, step, last, acks)
  PROVE  /\ \E r : Commit(r) /\ r.kind = "checkpoint" /\ r.turn = Turn /\ r.used = total
         /\ task'.turn = task.turn /\ task'.total = total /\ task'.wasted = 0
         /\ rows' = rows
<1>1. /\ Commit(SavedRecord(items, total, step, last, acks))
      /\ task' = SavedTask(items, total, last)
  BY SaveIs
<1>2. task'.turn = task.turn /\ task'.total = total /\ task'.wasted = 0
  BY <1>1, WithTotals DEF SavedTask, TaskType
<1>3. LET r == SavedRecord(items, total, step, last, acks)
      IN r.kind = "checkpoint" /\ r.turn = Turn /\ r.used = total
  BY DEF SavedRecord, Checkpoint
<1>4. rows' = rows
  BY <1>1 DEF Commit
<1> QED BY <1>1, <1>2, <1>3, <1>4

LEMMA SaveCounted ==
  ASSUME Counted, [Next]_vars, pc \in Loop, pc' \in Loop, StoreIdle,
         NEW items, NEW total, NEW step, NEW last, NEW acks,
         Save(items, total, step, last, acks),
         total = task.total + task.wasted + (spent' - spent), task.total <= total
  PROVE  Counted'
<1>1. /\ \E r : Commit(r) /\ r.kind = "checkpoint" /\ r.turn = Turn /\ r.used = total
      /\ task'.turn = task.turn /\ task'.total = total /\ task'.wasted = 0
      /\ rows' = rows
  BY SaveTotals
<1>2. task'.total + task'.wasted = task.total + task.wasted + (spent' - spent)
  <2>1. spent' \in Nat
    BY OrderedStep, WithTotals DEF Ordered, TypeOK, LoopType
  <2> QED BY <1>1, <2>1, WithTotals
<1>3. \E r : Commit(r) /\ r.kind = "checkpoint" /\ r.turn = Turn /\ r.used = task'.total
             /\ task'.wasted = 0
  BY <1>1
<1> QED BY <1>1, <1>2, <1>3, LoopOn DEF StoreIdle

(* A step of the loop that neither samples nor saves                       *)
LEMMA TurnsOver ==
  ASSUME Counted, [Next]_vars, pc \in Loop \ {"prompt"}, pc' \in Loop, StoreIdle, OnlyWrites,
         rows'.tokens = rows.tokens, commit' = commit, UNCHANGED spent,
         task'.turn = task.turn, task'.total = task.total, task'.wasted = task.wasted,
         pc = "sample" => pc' = "sample"
  PROVE  Counted'
<1>1. task.total \in Nat /\ task.wasted \in Nat /\ spent \in Nat
  BY WithTotals
<1>2. /\ task.total <= task'.total
      /\ task'.total + task'.wasted = task.total + task.wasted + (spent' - spent)
  BY <1>1
<1>3. pc' # "sample" => task'.wasted = 0
  BY WithTotals
<1> QED BY <1>2, <1>3, LoopOn DEF StoreIdle

LEMMA BeginningCounted ==
  ASSUME Counted, [Next]_vars
  PROVE  Reconcile \/ Repair \/ Begin => Counted'
<1>1. ASSUME Reconcile PROVE Counted'
  <2>1. /\ pc = "reconcile" /\ StoreIdle /\ pc' \in {"reconcile", "repair"}
        /\ UNCHANGED rolloutVars /\ UNCHANGED <<task, spent>>
    BY <1>1 DEF Reconcile, At
  <2> QED BY <2>1, TurnsOver DEF Loop, rolloutVars, OnlyWrites
<1>2. ASSUME Repair PROVE Counted'
  <2>1. /\ pc = "repair" /\ StoreIdle /\ pc' = "begin" /\ UNCHANGED spent
        /\ pc \in Loop /\ pc' \in Loop
    BY <1>2 DEF Repair, At, Loop
  <2>2. CASE UNCHANGED rolloutVars /\ UNCHANGED task
    BY <2>1, <2>2, TurnsOver DEF rolloutVars, OnlyWrites
  <2>3. CASE \E items : Save(items, task.total, task.step, task.last, {})
    <3>1. PICK items : Save(items, task.total, task.step, task.last, {})
      BY <2>3
    <3>2. task.total = task.total + task.wasted + (spent' - spent) /\ task.total <= task.total
      BY <2>1, WithTotals
    <3> QED BY <2>1, <3>1, <3>2, SaveCounted
  <2> QED BY <1>2, <2>2, <2>3 DEF Repair
<1>3. ASSUME Begin PROVE Counted'
  <2>1. /\ pc = "begin" /\ StoreIdle /\ pc' \in {"complete", "top"} /\ UNCHANGED spent
        /\ UNCHANGED rolloutVars
    BY <1>3 DEF Begin, At
  <2>2. task'.turn = task.turn /\ task'.total = task.total /\ task'.wasted = task.wasted
    BY <1>3, WithTotals DEF Begin, TaskType
  <2> QED BY <2>1, <2>2, TurnsOver DEF Loop, rolloutVars, OnlyWrites
<1> QED BY <1>1, <1>2, <1>3

LEMMA LeaveCounted ==
  ASSUME Counted, [Next]_vars, pc \in Loop, StoreIdle, OnlyWrites, NEW verdict, Leave(verdict),
         NEW n \in Nat, rows'.tokens = rows.tokens + n, spent + n <= spent' + task.wasted
  PROVE  Counted'
BY LoopOut, WithTotals, LeaveWorks DEF StoreIdle

LEMMA TopCounted ==
  ASSUME Counted, [Next]_vars, Top
  PROVE  Counted'
<1>1. /\ pc = "top" /\ StoreIdle /\ UNCHANGED spent /\ pc \in Loop
      /\ task.wasted = 0 /\ spent \in Nat /\ Turn \in Turns
  BY WithTotals DEF Top, At, Loop
<1>2. CASE Leave("Cancelled") /\ UNCHANGED rolloutVars
  <2>1. rows'.tokens = rows.tokens + 0 /\ spent + 0 <= spent' + task.wasted /\ OnlyWrites
    BY <1>1, <1>2, WithTotals DEF rolloutVars, OnlyWrites
  <2> QED BY <1>1, <1>2, <2>1, LeaveCounted
<1>3. CASE ClaimInputs(Turn) /\ ~cancelled
  <2>1. rows'.tokens = rows.tokens /\ commit' = commit /\ OnlyWrites
    BY <1>1, <1>3, WithTotals, ClaimsInputs, RowsWork DEF ClaimInputs
  <2>2. /\ pc' \in {"ending", "window"}
        /\ task'.turn = task.turn /\ task'.total = task.total /\ task'.wasted = task.wasted
    <3> DEFINE some(kind) == {i \in Claimable(Turn) : Kind[i] = kind}
    <3>1. CASE some("interrupt") # {}
      <4>1. /\ pc' = "ending"
            /\ task' = [task EXCEPT !.verdict = "Interrupted", !.acks = Claimable(Turn)]
        BY <1>3, <3>1 DEF Top
      <4> QED BY <4>1, WithTotals DEF TaskType
    <3>2. CASE some("interrupt") = {}
      <4>1. /\ pc' = "window"
            /\ task' = [task EXCEPT
                 !.acks = Claimable(Turn),
                 !.final = @ \/ some("finish") # {},
                 !.history = @ \o (IF some("finish") = {} THEN <<>>
                                   ELSE <<Said(Max(some("finish")))>>)
                               \o InOrder(Said, some("message"))]
        BY <1>3, <3>2 DEF Top
      <4> HIDE DEF some
      <4> QED BY <4>1, WithTotals DEF TaskType
    <3> QED BY <3>1, <3>2
  <2>3. CASE pc' = "ending"
    <3>1. rows'.tokens = rows.tokens + 0 /\ spent + 0 <= spent' + task.wasted
      BY <1>1, <2>1, WithTotals
    <3> QED BY <1>1, <2>1, <2>2, <2>3, <3>1, LoopOut DEF StoreIdle
  <2>4. CASE pc' = "window"
    BY <1>1, <2>1, <2>2, <2>4, TurnsOver DEF Loop
  <2> QED BY <2>2, <2>3, <2>4
<1> QED BY <1>2, <1>3 DEF Top

LEMMA CompactCounted ==
  ASSUME Counted, [Next]_vars
  PROVE  CompactStart \/ CompactDone \/ CompactFails \/ BeginFails => Counted'
<1>1. ASSUME CompactStart PROVE Counted'
  <2>1. /\ pc = "window" /\ pc' = "compacting" /\ StoreIdle /\ UNCHANGED rolloutVars
        /\ UNCHANGED spent
        /\ task'.turn = task.turn /\ task'.total = task.total /\ task'.wasted = task.wasted
    BY <1>1, WithTotals DEF CompactStart, At, TaskType
  <2> QED BY <2>1, TurnsOver DEF Loop, rolloutVars, OnlyWrites
<1>2. ASSUME CompactDone PROVE Counted'
  <2>1. /\ pc = "compacting" /\ pc' = "prompt" /\ commit = Idle /\ UNCHANGED rolloutVars
        /\ spent' = spent + 1
        /\ task'.turn = task.turn /\ task'.total = task.total + 1 /\ task'.wasted = task.wasted
    BY <1>2, WithTotals DEF CompactDone, At, StoreIdle, TaskType
  <2>2. pc \in Loop /\ pc' \in Loop /\ task.wasted = 0
    BY <2>1, WithTotals DEF Loop
  <2>3. /\ task.total <= task'.total
        /\ task'.total + task'.wasted = task.total + task.wasted + (spent' - spent)
    BY <2>1, <2>2, WithTotals
  <2>4. OnlyWrites /\ rows'.tokens = rows.tokens /\ commit' = Idle
    BY <2>1 DEF rolloutVars, OnlyWrites
  <2> QED BY <2>1, <2>2, <2>3, <2>4, LoopOn
<1>3. ASSUME CompactFails \/ BeginFails PROVE Counted'
  <2>1. /\ pc \in {"begin", "compacting"} /\ StoreIdle /\ UNCHANGED rolloutVars /\ UNCHANGED spent
        /\ Leave("Failed") /\ pc \in Loop
    BY <1>3 DEF CompactFails, BeginFails, At, Loop
  <2>2. rows'.tokens = rows.tokens + 0 /\ spent + 0 <= spent' + task.wasted /\ OnlyWrites
    BY <2>1, WithTotals DEF rolloutVars, OnlyWrites
  <2> QED BY <2>1, <2>2, LeaveCounted
<1> QED BY <1>1, <1>2, <1>3

LEMMA PromptCounted ==
  ASSUME Counted, [Next]_vars, Prompt
  PROVE  Counted'
<1>1. /\ pc \in {"prompt", "window"} /\ StoreIdle /\ UNCHANGED spent /\ pc \in Loop
      /\ task.wasted = 0 /\ spent \in Nat /\ task.total \in Nat
  BY PromptIs, WithTotals DEF At, Loop
<1>2. CASE Leave("Failed") /\ UNCHANGED rolloutVars
  <2>1. rows'.tokens = rows.tokens + 0 /\ spent + 0 <= spent' + task.wasted /\ OnlyWrites
    BY <1>1, <1>2, WithTotals DEF rolloutVars, OnlyWrites
  <2> QED BY <1>1, <1>2, <2>1, LeaveCounted
<1>3. CASE /\ Save(Sampled, task.total, task.step - 1, FALSE, task.acks)
           /\ pc' = "sample" /\ ~Strays
  <2>1. task.total = task.total + task.wasted + (spent' - spent) /\ task.total <= task.total
    BY <1>1
  <2>2. pc' \in Loop
    BY <1>3 DEF Loop
  <2> QED BY <1>1, <1>3, <2>1, <2>2, SaveCounted
<1> QED BY <1>2, <1>3, PromptIs

(* Samples                                                                 *)
LEMMA AnswerCounted ==
  ASSUME Counted, [Next]_vars, SampleAnswer
  PROVE  Counted'
<1>1. /\ pc = "sample" /\ StoreIdle /\ pc' = "complete" /\ spent' = spent + 1
      /\ pc \in Loop /\ pc' \in Loop
  BY DEF SampleAnswer, At, Loop
<1>2. PICK items : Save(items, task.total + task.wasted + 1, task.step, TRUE, {})
  BY DEF SampleAnswer
<1>3. PICK total : total = task.total + task.wasted + 1
  OBVIOUS
<1>4. total = task.total + task.wasted + (spent' - spent) /\ task.total <= total
  BY <1>1, <1>3, WithTotals
<1>5. Save(items, total, task.step, TRUE, {})
  BY <1>2, <1>3
<1> QED BY <1>1, <1>4, <1>5, SaveCounted

LEMMA CallsCounted ==
  ASSUME Counted, [Next]_vars, NEW S \in Responses, SampleCalls(S)
  PROVE  Counted'
<1>1. /\ pc = "sample" /\ pc' = "announce" /\ commit = Idle /\ spent' = spent + 1
      /\ pc \in Loop /\ pc' \in Loop
      /\ Commit(CallRecord(S)) /\ task' = CallTask(S)
  BY SampleCallsIs DEF At, StoreIdle, Loop
<1>2. /\ task'.turn = task.turn /\ task'.wasted = 0
      /\ task'.total = task.total + task.wasted + 1
  BY <1>1, WithTotals DEF CallTask, TaskType
<1>3. LET r == CallRecord(S)
      IN r.kind = "checkpoint" /\ r.turn = Turn /\ r.used = task'.total
  BY <1>2 DEF CallRecord, Checkpoint
<1>4. /\ task.total <= task'.total
      /\ task'.total + task'.wasted = task.total + task.wasted + (spent' - spent)
  BY <1>1, <1>2, WithTotals
<1>5. rows' = rows
  BY <1>1 DEF Commit
<1>6. \E r : Commit(r) /\ r.kind = "checkpoint" /\ r.turn = Turn /\ r.used = task'.total
             /\ task'.wasted = 0
  BY <1>1, <1>2, <1>3
<1> QED BY <1>1, <1>2, <1>4, <1>5, <1>6, LoopOn

LEMMA RetryCounted ==
  ASSUME Counted, [Next]_vars, SampleRetry
  PROVE  Counted'
<1>1. /\ pc = "sample" /\ pc' = "sample" /\ commit = Idle /\ spent' = spent + 1
      /\ pc \in Loop /\ pc' \in Loop /\ Retry
  BY DEF SampleRetry, At, StoreIdle, Loop, Retry
<1>2. OnlyWrites /\ rows' = rows /\ commit' = Idle
  BY <1>1 DEF Retry, OnlyWrites
<1>3. /\ task'.turn = task.turn /\ task'.wasted = task.wasted + 1 /\ task'.total = task.total
  BY WithTotals DEF SampleRetry, TaskType
<1>4. /\ task.total <= task'.total
      /\ task'.total + task'.wasted = task.total + task.wasted + (spent' - spent)
  BY <1>1, <1>3, WithTotals
<1> QED BY <1>1, <1>2, <1>3, <1>4, LoopOn

LEMMA FailedSampleCounted ==
  ASSUME Counted, [Next]_vars
  PROVE  SampleDuplicate \/ SampleFails \/ SampleCancelled => Counted'
<1>1. ASSUME SampleDuplicate PROVE Counted'
  <2>1. /\ pc \in Loop /\ StoreIdle /\ spent' = spent + 1 /\ Leave("Failed")
        /\ ChargeTokens(task.wasted + 1)
    BY <1>1 DEF SampleDuplicate, At, Loop
  <2>2. PICK n \in Nat : n = task.wasted + 1
    BY WithTotals
  <2>3. OnlyWrites /\ rows'.tokens = rows.tokens + n
    BY <2>1, <2>2, WithTotals, ChargesTokens, RowsWork
  <2>4. spent + n <= spent' + task.wasted
    BY <2>1, <2>2, WithTotals
  <2> QED BY <2>1, <2>3, <2>4, LeaveCounted
<1>2. ASSUME SampleFails PROVE Counted'
  <2>1. /\ pc \in Loop /\ StoreIdle /\ spent' = spent /\ Leave("Failed")
        /\ ChargeTokens(task.wasted)
    BY <1>2 DEF SampleFails, At, Loop
  <2>2. PICK n \in Nat : n = task.wasted
    BY WithTotals
  <2>3. OnlyWrites /\ rows'.tokens = rows.tokens + n
    BY <2>1, <2>2, WithTotals, ChargesTokens, RowsWork
  <2>4. spent + n <= spent' + task.wasted
    BY <2>1, <2>2, WithTotals
  <2> QED BY <2>1, <2>3, <2>4, LeaveCounted
<1>3. ASSUME SampleCancelled PROVE Counted'
  <2>1. /\ pc \in Loop /\ StoreIdle /\ UNCHANGED spent /\ Leave("Cancelled")
        /\ UNCHANGED rolloutVars
    BY <1>3 DEF SampleCancelled, At, Loop
  <2>2. /\ OnlyWrites /\ rows'.tokens = rows.tokens + 0 /\ 0 \in Nat
        /\ spent + 0 <= spent' + task.wasted
    BY <2>1, WithTotals DEF rolloutVars, OnlyWrites
  <2> QED BY <2>1, <2>2, LeaveCounted
<1> QED BY <1>1, <1>2, <1>3

(* Tools                                                                   *)
LEMMA ToolsCounted ==
  ASSUME Counted, [Next]_vars
  PROVE  /\ Announce => Counted'
         /\ \A c \in Calls : Dispatch(c) \/ Return(c) => Counted'
         /\ \A c \in Calls : Collect(c) \/ FinishStep(c) => Counted'
<1>1. ASSUME Announce PROVE Counted'
  <2>1. /\ pc = "announce" /\ StoreIdle /\ pc' \in {"announce", "tools"}
        /\ UNCHANGED rolloutVars /\ UNCHANGED <<task, spent>>
    BY <1>1 DEF Announce, At
  <2> QED BY <2>1, TurnsOver DEF Loop, rolloutVars, OnlyWrites
<1>2. ASSUME NEW c \in Calls, Dispatch(c) \/ Return(c) PROVE Counted'
  <2>1. UNCHANGED rolloutVars /\ UNCHANGED <<pc, task, spent>>
    BY <1>2 DEF Dispatch, Return
  <2> QED BY <2>1, SteadyCounted DEF rolloutVars, OnlyWrites
<1>3. ASSUME NEW c \in Calls, Collect(c) PROVE Counted'
  <2>1. /\ pc = "tools" /\ StoreIdle /\ pc' = pc /\ UNCHANGED spent /\ pc \in Loop /\ pc' \in Loop
    BY <1>3 DEF Collect, At, Loop
  <2>2. PICK items : Save(items, task.total, task.step, FALSE, {})
    BY <1>3 DEF Collect
  <2>3. task.total = task.total + task.wasted + (spent' - spent) /\ task.total <= task.total
    BY <2>1, WithTotals
  <2> QED BY <2>1, <2>2, <2>3, SaveCounted
<1>4. ASSUME NEW c \in Calls, FinishStep(c) PROVE Counted'
  <2>1. /\ pc = "tools" /\ StoreIdle /\ pc' \in {"tools", "top"} /\ UNCHANGED spent
        /\ UNCHANGED rolloutVars
    BY <1>4 DEF FinishStep, At
  <2>2. task'.turn = task.turn /\ task'.total = task.total /\ task'.wasted = task.wasted
    BY <1>4, WithTotals DEF FinishStep, TaskType
  <2> QED BY <2>1, <2>2, TurnsOver DEF Loop, rolloutVars, OnlyWrites
<1> QED BY <1>1, <1>2, <1>3, <1>4

(* Others                                                                  *)
LEMMA OthersCounted ==
  ASSUME Counted, [Next]_vars
  PROVE  /\ Cancel => Counted'
         /\ \A i \in Inputs : Send(i) => Counted'
         /\ UNCHANGED vars => Counted'
<1>1. ASSUME Cancel PROVE Counted'
  <2>1. UNCHANGED rolloutVars /\ UNCHANGED <<pc, task, spent>>
    BY <1>1 DEF Cancel
  <2> QED BY <2>1, SteadyCounted DEF rolloutVars, OnlyWrites
<1>2. ASSUME NEW i \in Inputs, Send(i) PROVE Counted'
  <2>1. SendInput(i) /\ UNCHANGED <<pc, task, spent>>
    BY <1>2 DEF Send, volatile
  <2>2. rows'.tokens = rows.tokens /\ commit' = commit /\ OnlyWrites
    BY <2>1, WithTotals, SendsAnInput, RowsWork DEF SendInput
  <2> QED BY <2>1, <2>2, SteadyCounted
<1>3. ASSUME UNCHANGED vars PROVE Counted'
  <2>1. UNCHANGED rolloutVars /\ UNCHANGED <<pc, task, spent>>
    BY <1>3 DEF vars, volatile
  <2> QED BY <2>1, SteadyCounted DEF rolloutVars, OnlyWrites
<1> QED BY <1>1, <1>2, <1>3

(* complete_turn: nothing is due of a Turn that has its answer.            *)
LEMMA CompleteCounted ==
  ASSUME Counted, [Next]_vars, Complete
  PROVE  Counted'
<1>1. /\ pc = "complete" /\ pc' = "left" /\ commit = Idle /\ UNCHANGED <<task, spent>>
      /\ pc \in Loop /\ pc' \notin Loop \cup Leaving \cup {"start", "load"} /\ pc \notin Leaving
  BY DEF Complete, At, StoreIdle, Loop, Leaving
<1>2. Commit(Updated(Turn, "Completed", {})) \/ UNCHANGED rolloutVars
  BY DEF Complete
<1>3. /\ OnlyWrites \/ \E r : Commit(r)
      /\ rows' = rows /\ (commit' = commit \/ commit'.record.kind # "created")
  BY <1>2 DEF Commit, Updated, rolloutVars, OnlyWrites
<1>4. /\ StandsStill /\ Ordered /\ Ordered' /\ ~damaged
  BY <1>1, <1>3, QuietTask, OrderedStep, DueWas DEF Counted, Sound
<1>5. TaskTotals' /\ RowIsOpen'
  BY <1>1 DEF TaskTotals, RowIsOpen
<1>6. Due = 0 /\ Due' = 0
  <2>1. task.total = Told.used[Turn] /\ task.wasted = 0
    BY <1>1 DEF Counted, TaskTotals, Committing, Idle
  <2>2. task.total - task.total + 0 = 0
    BY WithTotals
  <2> QED BY <1>1, <2>1, <2>2 DEF Due
<1>7. Lost' = Lost /\ Lost \in Int
  <2>1. rows'.tokens = rows.tokens + 0 /\ 0 \in Nat
    BY <1>3, WithTotals
  <2>2. /\ Told.tokens \in Nat /\ Aside \in Int /\ spent \in Nat
        /\ Lost = spent - (Aside + Told.tokens + Due)
        /\ Lost' = spent' - (Aside + 0 + Told.tokens + Due')
    BY <1>4, <2>1, StillAccount
  <2> QED BY <1>1, <1>6, <2>2
<1>8. FallsShort => FallsShort'
  BY <1>1, <1>3, ShortStays
<1>9. ~damaged'
  BY <1>4 DEF StandsStill
<1>10. commit' # Idle /\ commit'.record.kind = "created"
         => rows'.status[commit'.record.turn] = "none"
  BY <1>1, <1>3
<1> QED BY <1>5, <1>7, <1>8, <1>9, <1>10, CountedBy

(* reconstruct_agent_rollout: the task begins with the total in the file.  *)
LEMMA ScansAside ==
  ASSUME StoreType(Item), StoreIsInOrder, ~damaged, Scan
  PROVE  Aside' = Aside
<1>1. file \in Seq(RecordOf(Item)) /\ projected \in 0..Len(file)
  BY LenProperties DEF StoreType, StoreIsInOrder
<1>2. file' = Records /\ projected' = projected /\ rows' = rows
  BY DEF Scan
<1>3. SubSeq(file', 1, projected') = SubSeq(file, 1, projected)
  BY <1>1, <1>2, RecordsBegin
<1> QED BY <1>2, <1>3 DEF Aside, Seen, Upto

LEMMA LoadCounted ==
  ASSUME Counted, [Next]_vars, Load
  PROVE  Counted'
<1>1. /\ pc = "load" /\ commit = Idle /\ UNCHANGED spent /\ pc' \in {"left", "reconcile", "begin"}
      /\ pc \notin Loop /\ pc \notin Leaving /\ pc' \notin Leaving /\ pc' \notin {"start", "load", "prompt"}
  BY DEF Load, At, StoreIdle, Loop, Leaving
<1>2. Ordered /\ Ordered' /\ StoreType(Item) /\ StoreIsInOrder
  BY OrderedStep DEF Counted, Sound, Ordered, TypeOK
<1>3. CASE damaged
  <2>1. UNCHANGED rolloutVars /\ pc' = "left" /\ UNCHANGED task
    BY <1>3 DEF Load
  <2>2. pc' \notin Loop /\ rows' = rows /\ commit' = commit /\ OnlyWrites
    BY <2>1 DEF Loop, rolloutVars, OnlyWrites
  <2>3. RowIsOpen'
    BY <1>1, <2>2 DEF RowIsOpen
  <2> QED BY <1>1, <2>1, <2>2, <2>3, Outside
<1>4. CASE ~damaged
  <2>1. Scan /\ rows' = rows /\ commit' = Idle /\ ~damaged'
    BY <1>4 DEF Load, Scan, StoreIdle
  <2>2. /\ Records' = Records /\ Latest' = Latest /\ Told' = Told /\ Canonical' = Latest
    <3>1. file' = Records /\ trailing' = <<>>
      BY <2>1 DEF Scan
    <3>2. Records' = Records
      BY <1>2, <3>1, StoreActs, StoreTypeStep, WholeTypeNext
    <3> QED BY <3>1, <3>2 DEF Latest, Told, Canonical
  <2>3. Aside' = Aside
    BY <1>2, <1>4, <2>1, ScansAside
  <2>4. Due = 0 /\ Told.tokens \in Nat /\ Aside \in Int /\ spent \in Nat
    BY <1>1, <1>2, <1>4, DueWas, AccountTypes
  <2>5. Lost = spent - (Aside + Told.tokens + 0) /\ Lost' = spent - (Aside + Told.tokens + Due')
    BY <1>1, <2>2, <2>3, <2>4 DEF Lost
  <2>6. FallsShort => FallsShort'
    BY <1>1, <2>1, ShortStays
  <2>7. TaskTotals' /\ RowIsOpen' /\ Due' = 0
    <3>1. CASE pc' = "left"
      <4>1. pc' \notin Loop
        BY <3>1 DEF Loop
      <4> QED BY <1>1, <4>1 DEF TaskTotals, RowIsOpen, Due
    <3>2. CASE pc' # "left"
      <4>1. /\ Latest.turn = Turn
            /\ task'.turn = task.turn /\ task'.total = Latest.used /\ task'.wasted = task.wasted
        <5>1. /\ Canonical'.turn = Turn
              /\ task' = [task EXCEPT
                   !.resumed = Canonical'.begun, !.history = Canonical'.context,
                   !.context = Canonical'.context, !.step = Canonical'.steps,
                   !.total = Canonical'.used, !.last = Canonical'.last]
          BY <1>4, <3>2 DEF Load
        <5> QED BY <2>2, <5>1, WithTotals DEF TaskType
      <4>2. Turn \in Turns /\ Turn # 0 /\ task.wasted = 0
        BY <1>1, WithTotals, RolloutAssumption
      <4>3. task'.total = Told.used[Turn] /\ task'.total \in Nat
        BY <1>2, <1>4, <4>1, <4>2, TotalTypesNext DEF Counted, TurnsAreNew
      <4>4. rows.status[Turn] \in OpenTurn
        BY <1>1, <1>2 DEF Ordered, Control, TaskInOrder, LoadsRunning
      <4>5. pc' \in Loop /\ ~Committing'
        BY <1>1, <2>1, <3>2 DEF Loop, Committing, Idle
      <4>6. TaskTotals'
        BY <1>1, <2>2, <4>1, <4>2, <4>3, <4>5 DEF TaskTotals, Turn
      <4>7. RowIsOpen'
        BY <1>1, <2>1, <4>1, <4>4 DEF RowIsOpen, Turn
      <4>8. Due' = 0
        <5>1. Due' = task'.total - Told'.used[task'.turn] + task'.wasted
          BY <1>2, <4>5, <4>6, DueIs
        <5>2. Told'.used[task'.turn] = task'.total
          BY <2>2, <4>1, <4>3 DEF Turn
        <5> QED BY <4>1, <4>2, <4>3, <5>1, <5>2
      <4> QED BY <4>6, <4>7, <4>8
    <3> QED BY <3>1, <3>2
  <2>8. Lost' = Lost /\ Lost \in Int
    BY <2>4, <2>5, <2>7
  <2> QED BY <2>1, <2>6, <2>7, <2>8, CountedBy
<1> QED BY <1>3, <1>4

(* The Store's thread: a record joins the file, then the rows.             *)
LEMMA RecordOfTheLoop ==
  ASSUME Counted, commit # Idle
  PROVE  /\ commit.record \in RecordOf(Item)
         /\ commit.record.kind = "checkpoint" => pc \in Loop
         /\ commit.record.kind = "created" => rows.status[commit.record.turn] = "none"
         /\ commit.record.kind = "updated" => rows.status[commit.record.turn] \in OpenTurn
         /\ pc \in Loop => commit.record.kind = "checkpoint"
<1>1. commit.record \in RecordOf(Item)
  BY CommitTypes DEF Counted, Sound, Ordered, TypeOK
<1>2. commit.record.kind \in {"created", "checkpoint", "updated"}
  BY <1>1, KindsAre
<1>3. Fitting(commit.record)
  BY DEF Counted, Sound, Ordered, Control, TaskInOrder, CommitFits
<1>4. commit.record.kind = "created" => rows.status[commit.record.turn] = "none"
  BY DEF Counted, TurnsAreNew
<1>5. pc \in Loop => commit.record.kind = "checkpoint"
  BY <1>2, <1>3 DEF Fitting, Loop
<1> QED BY <1>1, <1>3, <1>4, <1>5 DEF Fitting

LEMMA WrittenCounted ==
  ASSUME Counted, [Next]_vars, CommitStep, Joined, UNCHANGED rows, Projecting', ~damaged, ~damaged',
         commit' # Idle, commit'.record = commit.record, commit # Idle
  PROVE  Counted'
<1>1. /\ UNCHANGED <<pc, task, spent>> /\ (AppendRecord \/ ProjectRecord)
  BY DEF CommitStep, volatile
<1>2. /\ Ordered /\ Ordered' /\ StoreType(Item) /\ StoreIsInOrder
  BY OrderedStep DEF Counted, Sound, Ordered, TypeOK
<1>3. Aside' = Aside
  BY <1>1, <1>2, AsideWritten
<1>4. /\ pc \in Loop => /\ Told'.used = [Told.used EXCEPT ![Turn] = task.total]
                        /\ Told'.tokens = Told.tokens + (task.total - Told.used[Turn])
      /\ pc \notin Loop => Told'.tokens = Told.tokens
  BY RecordOfTheLoop, JoinedTotals
<1>5. /\ task.total \in Nat /\ task.wasted \in Nat /\ spent \in Nat /\ Told.tokens \in Nat /\ Aside \in Int
      /\ pc \in Loop => Turn \in Turns /\ Told.used[Turn] \in Nat /\ Told.used \in [Turns -> Nat]
  <2>1. Told.used \in [Turns -> Nat]
    BY <1>2, ToldType, RowsAreARecord
  <2> QED BY <1>2, <2>1, WithTotals, TotalTypes, AccountTypes
<1>6. ~Committing' /\ Committing
  BY DEF Joined, Adding, Committing, Projecting
<1>7. pc \in Loop => Told'.used[Turn] = task.total /\ task.wasted = 0
  BY <1>4, <1>5, <1>6 DEF Counted, TaskTotals
<1>8. TaskTotals'
  BY <1>1, <1>5, <1>6, <1>7 DEF Counted, TaskTotals, Turn
<1>9. Told'.tokens + Due' = Told.tokens + Due /\ Due' \in Nat
  <2>1. CASE pc \in Loop
    <3>1. Due = task.total - Told.used[Turn] + task.wasted
      BY <2>1, DueWas
    <3>2. Due' = task'.total - Told'.used[task'.turn] + task'.wasted
      BY <1>1, <1>2, <1>8, <2>1, DueIs
    <3>3. Due' = task.total - task.total + 0
      BY <1>1, <1>7, <2>1, <3>2 DEF Turn
    <3> QED BY <1>4, <1>5, <1>7, <2>1, <3>1, <3>3
  <2>2. CASE pc \notin Loop
    BY <1>1, <1>4, <1>5, <2>2 DEF Due
  <2> QED BY <2>1, <2>2
<1>10. Lost' = Lost /\ Lost \in Int
  <2>1. Told'.tokens \in Nat /\ Due \in Nat
    BY <1>2, AccountTypesNext, DueWas
  <2> QED BY <1>1, <1>3, <1>5, <1>9, <2>1 DEF Lost
<1>11. RowIsOpen'
  BY <1>1, <1>2, MishapsStay DEF Counted, RowIsOpen, Turn
<1>12. FallsShort => FallsShort'
  BY <1>1 DEF FallsShort
<1>13. commit'.record.kind = "created" => rows'.status[commit'.record.turn] = "none"
  BY RecordOfTheLoop
<1> QED BY <1>8, <1>10, <1>11, <1>12, <1>13, CountedBy

LEMMA ShortIsProjected ==
  ASSUME Counted, FallsShort, commit # Idle, UNCHANGED pc, rows' = Project(rows, commit.record)
  PROVE  FallsShort'
<1>1. /\ commit.record \in RecordOf(Item)
      /\ commit.record.kind = "created" => rows.status[commit.record.turn] = "none"
      /\ commit.record.kind = "updated" => rows.status[commit.record.turn] \in OpenTurn
  BY RecordOfTheLoop
<1>2. PICK r \in RecordOf(Item) : r = commit.record
  BY <1>1
<1>3. r.kind \in {"created", "checkpoint", "updated"} /\ r.turn \in Turns
  BY KindsAre
<1>4. /\ r.kind = "created" => rows'.status = [rows.status EXCEPT ![r.turn] = "Queued"]
      /\ r.kind = "checkpoint" => rows'.status = rows.status
      /\ r.kind = "updated" => rows'.status = [rows.status EXCEPT ![r.turn] = r.status]
  BY <1>2, WithTotals, StatusAfter
<1>5. rows.status \in [Turns -> {"none"} \cup OpenTurn \cup TerminalTurn]
  BY WithTotals, RowsAreARecord
<1>6. CASE pc \in Leaving
  BY <1>6 DEF FallsShort
<1>7. CASE r.kind = "updated" /\ r.status \in Short
  BY <1>3, <1>4, <1>5, <1>7 DEF FallsShort
<1>8. CASE \E t \in Turns : rows.status[t] \in Short
  <2>1. PICK t \in Turns : rows.status[t] \in Short
    BY <1>8
  <2>2. rows.status[t] \notin OpenTurn /\ rows.status[t] # "none"
    BY <2>1 DEF Short, TerminalTurn, OpenTurn
  <2>3. t # r.turn \/ r.kind = "checkpoint"
    BY <1>1, <1>2, <1>3, <2>2
  <2>4. rows'.status[t] = rows.status[t]
    BY <1>3, <1>4, <1>5, <2>3
  <2> QED BY <2>1, <2>4 DEF FallsShort
<1> QED BY <1>2, <1>6, <1>7, <1>8 DEF FallsShort

LEMMA SavesTheStatus ==
  ASSUME NEW db \in RowsType, NEW r \in RecordOf(Item), r.kind = "checkpoint"
  PROVE  Project(db, r).status = db.status
<1>1. Project(db, r) =
        [status |-> db.status, used |-> [db.used EXCEPT ![r.turn] = r.used],
         last |-> [db.last EXCEPT ![r.turn] = r.last],
         tokens |-> TokensAfter(db, r), input |-> Applied(db.input, r.acks),
         owner |-> db.owner]
  BY ProjectCheckpoint
<1> QED BY <1>1

LEMMA CommitStepCounted ==
  ASSUME Counted, [Next]_vars, CommitStep
  PROVE  Counted'
<1>1. /\ UNCHANGED <<pc, task, spent>> /\ (AppendRecord \/ ProjectRecord)
  BY DEF CommitStep, volatile
<1>2. /\ Ordered /\ Ordered' /\ StoreType(Item) /\ StoreIsInOrder /\ Sound'
  BY OrderedStep, SoundStep DEF Counted, Sound, Ordered, TypeOK
<1>3. commit # Idle
  BY <1>1, <1>2, CommitStepIs
<1>4. CASE /\ Joined /\ UNCHANGED rows /\ Projecting' /\ ~damaged /\ ~damaged'
           /\ commit' # Idle /\ commit'.record = commit.record
  BY <1>3, <1>4, WrittenCounted
<1>5. CASE /\ Unmoved /\ rows' = Project(rows, commit.record) /\ commit' = Idle
           /\ damaged' \/ (Projecting /\ ~damaged /\ Whole' = <<>> /\ projected' = Len(file'))
  <2>1. PICK r \in RecordOf(Item) : r = commit.record
    BY <1>3, RecordOfTheLoop
  <2>2. pc \in Loop <=> r.kind = "checkpoint"
    BY <1>3, <2>1, RecordOfTheLoop
  <2>3. ~Committing'
    BY <1>5 DEF Committing, Idle
  <2>4. CASE damaged'
    <3>1. pc \notin Loop
      BY <1>1, <1>2, <2>4 DEF Sound, TaskIsSound, TaskFollowsFile, Settled
    <3>2. rows'.tokens = rows.tokens
      BY <1>5, <2>1, <2>2, <3>1, WithTotals, UsedAfter
    <3>3. TaskTotals'
      BY <1>1, <3>1 DEF Counted, TaskTotals
    <3>4. ~Undisturbed'
      BY <1>2, <2>4, MishapsStay
    <3>5. RowIsOpen'
      BY <3>4 DEF RowIsOpen
    <3>6. rows'.tokens <= spent'
      BY <1>1, <3>2 DEF Counted, Charged
    <3> QED BY <1>5, <2>4, <3>3, <3>4, <3>5, <3>6, CountedBy
  <2>5. CASE ~damaged'
    <3>1. Projecting /\ ~damaged /\ ~Committing
      BY <1>5, <2>5 DEF Projecting, Committing
    <3>2. Aside' = Aside
      BY <1>1, <1>2, <2>5, <3>1, AsideWritten
    <3>3. Told' = Told
      BY <1>5 DEF Unmoved
    <3>4. TaskTotals'
      BY <1>1, <2>3, <3>1, <3>3 DEF Counted, TaskTotals, Turn
    <3>5. Due' = Due
      BY <1>1, <3>3 DEF Due, Turn
    <3>6. Lost' = Lost /\ Lost \in Int
      BY <1>1, <1>2, <3>1, <3>2, <3>3, <3>5, AccountTypes, DueWas DEF Lost
    <3>7. RowIsOpen'
      <4>1. ASSUME Undisturbed', pc \in Loop \cup Leaving PROVE rows'.status[task'.turn] \in OpenTurn /\ pc \in Loop
        <5>1. Undisturbed
          BY <1>2, <4>1, MishapsStay
        <5>2. rows.status[Turn] \in OpenTurn /\ pc \notin Leaving
          BY <1>3, <4>1, <5>1 DEF Counted, RowIsOpen
        <5>3. r.kind = "checkpoint"
          BY <2>2, <4>1, <5>2
        <5>4. rows'.status = rows.status
          <6>1. rows' = Project(rows, r) /\ rows \in RowsType
            BY <1>5, <2>1, WithTotals
          <6> QED BY <5>3, <6>1, SavesTheStatus
        <5> QED BY <1>1, <4>1, <5>2, <5>4 DEF Turn
      <4> QED BY <1>1, <1>5, <4>1 DEF RowIsOpen, Turn
    <3>8. FallsShort => FallsShort'
      BY <1>1, <1>3, <1>5, ShortIsProjected
    <3> QED BY <1>5, <2>5, <3>4, <3>6, <3>7, <3>8, CountedBy
  <2> QED BY <2>4, <2>5
<1> QED BY <1>1, <1>2, <1>4, <1>5, CommitStepIs

(* What was due is lost, but what had reached the file.                    *)
LEMMA FaultCounted ==
  ASSUME Counted, [Next]_vars, pc' \in {"off", "left", "ending"}, ~Undisturbed', commit' = Idle,
         spent' = spent, damaged' => rows'.tokens <= spent',
         ~damaged' => ~damaged /\ Aside' = Aside /\ (Unmoved \/ Joined)
  PROVE  Counted'
<1>1. pc' \notin Loop /\ pc' \notin {"start", "load"}
  BY DEF Loop
<1>2. TaskTotals' /\ RowIsOpen'
  BY <1>1 DEF TaskTotals, RowIsOpen
<1>3. Ordered /\ Ordered'
  BY OrderedStep DEF Counted, Sound
<1>4. ASSUME ~damaged' PROVE Lost <= Lost'
  <2>1. ~damaged /\ Aside' = Aside /\ (Unmoved \/ Joined)
    BY <1>4
  <2>2. /\ Told.tokens \in Nat /\ Told'.tokens \in Nat /\ Aside \in Int /\ spent \in Nat
        /\ Due \in Nat /\ Due' = 0
    BY <1>1, <1>2, <1>3, <1>4, <2>1, AccountTypes, AccountTypesNext, DueWas, DueIs
  <2>3. Told'.tokens <= Told.tokens + Due
    <3>1. CASE Unmoved
      BY <2>2, <3>1 DEF Unmoved
    <3>2. CASE Joined /\ commit.record.kind # "checkpoint"
      BY <2>2, <3>2, JoinedTotals
    <3>3. CASE Joined /\ commit.record.kind = "checkpoint"
      <4>1. /\ Told'.tokens = Told.tokens + (task.total - Told.used[Turn]) /\ pc \in Loop
        BY <3>3, JoinedTotals
      <4>2. Due = task.total - Told.used[Turn] + task.wasted
        BY <4>1, DueWas
      <4>3. task.total \in Nat /\ task.wasted \in Nat /\ Told.used[Turn] \in Nat
        BY <1>3, <4>1, TotalTypes
      <4> QED BY <2>2, <4>1, <4>2, <4>3
    <3> QED BY <2>1, <3>1, <3>2, <3>3
  <2> QED BY <2>1, <2>2, <2>3 DEF Lost
<1> QED BY <1>2, <1>4, CountedBy

LEMMA MishapsCounted ==
  ASSUME Counted, [Next]_vars
  PROVE  /\ CommitFails => Counted'
         /\ \A survives \in BOOLEAN : Crash(survives) => Counted'
<1>1. /\ StoreType(Item) /\ StoreIsInOrder /\ mishaps \in [crash : Nat, fault : Nat, retry : Nat]
      /\ damaged \in BOOLEAN
  BY DEF Counted, Sound, Ordered, TypeOK, StoreType
<1>2. ASSUME CommitFails PROVE Counted'
  <2>1. AppendFails /\ UNCHANGED spent /\ pc' \in {"off", "left", "ending"}
    BY <1>2 DEF CommitFails, Leave
  <2>2. /\ commit' = Idle /\ UNCHANGED <<file, damaged, rows, projected>> /\ (Unmoved \/ Joined)
    BY <1>1, <2>1, AppendFailsIs
  <2>3. ~Undisturbed'
    BY <1>1, <2>1 DEF AppendFails, Undisturbed
  <2>4. Aside' = Aside
    BY <2>2 DEF Aside, Seen
  <2>5. rows'.tokens <= spent'
    BY <2>1, <2>2 DEF Counted, Charged
  <2> QED BY <2>1, <2>2, <2>3, <2>4, <2>5, FaultCounted
<1>3. ASSUME NEW survives \in BOOLEAN, Crash(survives) PROVE Counted'
  <2>1. Reopen(survives) /\ UNCHANGED spent /\ pc' = "off"
    BY <1>3 DEF Crash
  <2>2. ~damaged /\ ~damaged' /\ commit' = Idle /\ (Unmoved \/ Joined)
    BY <1>1, <2>1, ReopenDone
  <2>3. ~Undisturbed'
    BY <1>1, <2>1 DEF Reopen, Undisturbed
  <2>4. Aside' = Aside
    BY <1>1, <2>1, <2>2, AsideWritten
  <2> QED BY <2>1, <2>2, <2>3, <2>4, FaultCounted
<1> QED BY <1>2, <1>3
-----------------------------------------------------------------------------
LEMMA CountedInit == Init => Counted
<1> SUFFICES ASSUME Init PROVE Counted
  OBVIOUS
<1>1. Sound /\ StoreType(Item) /\ StoreIsInOrder
  BY SoundInit DEF Sound, Ordered, TypeOK
<1>2. /\ file = <<>> /\ trailing = <<>> /\ ~damaged /\ commit = Idle /\ pc = "off"
      /\ projected = 0 /\ rows = EmptyRows /\ spent = 0
  BY DEF Init, RolloutInit
<1>3. Records = <<>> /\ Latest = NoTurn(<<>>) /\ Told = EmptyRows
  <2>1. NoTurn(<<>>) \in StateOf(Item) /\ EmptyRows \in RowsType
    BY EmptySeq, NoTurnType, EmptyRowsType
  <2>2. Records = <<>>
    BY <1>2, ConcatEmptySeq, EmptySeq DEF Records, Whole, Torn
  <2> QED BY <2>1, <2>2, ReadsNothing, ProjectsNothing DEF Latest, Told
<1>4. EmptyRows.tokens = 0 /\ (\A t \in Turns : EmptyRows.used[t] = 0)
  BY DEF EmptyRows
<1>5. TurnsAreNew
  BY <1>2, <1>3, <1>4 DEF TurnsAreNew, NoTurn
<1>6. TaskTotals /\ RowIsOpen /\ Due = 0
  BY <1>2 DEF TaskTotals, RowIsOpen, Due, Loop, Leaving
<1>7. Seen = EmptyRows
  BY <1>1, <1>2, EmptyRowsType, ProjectUpto DEF Seen, StoreType
<1>8. Charged
  BY <1>2, <1>3, <1>4, <1>6, <1>7 DEF Charged, Lost, Aside
<1> QED BY <1>1, <1>5, <1>6, <1>8 DEF Counted

LEMMA CountedStep == Counted /\ [Next]_vars => Counted'
<1> SUFFICES ASSUME Counted, [Next]_vars PROVE Counted'
  OBVIOUS
<1>1. CASE TaskStep
  <2>1. CASE (\E t \in Turns : Attach(t) \/ TakeUp(t) \/ ActionRecovers(t))
             \/ StartTurn \/ Load \/ TaskEnds
    BY <2>1, EdgesCounted, LoadCounted
  <2>2. CASE Reconcile \/ Repair \/ Begin \/ Top \/ CompactStart \/ CompactDone
             \/ CompactFails \/ BeginFails \/ Prompt
    BY <2>2, BeginningCounted, TopCounted, CompactCounted, PromptCounted
  <2>3. CASE SampleAnswer \/ (\E S \in Responses : SampleCalls(S)) \/ SampleDuplicate
             \/ SampleRetry \/ SampleFails \/ SampleCancelled
    BY <2>3, AnswerCounted, CallsCounted, RetryCounted, FailedSampleCounted
  <2>4. CASE Announce \/ (\E c \in Calls : Dispatch(c) \/ Collect(c) \/ FinishStep(c))
             \/ Complete \/ FinishPending \/ EndTurn
    BY <2>4, ToolsCounted, CompleteCounted, EndingCounted
  <2> QED BY <1>1, <2>1, <2>2, <2>3, <2>4 DEF TaskStep
<1>2. CASE UNCHANGED vars
  BY <1>2, OthersCounted
<1>3. CASE ~TaskStep /\ Next
  BY <1>3, CommitStepCounted, MishapsCounted, OthersCounted, ToolsCounted, EdgesCounted DEF Next
<1> QED BY <1>1, <1>2, <1>3

(* Every sample a provider charged for is in the Session's tokens, in the  *)
(* total a record of the open Turn will bring there, or was lost to a      *)
(* crash, a failed write or a Turn that did not complete; none is there    *)
(* twice, though each record repeats its Turn's total and a restart        *)
(* projects records again.                                                 *)
THEOREM TurnCounted == Spec => []Counted
  BY CountedInit, CountedStep, PTL DEF Spec

LEMMA NothingIsDue ==
  ASSUME Counted, Undisturbed, \A t \in Turns : rows.status[t] \in {"none", "Completed"}
  PROVE  rows.tokens = spent
<1>1. Ordered /\ StoreType(Item) /\ StoreIsInOrder
  BY DEF Counted, Sound, Ordered, TypeOK
<1>2. Settled /\ ~damaged
  <2>1. mishaps.fault = 0
    BY DEF Undisturbed
  <2> QED BY <1>1, <2>1 DEF StoreIsInOrder, Settled
<1>3. \A t \in Turns : rows.status[t] \notin OpenTurn \cup Short
  BY DEF OpenTurn, Short, TerminalTurn
<1>4. pc \notin Loop \cup Leaving
  <2>1. "off" \notin Loop \cup Leaving
    BY DEF Loop, Leaving
  <2> QED BY <1>3, <2>1, WithTotals DEF Counted, RowIsOpen
<1>5. commit # Idle => commit.record.kind # "updated" /\ commit.record.kind # "checkpoint"
  <2>1. ASSUME commit # Idle, commit.record.kind = "updated" PROVE FALSE
    <3>1. PICK r \in RecordOf(Item) : r = commit.record
      BY <2>1, RecordOfTheLoop
    <3>2. r.turn \in Turns /\ rows.status[r.turn] \in OpenTurn
      BY <2>1, <3>1, KindsAre, RecordOfTheLoop
    <3> QED BY <1>3, <3>2
  <2> QED BY <1>4, <2>1, RecordOfTheLoop
<1>6. Lost = 0
  BY <1>3, <1>4, <1>5 DEF Counted, Charged, FallsShort
<1>7. Due = 0
  BY <1>4, DueWas
<1>8. Told.tokens = Seen.tokens
  <2>1. file \in Seq(RecordOf(Item)) /\ Len(file) \in Nat /\ Records = file
    <3>1. file \in Seq(RecordOf(Item)) /\ trailing = <<>>
      BY <1>1, <1>2 DEF StoreType, Settled
    <3> QED BY <1>1, <3>1, LenProperties, WholeType
  <2>2. Upto(EmptyRows, file, Len(file)) = Told
    BY <2>1, EmptyRowsType, ProjectUpto DEF Told
  <2>3. CASE ~Projecting
    BY <1>2, <2>2, <2>3 DEF Seen, Settled
  <2>4. CASE Projecting
    <3>1. commit # Idle /\ projected + 1 = Len(file) /\ file[Len(file)] = commit.record
      BY <1>1, <2>4 DEF StoreIsInOrder, Projecting, Idle
    <3>2. PICK r \in RecordOf(Item) : r = commit.record
      BY <3>1, RecordOfTheLoop
    <3>3. Len(file) \in 1..Len(file) /\ Len(file) - 1 = projected
      <4>1. projected \in Nat
        BY <1>1 DEF StoreType
      <4> QED BY <2>1, <3>1, <4>1
    <3>4. Told = Project(Seen, r)
      <4>1. Upto(EmptyRows, file, Len(file)) = Project(Upto(EmptyRows, file, Len(file) - 1), file[Len(file)])
        BY <2>1, <3>3, ProjectUptoNext
      <4> QED BY <2>2, <3>1, <3>2, <3>3, <4>1 DEF Seen
    <3>5. PICK db \in RowsType : db = Seen
      BY <1>1, <1>2, SeenType
    <3>6. Project(db, r).tokens = db.tokens
      BY <1>5, <3>1, <3>2, UsedAfter
    <3> QED BY <3>4, <3>5, <3>6
  <2> QED BY <2>3, <2>4
<1> QED BY <1>1, <1>2, <1>6, <1>7, <1>8, AccountTypes DEF Lost, Aside

(* A Session is never charged more than its providers, whatever crashes,   *)
(* fails or is cancelled; and it is charged all of it when every Turn      *)
(* completed without a crash or a failed write (apply_rollout_record_tx).  *)
THEOREM TurnCountsTokens == Spec => []TokensAreCounted
<1>1. Counted => TokensAreCounted
  <2> SUFFICES ASSUME Counted PROVE TokensAreCounted
    OBVIOUS
  <2>1. rows.tokens <= spent
    BY DEF Counted, Charged
  <2>2. mishaps.crash + mishaps.fault = 0 => Undisturbed
    <3>1. mishaps.crash \in Nat /\ mishaps.fault \in Nat
      BY DEF Counted, Sound, Ordered, TypeOK, StoreType
    <3> QED BY <3>1 DEF Undisturbed
  <2> QED BY <2>1, <2>2, NothingIsDue DEF TokensAreCounted
<1> QED BY <1>1, TurnCounted, PTL

-----------------------------------------------------------------------------
(* Which Turn made a call: a record that replaces the context makes none.  *)
Made(r) == IF r.kind = "checkpoint" /\ ~r.replace THEN Range(r.items) ELSE {}
CallsOf(r) == {c \in Calls : Call(c) \in Made(r)}
By == [t \in Turns |-> RecordedBy(t)]
ByAfter(by, r) == [t \in Turns |-> by[t] \cup IF r.turn = t THEN CallsOf(r) ELSE {}]

RecordedIs ==
  \A t \in Turns : \A c :
    c \in RecordedBy(t) <=>
      c \in Calls /\ \E n \in DOMAIN Records : Records[n].turn = t /\ Call(c) \in Made(Records[n])

LEMMA RecordedByIs == RecordedIs
BY DEF RecordedIs, RecordedBy, Made, Range

LEMMA RecordedByIsNext == RecordedIs'
BY RecordedByIs, PTL

LEMMA ByType ==
  /\ By \in [Turns -> SUBSET Calls]
  /\ \A t \in Turns : By[t] = RecordedBy(t)
BY DEF By, RecordedBy

LEMMA ByIsSaved ==
  \A t \in Turns : \A c \in By[t] : c \in Calls /\ Call(c) \in AllSaved
<1> SUFFICES ASSUME NEW t \in Turns, NEW c \in By[t]
             PROVE  c \in Calls /\ Call(c) \in AllSaved
  OBVIOUS
<1>1. PICK r \in Range(Records) : /\ r.kind = "checkpoint" /\ r.turn = t
                                  /\ c \in Calls /\ Call(c) \in Range(r.items)
  BY ByType DEF RecordedBy
<1> QED BY <1>1 DEF Saved, AllSaved

LEMMA ByJoined ==
  ASSUME NEW s, NEW r, NEW z, Follows(z, s, r, RecordOf(Item)), NEW t, NEW x
  PROVE  (\E n \in DOMAIN z : z[n].turn = t /\ x \in Made(z[n]))
           <=> (\E n \in DOMAIN s : s[n].turn = t /\ x \in Made(s[n]))
                 \/ (r.turn = t /\ x \in Made(r))
<1>1. /\ s \in Seq(RecordOf(Item)) /\ r \in RecordOf(Item) /\ z = Append(s, r)
  BY DEF Follows
<1>2. Len(s) \in Nat /\ DOMAIN s = 1..Len(s)
  BY <1>1, LenProperties
<1>3. /\ z \in Seq(RecordOf(Item)) /\ Len(z) = Len(s) + 1
      /\ \A i \in 1..Len(s) : z[i] = s[i]
      /\ z[Len(s) + 1] = r
  BY <1>1, AppendProperties
<1>4. DOMAIN z = 1..(Len(s) + 1)
  BY <1>3, LenProperties
<1>5. \A n : n \in DOMAIN z <=> n \in DOMAIN s \/ n = Len(s) + 1
  BY <1>2, <1>4, SMT
<1> QED BY <1>2, <1>3, <1>5

(* A record brings its calls to its Turn.                                  *)
LEMMA ByStep ==
  ASSUME Traced, [Next]_vars
  PROVE  \/ Unmoved /\ AllSaved' = AllSaved /\ By' = By
         \/ /\ Joined /\ ~Committing' /\ AllSaved' = AllSaved \cup Brought(commit.record)
            /\ By' = ByAfter(By, commit.record)
<1>1. StoreType(Item) /\ StoreType(Item)' /\ StoreIsInOrder /\ StoreAction(Item)
  BY StoreActs, StoreTypeStep DEF Traced, Sound, Ordered, TypeOK
<1>2. \/ Unmoved /\ AllSaved' = AllSaved
      \/ Joined /\ ~Committing' /\ AllSaved' = AllSaved \cup Brought(commit.record)
  BY SavedCallsStep
<1>3. By' = [t \in Turns |-> RecordedBy(t)'] /\ By = [t \in Turns |-> RecordedBy(t)]
  BY DEF By
<1>5. CASE Unmoved /\ AllSaved' = AllSaved
  <2>1. \A t \in Turns : RecordedBy(t)' = RecordedBy(t)
    BY <1>5 DEF Unmoved, RecordedBy, Call
  <2> QED BY <1>3, <1>5, <2>1
<1>6. CASE Joined /\ ~Committing' /\ AllSaved' = AllSaved \cup Brought(commit.record)
  <2>1. PICK r \in RecordOf(Item) : r = commit.record
    BY <1>1, <1>6, CommitTypes DEF Joined, Adding, Committing, Idle
  <2>2. PICK s, z : s = Records /\ z = Records'
    OBVIOUS
  <2>3. Follows(z, s, r, RecordOf(Item))
    BY <1>1, <1>6, <2>1, <2>2, WholeType DEF Follows, Joined
  <2>4. ASSUME NEW t \in Turns
        PROVE  RecordedBy(t)' = RecordedBy(t) \cup IF r.turn = t THEN CallsOf(r) ELSE {}
    <3>1. \A c : c \in RecordedBy(t)' <=>
            c \in Calls /\ \E n \in DOMAIN z : z[n].turn = t /\ Call(c) \in Made(z[n])
      BY <2>2, <2>4, RecordedByIsNext DEF RecordedIs, Call, Made
    <3>2. \A c : c \in RecordedBy(t) <=>
            c \in Calls /\ \E n \in DOMAIN s : s[n].turn = t /\ Call(c) \in Made(s[n])
      BY <2>2, <2>4, RecordedByIs DEF RecordedIs
    <3>3. \A c : (\E n \in DOMAIN z : z[n].turn = t /\ Call(c) \in Made(z[n]))
            <=> (\E n \in DOMAIN s : s[n].turn = t /\ Call(c) \in Made(s[n]))
                  \/ (r.turn = t /\ Call(c) \in Made(r))
      BY <2>3, <2>4, ByJoined
    <3>4. \A c : c \in RecordedBy(t)' <=>
                   c \in RecordedBy(t) \/ (r.turn = t /\ c \in Calls /\ Call(c) \in Made(r))
      BY <3>1, <3>2, <3>3
    <3> QED BY <3>4 DEF CallsOf
  <2>5. By' = ByAfter(By, r)
    BY <1>3, <2>4 DEF ByAfter
  <2> QED BY <1>6, <2>1, <2>5
<1> QED BY <1>2, <1>5, <1>6
-----------------------------------------------------------------------------
(* Steps and what the records, the file and the Turns' rows say            *)
MirrorsIn(saved, st, t, c) ==
  \/ st[t][c] = "completed" /\ Out(c) \in saved
  \/ st[t][c] = "aborted" /\ Aborted(c) \in saved

StepsFit(saved, by, st) ==
  \A t \in Turns, c \in Calls :
    /\ st[t][c] \in {"none", "running", "completed", "aborted"}
    /\ st[t][c] # "none" => Call(c) \in saved
    /\ c \in by[t] /\ st[t][c] = "completed" => Out(c) \in saved
    /\ c \in by[t] /\ st[t][c] = "aborted" => Out(c) \notin saved

OneOfEach(saved, by) ==
  /\ \A c \in Calls : ~(Out(c) \in saved /\ Aborted(c) \in saved)
  /\ \A c \in Calls, t, u \in Turns : c \in by[t] /\ c \in by[u] => t = u

AnswersSaved(saved, items) == \A n \in DOMAIN items : IsAnswer(items[n]) => items[n] \in saved

TurnsMirror(saved, by, status, st) ==
  \A t \in Turns :
    /\ status[t] = "none" => by[t] = {}
    /\ status[t] = "Completed" => \A c \in by[t] : MirrorsIn(saved, st, t, c)

(* Of the Turn the file is at: a call that compaction took from the context*)
(* is settled.                                                             *)
OpenMirrors(saved, by, S, st) ==
  S.turn # 0 =>
    /\ Unanswered(S.context) \subseteq by[S.turn]
    /\ \A c \in by[S.turn] : c \in CallsIn(S.context) \/ MirrorsIn(saved, st, S.turn, c)
    /\ ~S.begun => by[S.turn] = {}

FilesMirror(saved, by, S, status, st) ==
  /\ StepsFit(saved, by, st)
  /\ OneOfEach(saved, by)
  /\ AnswersSaved(saved, S.context) /\ AnswersSaved(saved, S.committed)
  /\ TurnsMirror(saved, by, status, st)
  /\ OpenMirrors(saved, by, S, st)

RecordMirrors(saved, by, S, r, st) ==
  /\ r.kind = "checkpoint" =>
       /\ \A c \in Calls : Out(c) \in Made(r) => st[S.turn][c] = "running"
       /\ r.replace => \A c \in by[S.turn] : MirrorsIn(saved, st, S.turn, c)
  /\ r.kind = "updated" /\ r.status = "Completed" =>
       \A c \in by[r.turn] : MirrorsIn(saved, st, r.turn, c)

(* A record of a Turn's beginning or end                                   *)
LEMMA EdgeRecordMirrors ==
  ASSUME NEW S \in StateOf(Item), NEW r \in RecordOf(Item), r.kind # "checkpoint",
         NEW saved, NEW by \in [Turns -> SUBSET Calls], NEW db \in RowsType, NEW st,
         StateIsSound(S), FilesMirror(saved, by, S, db.status, st),
         RecordMirrors(saved, by, S, r, st),
         r.kind = "created" => db.status[r.turn] = "none"
  PROVE  FilesMirror(saved, by, Read(S, r), Project(db, r).status, st)
<1>1. /\ r.turn \in Turns /\ r.kind \in {"created", "checkpoint", "updated"}
      /\ r.kind = "updated" => r.status \in {"Running"} \cup TerminalTurn
  BY KindsAre
<1>2. db.status \in [Turns -> {"none"} \cup OpenTurn \cup TerminalTurn]
  BY RowsAreARecord
<1>2a. /\ r.kind = "created" => Project(db, r).status = [db.status EXCEPT ![r.turn] = "Queued"]
       /\ r.kind = "checkpoint" => Project(db, r).status = db.status
       /\ r.kind = "updated" => Project(db, r).status = [db.status EXCEPT ![r.turn] = r.status]
  BY StatusAfter
<1>3. /\ StepsFit(saved, by, st) /\ OneOfEach(saved, by)
      /\ AnswersSaved(saved, S.context) /\ AnswersSaved(saved, S.committed)
      /\ TurnsMirror(saved, by, db.status, st) /\ OpenMirrors(saved, by, S, st)
  BY DEF FilesMirror
<1>4. AnswersSaved(saved, <<>>)
  BY DEF AnswersSaved
<1>5. CASE r.kind = "created"
  <2>1. PICK T : /\ T = Read(S, r) /\ T.committed = S.committed /\ T.turn = r.turn
                 /\ T.context = S.committed
    BY <1>5, ReadCreated
  <2>2. PICK status : status = Project(db, r).status /\ status = [db.status EXCEPT ![r.turn] = "Queued"]
    <3>1. Project(db, r).status = [db.status EXCEPT ![r.turn] = "Queued"]
      BY <1>2a, <1>5
    <3> QED BY <3>1
  <2>3. by[r.turn] = {}
    BY <1>1, <1>3, <1>5 DEF TurnsMirror
  <2>4. Unanswered(T.context) = {}
    BY <2>1 DEF StateIsSound, Clean
  <2>5. OpenMirrors(saved, by, T, st)
    BY <2>1, <2>3, <2>4 DEF OpenMirrors
  <2>6. TurnsMirror(saved, by, status, st)
    BY <1>1, <1>2, <1>3, <2>2, <2>3 DEF TurnsMirror
  <2>7. AnswersSaved(saved, T.context) /\ AnswersSaved(saved, T.committed)
    BY <1>3, <2>1
  <2> QED BY <1>3, <2>1, <2>2, <2>5, <2>6, <2>7 DEF FilesMirror
<1>6. CASE r.kind = "updated"
  <2>1. PICK status : status = Project(db, r).status /\ status = [db.status EXCEPT ![r.turn] = r.status]
    <3>1. Project(db, r).status = [db.status EXCEPT ![r.turn] = r.status]
      BY <1>2a, <1>6
    <3> QED BY <3>1
  <2>2. r.status # "none"
    BY <1>1, <1>6 DEF TerminalTurn
  <2>3. TurnsMirror(saved, by, status, st)
    BY <1>1, <1>2, <1>3, <1>6, <2>1, <2>2 DEF TurnsMirror, RecordMirrors
  <2>4. PICK T : /\ T = Read(S, r)
                 /\ \/ T = NoTurn(S.context) \/ T = NoTurn(S.committed) \/ T = S
    BY <1>1, <1>6, ReadUpdated DEF TerminalTurn
  <2>5. \A s : NoTurn(s).turn = 0 /\ NoTurn(s).context = <<>> /\ NoTurn(s).committed = s
    BY DEF NoTurn
  <2>6. AnswersSaved(saved, T.context) /\ AnswersSaved(saved, T.committed)
    BY <1>3, <1>4, <2>4, <2>5
  <2>7. OpenMirrors(saved, by, T, st)
    BY <1>3, <2>4, <2>5 DEF OpenMirrors
  <2> QED BY <1>3, <2>1, <2>3, <2>4, <2>6, <2>7 DEF FilesMirror
<1> QED BY <1>1, <1>5, <1>6

(* A checkpoint, of the Turn the file is at                                *)
LEMMA CallsOfIs ==
  ASSUME NEW r, r.kind = "checkpoint", NEW items, items = r.items
  PROVE  /\ Brought(r) = Range(items)
         /\ r.replace => Made(r) = {} /\ CallsOf(r) = {}
         /\ ~r.replace => Made(r) = Range(items)
                          /\ CallsOf(r) = {c \in Calls : Call(c) \in Range(items)}
BY DEF Brought, Made, CallsOf

LEMMA AnswersAdded ==
  ASSUME NEW u, NEW a, NEW b, Joins(u, a, b, Item), NEW saved, AnswersSaved(saved, a)
  PROVE  AnswersSaved(saved \cup Range(b), u)
<1> SUFFICES ASSUME NEW k \in DOMAIN u, IsAnswer(u[k])
             PROVE  u[k] \in saved \cup Range(b)
  BY DEF AnswersSaved
<1>1. CASE k \in DOMAIN a
  BY <1>1, JoinedItems DEF AnswersSaved
<1>2. ASSUME NEW n \in DOMAIN b, k = Len(a) + n
      PROVE  u[k] \in Range(b)
  BY <1>2, JoinedItems DEF Range
<1> QED BY <1>1, <1>2, JoinedItems

LEMMA FreshIs ==
  ASSUME NEW items \in Seq(Item), NEW saved, NEW open \in SUBSET Calls, NEW made,
         Fresh(items, saved, open, made)
  PROVE  \A c \in Calls :
           /\ Call(c) \in Range(items) => Call(c) \notin saved
           /\ Out(c) \in Range(items) => c \in open /\ Aborted(c) \notin Range(items)
           /\ Aborted(c) \in Range(items) => c \in open
<1>1. CASE Plain(items)
  BY <1>1, PlainBringsNone
<1>2. ASSUME NEW S \in SUBSET Calls, Brings("call", S, items), \A c \in S : Call(c) \notin saved
      PROVE  \A c \in Calls : /\ Call(c) \in Range(items) => Call(c) \notin saved
                              /\ Out(c) \notin Range(items) /\ Aborted(c) \notin Range(items)
  BY <1>2, BringsIs
<1>3. ASSUME NEW S \in SUBSET open, Brings("aborted", S, items)
      PROVE  \A c \in Calls : /\ Call(c) \notin Range(items) /\ Out(c) \notin Range(items)
                              /\ Aborted(c) \in Range(items) => c \in open
  <2>1. S \in SUBSET Calls
    OBVIOUS
  <2> QED BY <1>3, <2>1, BringsIs
<1>4. ASSUME NEW c \in open, Brings("out", {c}, items)
      PROVE  \A d \in Calls : /\ Call(d) \notin Range(items) /\ Aborted(d) \notin Range(items)
                              /\ Out(d) \in Range(items) => d \in open
  <2>1. {c} \in SUBSET Calls
    OBVIOUS
  <2> QED BY <1>4, <2>1, BringsIs
<1> QED BY <1>1, <1>2, <1>3, <1>4 DEF Fresh

LEMMA NewContextIs ==
  ASSUME NEW S \in StateOf(Item), NEW r, NEW items \in Seq(Item), items = r.items,
         r.replace => Clean(items), NEW saved, AnswersSaved(saved, S.context),
         NEW context, context = NewContext(S, r)
  PROVE  /\ r.replace => Unanswered(context) = {}
         /\ ~r.replace =>
              /\ CallsIn(S.context) \subseteq CallsIn(context)
              /\ \A c \in Calls : Call(c) \in Range(items) => c \in CallsIn(context)
              /\ Unanswered(context) \subseteq
                   Unanswered(S.context) \cup {c \in Calls : Call(c) \in Range(items)}
         /\ AnswersSaved(saved \cup Range(items), context)
<1>1. S.context \in Seq(Item)
  BY DEF StateOf
<1>2. CallsIn(items) = {c \in Calls : Call(c) \in Range(items)}
  BY DEF CallsIn, Of, Call, Range
<1>3. CASE r.replace
  <2>1. context = items /\ Clean(items)
    BY <1>3 DEF NewContext
  <2>2. AnswersSaved(saved \cup Range(items), context)
    BY <2>1 DEF AnswersSaved, Range
  <2> QED BY <1>3, <2>1, <2>2 DEF Clean
<1>4. CASE ~r.replace
  <2>1. PICK a : a = S.context
    OBVIOUS
  <2>2. context = a \o items
    BY <1>4, <2>1 DEF NewContext
  <2>3. Joins(context, a, items, Item)
    BY <1>1, <2>1, <2>2 DEF Joins
  <2>4. CallsIn(context) = CallsIn(a) \cup CallsIn(items) /\ Answered(context) = Answered(a) \cup Answered(items)
    BY <2>3, JoinedSets
  <2>5. AnswersSaved(saved \cup Range(items), context)
    BY <2>1, <2>3, AnswersAdded
  <2>6. Unanswered(context) \subseteq Unanswered(a) \cup CallsIn(items)
    BY <2>4 DEF Unanswered
  <2> QED BY <1>2, <1>4, <2>1, <2>4, <2>5, <2>6
<1> QED BY <1>3, <1>4

LEMMA CheckpointMirrors ==
  ASSUME NEW S \in StateOf(Item), NEW r \in RecordOf(Item), r.kind = "checkpoint",
         r.turn = S.turn, NEW saved, NEW made, NEW by \in [Turns -> SUBSET Calls], NEW status, NEW st,
         status[S.turn] \in OpenTurn, CallsAreSaved(saved, S),
         \A t \in Turns : \A c \in by[t] : Call(c) \in saved,
         FilesMirror(saved, by, S, status, st), RecordMirrors(saved, by, S, r, st),
         Tells(r, saved, Unanswered(S.context), made)
  PROVE  FilesMirror(saved \cup Brought(r), ByAfter(by, r), Read(S, r), status, st)
<1>1. PICK items \in Seq(Item) : items = r.items
  <2>1. r \in CheckpointRecord(Item)
    BY KindsAre
  <2>2. r.items \in Seq(Item)
    BY <2>1 DEF CheckpointRecord
  <2> QED BY <2>2
<1>2. PICK new : new = IF r.replace THEN {} ELSE {c \in Calls : Call(c) \in Range(items)}
  OBVIOUS
<1>3. PICK next : next = saved \cup Brought(r) /\ next = saved \cup Range(items)
  BY <1>1, CallsOfIs
<1>4. PICK u : u = S.turn /\ u \in Turns /\ u # 0
  BY KindsAre
<1>5. PICK nby : /\ nby = ByAfter(by, r)
                 /\ \A t \in Turns : nby[t] = by[t] \cup IF t = u THEN new ELSE {}
  <2>1. CallsOf(r) = new
    BY <1>1, <1>2, CallsOfIs
  <2>2. r.turn = u
    BY <1>4
  <2>3. \A t \in Turns : ByAfter(by, r)[t] = by[t] \cup IF t = u THEN new ELSE {}
    BY <2>1, <2>2 DEF ByAfter
  <2> QED BY <2>3
<1>6. PICK T : /\ T = Read(S, r) /\ T.committed = S.committed /\ T.turn = u
               /\ T.context = NewContext(S, r) /\ T.begun = TRUE
  BY <1>4, ReadCheckpoint
<1>7. /\ StepsFit(saved, by, st) /\ OneOfEach(saved, by)
      /\ AnswersSaved(saved, S.context) /\ AnswersSaved(saved, S.committed)
      /\ TurnsMirror(saved, by, status, st) /\ OpenMirrors(saved, by, S, st)
  BY DEF FilesMirror
<1>8. PICK open \in SUBSET Calls : open = Unanswered(S.context)
  <2>1. Unanswered(S.context) \in SUBSET Calls
    BY DEF Unanswered, CallsIn, Of
  <2> QED BY <2>1
<1>9. ~r.replace => \A c \in Calls :
        /\ Call(c) \in Range(items) => Call(c) \notin saved
        /\ Out(c) \in Range(items) => c \in open /\ Aborted(c) \notin Range(items)
        /\ Aborted(c) \in Range(items) => c \in open
  <2>1. ~r.replace => Fresh(items, saved, open, made)
    BY <1>1, <1>8 DEF Tells
  <2> QED BY <2>1, FreshIs
<1>9a. r.replace => \A c \in Calls :
         /\ Out(c) \in next <=> Out(c) \in saved
         /\ Aborted(c) \in next <=> Aborted(c) \in saved
  <2>1. r.replace => Repeats(items, saved)
    BY <1>1 DEF Tells
  <2> QED BY <1>3, <2>1, RepeatsIs
<1>10. \A c \in open : /\ c \in by[u] /\ Out(c) \notin saved /\ Aborted(c) \notin saved
  BY <1>4, <1>7, <1>8 DEF OpenMirrors, CallsAreSaved
<1>11. ~r.replace => \A c \in Calls : Out(c) \in Range(items) => st[u][c] = "running"
  BY <1>1, <1>4, CallsOfIs DEF RecordMirrors
<1>12. \A c \in new : \A t \in Turns : Call(c) \notin saved /\ c \notin by[t] /\ st[t][c] = "none"
  BY <1>2, <1>7, <1>9 DEF StepsFit
<1>13. /\ \A c \in new : c \in CallsIn(T.context)
       /\ Unanswered(T.context) \subseteq open \cup new
       /\ ~r.replace => CallsIn(S.context) \subseteq CallsIn(T.context)
       /\ AnswersSaved(next, T.context)
  <2>1. r.replace => Clean(items)
    BY <1>1 DEF Tells
  <2>2. PICK context : context = NewContext(S, r) /\ T.context = context
    BY <1>6
  <2>3. /\ r.replace => Unanswered(context) = {}
        /\ ~r.replace =>
              /\ CallsIn(S.context) \subseteq CallsIn(context)
              /\ \A c \in Calls : Call(c) \in Range(items) => c \in CallsIn(context)
              /\ Unanswered(context) \subseteq
                   Unanswered(S.context) \cup {c \in Calls : Call(c) \in Range(items)}
        /\ AnswersSaved(saved \cup Range(items), context)
    BY <1>1, <1>7, <2>1, <2>2, NewContextIs
  <2> QED BY <1>2, <1>3, <1>8, <2>2, <2>3
<1>14. StepsFit(next, nby, st)
  <2> SUFFICES ASSUME NEW t \in Turns, NEW c \in Calls
               PROVE  /\ st[t][c] \in {"none", "running", "completed", "aborted"}
                      /\ st[t][c] # "none" => Call(c) \in next
                      /\ c \in nby[t] /\ st[t][c] = "completed" => Out(c) \in next
                      /\ c \in nby[t] /\ st[t][c] = "aborted" => Out(c) \notin next
    BY DEF StepsFit
  <2>1. /\ st[t][c] \in {"none", "running", "completed", "aborted"}
        /\ st[t][c] # "none" => Call(c) \in saved
        /\ c \in by[t] /\ st[t][c] = "completed" => Out(c) \in saved
        /\ c \in by[t] /\ st[t][c] = "aborted" => Out(c) \notin saved
    BY <1>7 DEF StepsFit
  <2>2. c \in nby[t] /\ st[t][c] # "none" => c \in by[t]
    BY <1>5, <1>12
  <2>3. ASSUME c \in by[t], st[t][c] = "aborted", Out(c) \in Range(items), ~r.replace
        PROVE  FALSE
    <3>1. c \in by[u] /\ st[u][c] = "running"
      BY <1>9, <1>10, <1>11, <2>3
    <3>2. t = u
      BY <1>4, <1>7, <2>3, <3>1 DEF OneOfEach
    <3> QED BY <2>3, <3>1, <3>2
  <2> QED BY <1>3, <1>9a, <2>1, <2>2, <2>3
<1>15. OneOfEach(next, nby)
  <2>1. \A c \in Calls : ~(Out(c) \in next /\ Aborted(c) \in next)
    BY <1>3, <1>7, <1>9, <1>9a, <1>10 DEF OneOfEach
  <2>2. \A c \in Calls, t, v \in Turns : c \in nby[t] /\ c \in nby[v] => t = v
    BY <1>5, <1>7, <1>12 DEF OneOfEach
  <2> QED BY <2>1, <2>2 DEF OneOfEach
<1>16. AnswersSaved(next, T.committed)
  BY <1>3, <1>6, <1>7 DEF AnswersSaved
<1>17. \A t \in Turns, c \in Calls : MirrorsIn(saved, st, t, c) => MirrorsIn(next, st, t, c)
  BY <1>3 DEF MirrorsIn
<1>18. TurnsMirror(next, nby, status, st)
  <2> SUFFICES ASSUME NEW t \in Turns
               PROVE  /\ status[t] = "none" => nby[t] = {}
                      /\ status[t] = "Completed" => \A c \in nby[t] : MirrorsIn(next, st, t, c)
    BY DEF TurnsMirror
  <2>1. status[u] # "none" /\ status[u] # "Completed"
    BY <1>4 DEF OpenTurn
  <2>2. t # u => nby[t] = by[t]
    BY <1>5
  <2> QED BY <1>7, <1>17, <2>1, <2>2 DEF TurnsMirror
<1>19. OpenMirrors(next, nby, T, st)
  <2>1. Unanswered(T.context) \subseteq nby[u]
    BY <1>4, <1>5, <1>10, <1>13
  <2>2. ASSUME NEW c \in nby[u]
        PROVE  c \in CallsIn(T.context) \/ MirrorsIn(next, st, u, c)
    <3>1. CASE c \in new
      BY <1>13, <3>1
    <3>2. CASE c \in by[u] /\ r.replace
      <4>1. MirrorsIn(saved, st, u, c)
        BY <1>4, <3>2 DEF RecordMirrors
      <4> QED BY <1>4, <1>17, <3>2, <4>1
    <3>3. CASE c \in by[u] /\ ~r.replace
      <4>1. c \in CallsIn(S.context) \/ MirrorsIn(saved, st, u, c)
        BY <1>4, <1>7, <3>3 DEF OpenMirrors
      <4> QED BY <1>4, <1>13, <1>17, <3>3, <4>1
    <3> QED BY <1>4, <1>5, <3>1, <3>2, <3>3
  <2> QED BY <1>6, <2>1, <2>2 DEF OpenMirrors
<1> QED BY <1>3, <1>5, <1>6, <1>13, <1>14, <1>15, <1>16, <1>18, <1>19 DEF FilesMirror

(* A Step changes of a call of the context, or of another Turn's.          *)
LEMMA StepChanges ==
  ASSUME NEW saved, NEW by \in [Turns -> SUBSET Calls], NEW S \in StateOf(Item), NEW status,
         NEW V, NEW st \in [Turns -> [Calls -> V]], FilesMirror(saved, by, S, status, st),
         NEW u \in Turns, S.turn = u, status[u] \in OpenTurn, NEW c \in Calls, Call(c) \in saved,
         NEW s \in {"running", "completed", "aborted"},
         c \in by[u] => /\ c \in CallsIn(S.context)
                        /\ s = "completed" => Out(c) \in saved
                        /\ s = "aborted" => Out(c) \notin saved,
         NEW nst, nst = [st EXCEPT ![u][c] = s]
  PROVE  FilesMirror(saved, by, S, status, nst)
<1>1. /\ StepsFit(saved, by, st) /\ OneOfEach(saved, by)
      /\ AnswersSaved(saved, S.context) /\ AnswersSaved(saved, S.committed)
      /\ TurnsMirror(saved, by, status, st) /\ OpenMirrors(saved, by, S, st)
  BY DEF FilesMirror
<1>2. \A t \in Turns, d \in Calls : nst[t][d] = IF t = u /\ d = c THEN s ELSE st[t][d]
  OBVIOUS
<1>3. StepsFit(saved, by, nst)
  BY <1>1, <1>2 DEF StepsFit
<1>4. \A t \in Turns, d \in Calls :
        t # u \/ d # c => (MirrorsIn(saved, st, t, d) => MirrorsIn(saved, nst, t, d))
  BY <1>2 DEF MirrorsIn
<1>5. TurnsMirror(saved, by, status, nst)
  <2>1. status[u] # "none" /\ status[u] # "Completed"
    BY DEF OpenTurn
  <2>2. ASSUME NEW t \in Turns, status[t] = "Completed", NEW d \in by[t]
        PROVE  MirrorsIn(saved, nst, t, d)
    <3>1. t # u /\ d \in Calls
      BY <2>1, <2>2
    <3> QED BY <1>1, <1>4, <2>2, <3>1 DEF TurnsMirror
  <2> QED BY <1>1, <2>2 DEF TurnsMirror
<1>6. OpenMirrors(saved, by, S, nst)
  <2>1. ASSUME NEW d \in by[u], S.turn # 0
        PROVE  d \in CallsIn(S.context) \/ MirrorsIn(saved, nst, u, d)
    <3>1. d \in CallsIn(S.context) \/ MirrorsIn(saved, st, u, d)
      BY <1>1, <2>1 DEF OpenMirrors
    <3> QED BY <1>4, <2>1, <3>1
  <2> QED BY <1>1, <2>1 DEF OpenMirrors
<1> QED BY <1>1, <1>3, <1>5, <1>6 DEF FilesMirror
-----------------------------------------------------------------------------
(* Files, the record on its way and the task                               *)
StepStatus == {"none", "running", "completed", "aborted", "failed", "cancelled"}
CallSteps == [t \in Turns |-> [c \in Calls |-> steps[t][c]]]
FilesInMirror == FilesMirror(AllSaved, By, Latest, Told.status, CallSteps)
CommitInMirror == Committing => RecordMirrors(AllSaved, By, Latest, commit.record, CallSteps)

Between == {"repair", "begin", "top", "window", "compacting", "prompt", "sample", "complete"}
Over(t, c) == CallSteps[t][c] \in {"completed", "aborted"}

TaskInMirror ==
  /\ pc \in Between =>
       /\ \A c \in By[Turn] : Over(Turn, c)
       /\ Committing => CallsOf(commit.record) = {}
  /\ pc \in {"announce", "tools"} =>
       /\ \A c \in Calls : tool[c] # "none" => CallSteps[Turn][c] = "running"
       /\ \A c \in By[Turn] : tool[c] = "none" => Over(Turn, c) \/ c \in Unanswered(history)
       /\ Committing => CallsOf(commit.record) \subseteq Unanswered(history)
  /\ pc = "tools" =>
       \A c \in Calls : tool[c] = "saved" => \E n \in DOMAIN history : history[n] = Out(c)
  /\ pc = "ending" => tool = NoTools

InMirror == FilesInMirror /\ CommitInMirror /\ TaskInMirror
Faultless == mishaps.fault = 0
Mirrored == Traced /\ Counted /\ (Faultless => InMirror)

LEMMA CallStepsAre ==
  ASSUME Ordered
  PROVE  /\ CallSteps \in [Turns -> [Calls -> StepStatus]]
         /\ \A t \in Turns, c \in Calls : CallSteps[t][c] = steps[t][c]
         /\ \A t \in Turns : t # 0 /\ t \in Nat
<1>1. steps \in [Turns -> [StepNames ->
         {"none", "running", "completed", "aborted", "failed", "cancelled"}]]
  BY DEF Ordered, TypeOK, LoopType
<1>2. \A t \in Turns, c \in Calls : steps[t][c] \in StepStatus
  BY <1>1 DEF StepNames, StepStatus
<1>3. CallSteps \in [Turns -> [Calls -> StepStatus]]
  BY <1>2 DEF CallSteps
<1>4. \A t \in Turns, c \in Calls : CallSteps[t][c] = steps[t][c]
  BY DEF CallSteps
<1> QED BY <1>3, <1>4, RolloutAssumption

LEMMA FaultsStay ==
  ASSUME Ordered, [Next]_vars, Faultless'
  PROVE  Faultless /\ Settled /\ Settled' /\ ~damaged /\ ~damaged'
<1>1. /\ mishaps \in [crash : Nat, fault : Nat, retry : Nat] /\ damaged \in BOOLEAN
      /\ StoreAction(Item) /\ StoreIsInOrder
  BY StoreActs DEF Ordered, TypeOK, StoreType
<1>2. \/ UNCHANGED mishaps
      \/ mishaps' = [mishaps EXCEPT !.crash = @ + 1]
      \/ mishaps' = [mishaps EXCEPT !.fault = @ + 1]
      \/ mishaps' = [mishaps EXCEPT !.retry = @ + 1]
  BY <1>1 DEF StoreAction, Commit, AppendRecord, ProjectRecord, AppendFails, Scan, Reopen,
       SendInput, ClaimInputs, EndAction, ChargeTokens, Retry, rolloutVars
<1>3. Faultless
  BY <1>1, <1>2 DEF Faultless
<1>4. StoreIsInOrder'
  BY OrderedStep DEF Ordered
<1> QED BY <1>1, <1>3, <1>4 DEF Faultless, StoreIsInOrder, Settled

LEMMA FilesInMirrorStep ==
  ASSUME Mirrored, [Next]_vars, Faultless', CallSteps' = CallSteps
  PROVE  FilesInMirror'
<1>1. /\ Ordered /\ StoreType(Item) /\ StoreIsInOrder /\ Faultless /\ Settled /\ ~damaged
      /\ FilesInMirror /\ CommitInMirror
  BY FaultsStay DEF Mirrored, Traced, Sound, Ordered, TypeOK, InMirror
<1>2. CASE Unmoved /\ AllSaved' = AllSaved /\ By' = By
  <2>1. Latest' = Latest /\ Told' = Told
    BY <1>2 DEF Unmoved
  <2> QED BY <1>1, <1>2, <2>1 DEF FilesInMirror
<1>3. CASE /\ Joined /\ ~Committing' /\ AllSaved' = AllSaved \cup Brought(commit.record)
           /\ By' = ByAfter(By, commit.record)
  <2>1. Committing /\ Adding /\ commit # Idle
    BY <1>3 DEF Joined, Adding, Committing, Idle
  <2>2. PICK r \in RecordOf(Item) : r = commit.record
    BY <1>1, <2>1, CommitTypes
  <2>3. Latest' = Read(Latest, r) /\ Told' = Project(Told, r)
    BY <1>3, <2>2 DEF Joined
  <2>4. /\ Latest \in StateOf(Item) /\ Told \in RowsType /\ By \in [Turns -> SUBSET Calls]
        /\ StateIsSound(Latest)
    BY <1>1, LatestType, ToldType, ByType DEF Mirrored, Traced, Sound, FilesAreSound
  <2>5. /\ FilesMirror(AllSaved, By, Latest, Told.status, CallSteps)
        /\ RecordMirrors(AllSaved, By, Latest, r, CallSteps)
    BY <1>1, <2>1, <2>2 DEF FilesInMirror, CommitInMirror
  <2>6. CASE r.kind # "checkpoint"
    <3>1. r.kind = "created" => Told.status[r.turn] = "none"
      BY <1>1, <2>1, <2>2, CreatesANewTurn DEF Mirrored
    <3>2. FilesMirror(AllSaved, By, Read(Latest, r), Project(Told, r).status, CallSteps)
      BY <2>4, <2>5, <2>6, <3>1, EdgeRecordMirrors
    <3>3. AllSaved' = AllSaved
      BY <1>3, <2>2, <2>6 DEF Brought
    <3>4. By' = By
      <4>1. CallsOf(r) = {}
        BY <2>6 DEF CallsOf, Made
      <4>2. ByAfter(By, r) = [t \in Turns |-> By[t]]
        BY <4>1 DEF ByAfter
      <4> QED BY <1>3, <2>2, <2>4, <4>2
    <3> QED BY <2>3, <3>2, <3>3, <3>4 DEF FilesInMirror
  <2>7. CASE r.kind = "checkpoint"
    <3>1. r.turn = Latest.turn /\ Latest.turn # 0
      BY <2>1, <2>2, <2>7, SavesItsTurn DEF Mirrored
    <3>2. Told.status[Latest.turn] \in OpenTurn
      BY <1>1, <3>1 DEF Ordered, Control, AtAnOpenTurn
    <3>3. CallsAreSaved(AllSaved, Latest)
      BY DEF Mirrored, Traced, SavedCalls
    <3>4. Tells(r, AllSaved, Unanswered(Latest.context), produced)
      BY <2>1, <2>2 DEF Mirrored, Traced, CommitIsFresh
    <3>5. \A t \in Turns : \A c \in By[t] : Call(c) \in AllSaved
      BY ByIsSaved
    <3>6. FilesMirror(AllSaved \cup Brought(r), ByAfter(By, r), Read(Latest, r), Told.status, CallSteps)
      BY <2>4, <2>5, <2>7, <3>1, <3>2, <3>3, <3>4, <3>5, CheckpointMirrors
    <3>7. Told'.status = Told.status
      BY <2>3, <2>4, <2>7, SavesTheStatus
    <3> QED BY <1>3, <2>2, <2>3, <3>6, <3>7 DEF FilesInMirror
  <2> QED BY <2>6, <2>7
<1> QED BY <1>2, <1>3, ByStep DEF Mirrored

LEMMA MirroredBy ==
  ASSUME Mirrored, [Next]_vars, Faultless' => InMirror'
  PROVE  Mirrored'
BY TracedStep, CountedStep DEF Mirrored

(* A step that hands no record to the Store, and one that does             *)
LEMMA QuietMirror ==
  ASSUME Mirrored, [Next]_vars, Faultless', CallSteps' = CallSteps,
         ~Committing' \/ commit' = commit
  PROVE  FilesInMirror' /\ CommitInMirror'
<1>1. FilesInMirror'
  BY FilesInMirrorStep
<1>2. CASE ~Committing'
  BY <1>1, <1>2 DEF CommitInMirror
<1>3. CASE Committing' /\ commit' = commit
  <2>1. Unmoved /\ AllSaved' = AllSaved /\ By' = By
    BY <1>3, ByStep DEF Mirrored
  <2>2. Latest' = Latest /\ Committing
    BY <1>3, <2>1 DEF Unmoved, Committing
  <2>3. CommitInMirror
    BY FaultsStay DEF Mirrored, Traced, Sound, InMirror
  <2>4. RecordMirrors(AllSaved, By, Latest, commit.record, CallSteps)
    BY <2>2, <2>3 DEF CommitInMirror
  <2>5. CommitInMirror'
    BY <1>3, <2>1, <2>2, <2>4 DEF CommitInMirror
  <2> QED BY <1>1, <2>5
<1> QED BY <1>2, <1>3

LEMMA HandsOver ==
  ASSUME Mirrored, [Next]_vars, NEW r, Commit(r)
  PROVE  /\ Committing' /\ commit = Idle /\ commit'.record = r /\ ~Committing
         /\ By' = By /\ AllSaved' = AllSaved /\ Latest' = Latest /\ Told' = Told
<1>1. /\ StandsStill /\ commit = Idle /\ commit' = [at |-> "append", record |-> r]
  BY CommitIs DEF Mirrored, Traced, Sound
<1>2. Committing' /\ commit'.record = r /\ ~Committing
  BY <1>1 DEF Committing, Idle
<1>3. Unmoved /\ AllSaved' = AllSaved /\ By' = By
  BY <1>2, ByStep DEF Mirrored
<1> QED BY <1>1, <1>2, <1>3 DEF Unmoved

LEMMA CommitMirror ==
  ASSUME Mirrored, [Next]_vars, Faultless', CallSteps' = CallSteps, NEW r, Commit(r),
         RecordMirrors(AllSaved, By, Latest, r, CallSteps)
  PROVE  FilesInMirror' /\ CommitInMirror'
<1>1. FilesInMirror'
  BY FilesInMirrorStep
<1>2. CommitInMirror'
  BY HandsOver DEF CommitInMirror
<1> QED BY <1>1, <1>2

(* The task: where no Step is its concern, where it stays, and between     *)
(* responses                                                               *)
LEMMA NoTaskMirror ==
  ASSUME pc' \notin Between, pc' \notin {"announce", "tools", "ending"}
  PROVE  TaskInMirror'
BY DEF TaskInMirror

LEMMA TaskStays ==
  ASSUME Mirrored, [Next]_vars, Faultless', CallSteps' = CallSteps,
         ~Committing' \/ commit' = commit,
         pc' = pc, task'.turn = task.turn, task'.history = task.history,
         \A c \in Calls : /\ tool'[c] = "none" <=> tool[c] = "none"
                          /\ tool'[c] = "saved" => tool[c] = "saved",
         pc = "ending" => tool' = tool
  PROVE  TaskInMirror'
<1>1. TaskInMirror /\ Ordered
  BY FaultsStay DEF Mirrored, Traced, Sound, InMirror
<1>2. pc \in Between \cup {"announce", "tools"} => Turn \in Turns
  BY <1>1 DEF Ordered, TypeOK, LoopType, Between
<1>3. Turn' = Turn /\ history' = history /\ \A t, c : Over(t, c)' <=> Over(t, c)
  BY DEF Turn, history, Over
<1>4. ASSUME By' = By
      PROVE  TaskInMirror'
  <2>1. Committing' => Committing /\ commit' = commit
    BY DEF Committing
  <2>2. pc \in Between => \A c \in By'[Turn] : Over(Turn, c)
    BY <1>1, <1>4 DEF TaskInMirror
  <2>3. pc \in {"announce", "tools"} =>
          \A c \in By'[Turn] : tool[c] = "none" => Over(Turn, c) \/ c \in Unanswered(history)
    BY <1>1, <1>4 DEF TaskInMirror
  <2>4. \A c \in By'[Turn] : Turn \in Turns => c \in Calls
    BY <1>4, ByType
  <2> QED BY <1>1, <1>2, <1>3, <2>1, <2>2, <2>3, <2>4 DEF TaskInMirror
<1>5. ASSUME ~Committing', Committing, By' = ByAfter(By, commit.record)
      PROVE  TaskInMirror'
  <2>1. \A t \in Turns : \A c \in By'[t] : c \in By[t] \/ c \in CallsOf(commit.record)
    BY <1>5 DEF ByAfter
  <2>2. pc \in Between => \A c \in By'[Turn] : Over(Turn, c)
    BY <1>1, <1>2, <1>5, <2>1 DEF TaskInMirror
  <2>3. pc \in {"announce", "tools"} =>
          \A c \in By'[Turn] : tool[c] = "none" => Over(Turn, c) \/ c \in Unanswered(history)
    BY <1>1, <1>2, <1>5, <2>1 DEF TaskInMirror
  <2>4. \A c \in By'[Turn] : Turn \in Turns => c \in Calls
    BY <1>5, <2>1, ByType DEF CallsOf
  <2> QED BY <1>1, <1>2, <1>3, <1>5, <2>2, <2>3, <2>4 DEF TaskInMirror
<1>6. \/ By' = By
      \/ ~Committing' /\ Committing /\ By' = ByAfter(By, commit.record)
  BY ByStep DEF Mirrored, Joined, Adding
<1> QED BY <1>4, <1>5, <1>6

LEMMA StaysBetween ==
  ASSUME Mirrored, [Next]_vars, Faultless', CallSteps' = CallSteps, pc \in Between, pc' \in Between,
         StoreIdle, task'.turn = task.turn,
         ~Committing' \/ \E r : Commit(r) /\ CallsOf(r) = {}
  PROVE  TaskInMirror'
<1>1. TaskInMirror
  BY FaultsStay DEF Mirrored, Traced, Sound, InMirror
<1>2. ~Committing
  BY DEF StoreIdle, Committing, Idle
<1>3. By' = By
  BY <1>2, ByStep DEF Mirrored, Joined, Adding
<1>4. Turn' = Turn /\ \A t, c : Over(t, c)' <=> Over(t, c)
  BY DEF Turn, Over
<1>5. Committing' => CallsOf(commit'.record) = {}
  BY HandsOver
<1>6. \A c \in By'[Turn'] : Over(Turn, c)'
  BY <1>1, <1>3, <1>4 DEF TaskInMirror
<1>7. pc' \notin {"announce", "tools", "ending"}
  BY DEF Between
<1> QED BY <1>5, <1>6, <1>7 DEF TaskInMirror

LEMMA GoesEnding ==
  ASSUME Mirrored, [Next]_vars, pc \in Loop \ {"announce", "tools"}, pc' = "ending", UNCHANGED tool
  PROVE  TaskInMirror'
<1>1. ToolsInOrder /\ tool \in [Calls -> ToolType]
  BY DEF Mirrored, Traced, Sound, TaskIsSound, Ordered, TypeOK, LoopType, ToolType
<1>2. \A c \in Calls : tool[c] = "none"
  BY <1>1 DEF ToolsInOrder, Loop
<1>3. tool = NoTools
  BY <1>1, <1>2 DEF NoTools
<1> QED BY <1>3 DEF TaskInMirror, Between, NoTools
-----------------------------------------------------------------------------
(* Steps before, after and beside the loop                                 *)
LEMMA EdgeMirrored ==
  ASSUME Mirrored, [Next]_vars, UNCHANGED steps,
         pc' \notin Between, pc' \notin {"announce", "tools", "ending"},
         \/ ~Committing' \/ commit' = commit
         \/ \E r : Commit(r) /\ (r.kind = "created" \/ (r.kind = "updated" /\ r.status # "Completed"))
  PROVE  Mirrored'
<1>1. CallSteps' = CallSteps /\ TaskInMirror'
  BY NoTaskMirror DEF CallSteps
<1>2. ASSUME Faultless', ~Committing' \/ commit' = commit
      PROVE  InMirror'
  BY <1>1, <1>2, QuietMirror DEF InMirror
<1>3. ASSUME Faultless', NEW r, Commit(r),
             r.kind = "created" \/ (r.kind = "updated" /\ r.status # "Completed")
      PROVE  InMirror'
  <2>1. RecordMirrors(AllSaved, By, Latest, r, CallSteps)
    BY <1>3 DEF RecordMirrors
  <2> QED BY <1>1, <1>3, <2>1, CommitMirror DEF InMirror
<1> QED BY <1>2, <1>3, MirroredBy

LEMMA EdgesMirrored ==
  ASSUME Mirrored, [Next]_vars
  PROVE  /\ \A t \in Turns : Attach(t) \/ TakeUp(t) => Mirrored'
         /\ \A t \in Turns : ActionRecovers(t) \/ CancelRow(t) => Mirrored'
         /\ StartTurn \/ TaskEnds \/ EndTurn => Mirrored'
         /\ \A survives \in BOOLEAN : Crash(survives) => Mirrored'
<1> DEFINE Out1(p) == p \notin Between /\ p \notin {"announce", "tools", "ending"}
<1>1. Out1("off") /\ Out1("start") /\ Out1("load") /\ Out1("left")
  BY DEF Between
<1>2. UNCHANGED rolloutVars => commit' = commit
  BY DEF rolloutVars
<1>3. \A t : /\ Created(t).kind = "created"
             /\ \A status, acks : /\ Updated(t, status, acks).kind = "updated"
                                  /\ Updated(t, status, acks).status = status
  BY DEF Created, Updated
<1>4. ASSUME NEW t \in Turns, Attach(t) PROVE Mirrored'
  <2>1. Commit(Created(t)) /\ pc' = "start" /\ UNCHANGED steps
    BY <1>4 DEF Attach
  <2> QED BY <1>1, <1>3, <2>1, EdgeMirrored
<1>5. ASSUME NEW t \in Turns, TakeUp(t) PROVE Mirrored'
  BY <1>1, <1>2, <1>5, EdgeMirrored DEF TakeUp
<1>6. ASSUME NEW t \in Turns, ActionRecovers(t) PROVE Mirrored'
  <2>1. commit' = commit /\ pc' = "off" /\ UNCHANGED steps
    BY <1>6 DEF ActionRecovers, EndAction, volatile, At
  <2> QED BY <1>1, <2>1, EdgeMirrored
<1>7. ASSUME NEW t \in Turns, CancelRow(t) PROVE Mirrored'
  <2>1. Commit(Updated(t, "Cancelled", {})) /\ pc' \in {"off", "left"} /\ UNCHANGED steps
    BY <1>7 DEF CancelRow, volatile, At
  <2> QED BY <1>1, <1>3, <2>1, EdgeMirrored
<1>8. ASSUME StartTurn PROVE Mirrored'
  <2>1. pc' \in {"load", "left"} /\ UNCHANGED steps
    BY <1>8 DEF StartTurn
  <2>2. Commit(Updated(Turn, "Running", {})) \/ commit' = commit
    BY <1>2, <1>8 DEF StartTurn
  <2> QED BY <1>1, <1>3, <2>1, <2>2, EdgeMirrored
<1>9. ASSUME TaskEnds PROVE Mirrored'
  <2>1. commit' = commit /\ pc' = "off" /\ UNCHANGED steps
    BY <1>9 DEF TaskEnds, EndAction
  <2> QED BY <1>1, <2>1, EdgeMirrored
<1>10. ASSUME EndTurn PROVE Mirrored'
  <2>1. pc' = "left" /\ UNCHANGED steps
    BY <1>10 DEF EndTurn
  <2>2. task.verdict # "Completed"
    BY TaskIsARecord DEF Mirrored, Traced, Sound, Ordered, TypeOK, LoopType
  <2>3. commit' = commit \/ \E acks : Commit(Updated(Turn, task.verdict, acks))
    BY <1>2, <1>10 DEF EndTurn
  <2> QED BY <1>1, <1>3, <2>1, <2>2, <2>3, EdgeMirrored
<1>11. ASSUME NEW survives \in BOOLEAN, Crash(survives) PROVE Mirrored'
  <2>1. ~Committing' /\ pc' = "off" /\ UNCHANGED steps
    BY <1>11 DEF Crash, Reopen, Committing, Idle
  <2> QED BY <1>1, <2>1, EdgeMirrored
<1> QED BY <1>4, <1>5, <1>6, <1>7, <1>8, <1>9, <1>10, <1>11

LEMMA OthersMirrored ==
  ASSUME Mirrored, [Next]_vars
  PROVE  /\ CommitStep \/ CommitFails => Mirrored'
         /\ \A i \in Inputs : Send(i) => Mirrored'
         /\ \A c \in Calls : Dispatch(c) \/ Return(c) => Mirrored'
         /\ Cancel \/ SampleRetry \/ UNCHANGED vars => Mirrored'
<1>1. ASSUME UNCHANGED steps, ~Committing' \/ commit' = commit,
             pc' = pc, task'.turn = task.turn, task'.history = task.history,
             \A c \in Calls : /\ tool'[c] = "none" <=> tool[c] = "none"
                              /\ tool'[c] = "saved" => tool[c] = "saved",
             Faultless' /\ pc = "ending" => tool' = tool
      PROVE  Mirrored'
  <2>1. CallSteps' = CallSteps
    BY <1>1 DEF CallSteps
  <2>2. Faultless' => TaskInMirror'
    BY <1>1, <2>1, TaskStays
  <2>3. Faultless' => FilesInMirror' /\ CommitInMirror'
    BY <1>1, <2>1, QuietMirror
  <2> QED BY <2>2, <2>3, MirroredBy DEF InMirror
<1>2. /\ mishaps \in [crash : Nat, fault : Nat, retry : Nat] /\ task \in TaskType
      /\ tool \in [Calls -> ToolType]
  BY DEF Mirrored, Traced, Sound, Ordered, TypeOK, StoreType, LoopType, ToolType
<1>3. ASSUME CommitStep PROVE Mirrored'
  <2>1. UNCHANGED <<steps, pc, task, tool>>
    BY <1>3 DEF CommitStep, volatile
  <2>2. ~Committing'
    <3>1. commit' = Idle \/ commit' = [commit EXCEPT !.at = "project"]
      BY <1>3 DEF CommitStep, AppendRecord, ProjectRecord
    <3>2. commit # Idle
      BY <1>3 DEF CommitStep, AppendRecord, ProjectRecord, Idle
    <3>3. [commit EXCEPT !.at = "project"] = [at |-> "project", record |-> commit.record]
      BY <3>2, CommitTypes DEF Mirrored, Traced, Sound, Ordered, TypeOK
    <3> QED BY <3>1, <3>3 DEF Committing, Idle
  <2> QED BY <1>1, <2>1, <2>2
<1>4. ASSUME CommitFails PROVE Mirrored'
  <2>1. mishaps'.fault = mishaps.fault + 1
    BY <1>2, <1>4 DEF CommitFails, AppendFails
  <2>2. ~Faultless'
    BY <1>2, <2>1 DEF Faultless
  <2> QED BY <2>2, MirroredBy
<1>5. ASSUME NEW i \in Inputs, Send(i) PROVE Mirrored'
  BY <1>1, <1>5 DEF Send, SendInput, volatile
<1>6. ASSUME Cancel \/ UNCHANGED vars PROVE Mirrored'
  BY <1>1, <1>6 DEF Cancel, vars, volatile, rolloutVars
<1>7. ASSUME SampleRetry PROVE Mirrored'
  <2>1. task'.turn = task.turn /\ task'.history = task.history
    BY <1>2, <1>7 DEF SampleRetry, TaskType
  <2> QED BY <1>1, <1>7, <2>1 DEF SampleRetry
<1>8. ASSUME NEW c \in Calls, Dispatch(c) \/ Return(c) PROVE Mirrored'
  <2>1. /\ UNCHANGED <<steps, commit, pc, task>>
        /\ tool[c] \in {"queued", "running"}
        /\ tool' = [tool EXCEPT ![c] = "running"] \/ tool' = [tool EXCEPT ![c] = "done"]
    BY <1>8 DEF Dispatch, Return, rolloutVars
  <2>2. \A d \in Calls : /\ tool'[d] = "none" <=> tool[d] = "none"
                         /\ tool'[d] = "saved" => tool[d] = "saved"
    BY <1>2, <2>1
  <2>3. Faultless' => pc # "ending"
    <3>1. SUFFICES ASSUME Faultless', pc = "ending"
                   PROVE  FALSE
      OBVIOUS
    <3>2. tool = NoTools
      BY <3>1, FaultsStay DEF Mirrored, Traced, Sound, InMirror, TaskInMirror
    <3> QED BY <2>1, <3>2 DEF NoTools
  <2> QED BY <1>1, <2>1, <2>2, <2>3
<1> QED BY <1>3, <1>4, <1>5, <1>6, <1>7, <1>8

LEMMA MirrorFacts ==
  ASSUME Mirrored, Faultless
  PROVE  /\ FilesInMirror /\ CommitInMirror /\ TaskInMirror
         /\ Sound /\ Ordered /\ StoreType(Item) /\ StoreIsInOrder /\ task \in TaskType
         /\ By \in [Turns -> SUBSET Calls] /\ Latest \in StateOf(Item)
         /\ CallSteps \in [Turns -> [Calls -> StepStatus]]
         /\ \A t \in Turns, c \in Calls : CallSteps[t][c] = steps[t][c]
         /\ StepsFit(AllSaved, By, CallSteps) /\ OneOfEach(AllSaved, By)
         /\ AnswersSaved(AllSaved, Latest.context)
         /\ TurnsMirror(AllSaved, By, Told.status, CallSteps)
         /\ OpenMirrors(AllSaved, By, Latest, CallSteps)
         /\ pc # "off" => Turn \in Turns /\ Turn # 0
<1>1. /\ FilesInMirror /\ CommitInMirror /\ TaskInMirror
      /\ Sound /\ Ordered /\ StoreType(Item) /\ StoreIsInOrder
      /\ LoopType
  BY DEF Mirrored, Traced, Sound, Ordered, TypeOK, InMirror
<1>2. FilesMirror(AllSaved, By, Latest, Told.status, CallSteps)
  BY <1>1 DEF FilesInMirror
<1> QED BY <1>1, <1>2, ByType, LatestType, CallStepsAre DEF FilesMirror, LoopType

(* The Store at rest, before a step that neither writes nor hands over     *)
LEMMA RestsAt ==
  ASSUME Mirrored, [Next]_vars, StoreIdle
  PROVE  ~Committing /\ AllSaved' = AllSaved /\ By' = By /\ Latest' = Latest /\ Told' = Told
<1>1. ~Committing
  BY DEF StoreIdle, Committing, Idle
<1>2. Unmoved /\ AllSaved' = AllSaved /\ By' = By
  BY <1>1, ByStep DEF Mirrored, Joined, Adding
<1> QED BY <1>1, <1>2 DEF Unmoved

LEMMA LoadMirrored ==
  ASSUME Mirrored, [Next]_vars, Load
  PROVE  Mirrored'
<1> SUFFICES ASSUME Faultless'
             PROVE  InMirror'
  BY MirroredBy
<1>1. /\ Faultless /\ Settled' /\ ~damaged
  BY FaultsStay DEF Mirrored, Traced, Sound
<1>2. /\ pc = "load" /\ StoreIdle /\ Scan /\ ~Committing' /\ UNCHANGED steps
      /\ pc' \in {"left", "reconcile", "begin"}
      /\ pc' = "begin" => Canonical'.turn = Turn /\ ~Canonical'.begun /\ task'.turn = task.turn
  <2>1. task \in TaskType
    BY <1>1, MirrorFacts
  <2>2. /\ pc = "load" /\ StoreIdle /\ Scan /\ ~Committing' /\ UNCHANGED steps
        /\ pc' \in {"left", "reconcile", "begin"}
    BY <1>1 DEF Load, At, StoreIdle, Scan, Committing, Idle
  <2>3. PICK read : read = Canonical'
    OBVIOUS
  <2>4. pc' = "begin" => /\ read.turn = Turn /\ ~read.begun
                         /\ task' = [task EXCEPT
                              !.resumed = read.begun, !.history = read.context,
                              !.context = read.context, !.step = read.steps,
                              !.total = read.used, !.last = read.last]
    BY <1>1, <2>3 DEF Load
  <2> QED BY <2>1, <2>2, <2>3, <2>4 DEF TaskType
<1>3. CallSteps' = CallSteps
  BY <1>2 DEF CallSteps
<1>4. FilesInMirror' /\ CommitInMirror'
  BY <1>2, <1>3, QuietMirror
<1>5. CASE pc' # "begin"
  <2>1. TaskInMirror'
    BY <1>2, <1>5, NoTaskMirror DEF Between
  <2> QED BY <1>4, <2>1 DEF InMirror
<1>6. CASE pc' = "begin"
  <2>1. Canonical' = Latest /\ By' = By
    <3>1. Latest' = Latest /\ By' = By
      BY <1>2, RestsAt
    <3>2. Records' = file'
      BY <1>1, StoreActs, StoreTypeStep, WholeTypeNext, MirrorFacts DEF Settled
    <3>3. Canonical' = Latest'
      BY <3>2 DEF Canonical, Latest
    <3> QED BY <3>1, <3>3
  <2>2. Latest.turn = Turn /\ ~Latest.begun /\ Turn # 0 /\ Turn' = Turn
    BY <1>1, <1>2, <1>6, <2>1, MirrorFacts DEF Turn
  <2>3. By[Turn] = {}
    BY <1>1, <2>2, MirrorFacts DEF OpenMirrors
  <2>4. By'[Turn'] = {}
    BY <2>1, <2>2, <2>3
  <2>5. TaskInMirror'
    BY <1>2, <1>6, <2>4 DEF TaskInMirror
  <2> QED BY <1>4, <2>5 DEF InMirror
<1> QED BY <1>5, <1>6

(* A Step changes in the rows.                                             *)
LEMMA StepChanged ==
  ASSUME Mirrored, [Next]_vars, Faultless', pc \in Loop, StoreIdle, UNCHANGED rolloutVars,
         NEW c \in Calls, NEW s \in {"running", "completed", "aborted"},
         steps' = [steps EXCEPT ![Turn][c] = s], Call(c) \in AllSaved,
         c \in By[Turn] => /\ c \in CallsIn(Latest.context)
                           /\ s = "completed" => Out(c) \in AllSaved
                           /\ s = "aborted" => Out(c) \notin AllSaved
  PROVE  /\ FilesInMirror' /\ CommitInMirror' /\ ~Committing'
         /\ CallSteps' = [CallSteps EXCEPT ![Turn][c] = s]
<1>1. Faultless
  BY FaultsStay DEF Mirrored, Traced, Sound
<1>2. /\ Latest.turn = Turn /\ Turn \in Turns /\ Turn # 0 /\ ~Committing'
      /\ AllSaved' = AllSaved /\ By' = By /\ Latest' = Latest /\ Told' = Told
  BY <1>1, MirrorFacts, AtItsFile, RestsAt DEF rolloutVars, StoreIdle, Committing, Idle, Loop
<1>3. Told.status[Latest.turn] \in OpenTurn
  BY <1>1, <1>2, MirrorFacts DEF Ordered, Control, AtAnOpenTurn
<1>4. PICK st \in [Turns -> [Calls -> StepStatus]] : st = CallSteps /\ \A t \in Turns, d \in Calls : st[t][d] = steps[t][d]
  BY <1>1, MirrorFacts
<1>5. steps \in [Turns -> [StepNames ->
         {"none", "running", "completed", "aborted", "failed", "cancelled"}]]
  BY <1>1, MirrorFacts DEF Ordered, TypeOK, LoopType
<1>6. PICK nst : nst = [st EXCEPT ![Turn][c] = s]
  OBVIOUS
<1>7. \A t \in Turns, d \in Calls : steps'[t][d] = IF t = Turn /\ d = c THEN s ELSE st[t][d]
  BY <1>2, <1>4, <1>5 DEF StepNames
<1>8. CallSteps' = nst
  <2>1. CallSteps' = [t \in Turns |-> [d \in Calls |-> IF t = Turn /\ d = c THEN s ELSE st[t][d]]]
    BY <1>7 DEF CallSteps
  <2>2. nst = [t \in Turns |-> [d \in Calls |-> IF t = Turn /\ d = c THEN s ELSE st[t][d]]]
    BY <1>2, <1>6
  <2> QED BY <2>1, <2>2
<1>9. FilesMirror(AllSaved, By, Latest, Told.status, st)
  BY <1>1, <1>4, MirrorFacts DEF FilesInMirror
<1>10. PICK u \in Turns : u = Turn
  BY <1>2
<1>11. FilesMirror(AllSaved, By, Latest, Told.status, nst)
  BY <1>1, <1>2, <1>3, <1>6, <1>9, <1>10, MirrorFacts, StepChanges
<1>12. FilesInMirror'
  BY <1>2, <1>8, <1>11 DEF FilesInMirror
<1> QED BY <1>2, <1>4, <1>6, <1>8, <1>12 DEF CommitInMirror

(* The Step of the compaction is not a call's.                             *)
LEMMA CompactionStep ==
  ASSUME Mirrored, NEW s, steps' = [steps EXCEPT ![Turn]["compaction"] = s]
  PROVE  CallSteps' = CallSteps
<1>1. \A t \in Turns, c \in Calls : steps'[t][c] = steps[t][c]
  <2>1. \A c \in Calls : c # "compaction" /\ c \in StepNames
    BY TurnAssumption DEF StepNames
  <2>2. steps \in [Turns -> [StepNames ->
         {"none", "running", "completed", "aborted", "failed", "cancelled"}]]
    BY DEF Mirrored, Traced, Sound, Ordered, TypeOK, LoopType
  <2> QED BY <2>1, <2>2
<1> QED BY <1>1 DEF CallSteps

LEMMA CanonicallyIs ==
  ASSUME NEW c \in Calls
  PROVE  /\ Canonically(c) \in {"completed", "aborted"}
         /\ Canonically(c) = "completed" => \E n \in DOMAIN history : history[n] = Out(c)
         /\ Canonically(c) = "aborted" =>
              (\E n \in DOMAIN history : history[n] = Aborted(c)) \/ c \notin Answered(history)
<1>1. /\ c \in Of({"out"}, history) <=> \E n \in DOMAIN history : history[n] = Out(c)
      /\ c \in Of({"aborted"}, history) <=> \E n \in DOMAIN history : history[n] = Aborted(c)
      /\ c \in Answered(history) => c \in Of({"out"}, history) \/ c \in Of({"aborted"}, history)
  BY DEF Of, Answered, Out, Aborted
<1>2. /\ Canonically(c) = "completed" => c \in Of({"out"}, history)
      /\ Canonically(c) = "aborted" => c \in Of({"aborted"}, history) \/ c \notin Of({"out"}, history)
      /\ Canonically(c) \in {"completed", "aborted"}
  BY DEF Canonically
<1> QED BY <1>1, <1>2

LEMMA ReconcileMirrored ==
  ASSUME Mirrored, [Next]_vars, Reconcile
  PROVE  Mirrored'
<1> SUFFICES ASSUME Faultless'
             PROVE  InMirror'
  BY MirroredBy
<1>1. /\ Faultless /\ Traced /\ Sound
  BY FaultsStay DEF Mirrored, Traced, Sound
<1>2. /\ pc = "reconcile" /\ pc \in Loop /\ StoreIdle /\ UNCHANGED rolloutVars /\ ~Committing' /\ Turn' = Turn
      /\ pc' \in {"reconcile", "repair"}
  BY DEF Reconcile, At, Loop, StoreIdle, rolloutVars, Committing, Idle, Turn
<1>3. /\ history = Latest.context /\ Latest.turn = Turn /\ Turn \in Turns /\ Turn # 0
  BY <1>1, <1>2, AtItsFile, MirrorFacts DEF Sound, TaskIsSound, HistoryIsSound
<1>4. \A c \in Calls : (steps[Turn][c] \in {"none", "running"} /\ c \in By[Turn]) => c \in CallsIn(history)
  BY <1>1, <1>3, MirrorFacts DEF OpenMirrors, MirrorsIn
<1>5. CASE pc' = "repair"
  <2>1. /\ UNCHANGED steps
        /\ \A n \in StepNames : steps[Turn][n] # OpenStep
        /\ \A c \in CallsIn(history) : steps[Turn][c] # "none"
    BY <1>2, <1>5 DEF Reconcile
  <2>2. \A c \in By[Turn] : CallSteps[Turn][c] \in {"completed", "aborted"}
    <3> SUFFICES ASSUME NEW c \in By[Turn]
                 PROVE  CallSteps[Turn][c] \in {"completed", "aborted"}
      OBVIOUS
    <3>1. c \in Calls /\ c \in StepNames
      BY <1>1, <1>3, MirrorFacts DEF StepNames
    <3>2. CallSteps[Turn][c] \in {"none", "running", "completed", "aborted"} /\ CallSteps[Turn][c] = steps[Turn][c]
      BY <1>1, <1>3, <3>1, MirrorFacts DEF StepsFit
    <3> QED BY <1>4, <2>1, <3>1, <3>2 DEF OpenStep
  <2>3. CallSteps' = CallSteps /\ By' = By
    BY <1>2, <2>1, RestsAt DEF CallSteps
  <2>4. TaskInMirror'
    BY <1>2, <1>5, <2>2, <2>3 DEF TaskInMirror, Over
  <2> QED BY <1>2, <2>3, <2>4, QuietMirror DEF InMirror
<1>6. CASE pc' # "repair"
  <2>1. TaskInMirror'
    BY <1>2, <1>6, NoTaskMirror DEF Between
  <2>2. CASE steps' = [steps EXCEPT ![Turn]["compaction"] = Canonically("compaction")]
    BY <1>2, <2>1, <2>2, CompactionStep, QuietMirror DEF InMirror
  <2>3. ASSUME NEW c \in Calls, steps[Turn][c] = OpenStep,
               steps' = [steps EXCEPT ![Turn][c] = Canonically(c)]
        PROVE  InMirror'
    <3>1. PICK s \in {"completed", "aborted"} : s = Canonically(c)
      BY CanonicallyIs
    <3>2. Call(c) \in AllSaved
      BY <1>1, <1>3, <2>3, MirrorFacts DEF StepsFit, OpenStep
    <3>3. s = "completed" => Out(c) \in AllSaved
      <4>1. SUFFICES ASSUME s = "completed"
                     PROVE  Out(c) \in AllSaved
        OBVIOUS
      <4>2. PICK n \in DOMAIN history : history[n] = Out(c)
        BY <3>1, <4>1, CanonicallyIs
      <4>3. IsAnswer(history[n])
        BY <4>2, CallShape
      <4>4. AnswersSaved(AllSaved, history)
        BY <1>1, <1>3, MirrorFacts
      <4> QED BY <4>2, <4>3, <4>4 DEF AnswersSaved
    <3>4. c \in CallsIn(history) /\ s = "aborted" => Out(c) \notin AllSaved
      <4>1. CASE \E n \in DOMAIN history : history[n] = Aborted(c)
        <5>1. Aborted(c) \in AllSaved
          BY <1>1, <1>3, <4>1, MirrorFacts, CallShape DEF AnswersSaved
        <5> QED BY <1>1, <5>1, MirrorFacts DEF OneOfEach
      <4>2. CASE c \in CallsIn(history) /\ c \notin Answered(history)
        BY <1>1, <1>3, <4>2 DEF Unanswered, Traced, SavedCalls, CallsAreSaved
      <4> QED BY <3>1, <4>1, <4>2, CanonicallyIs
    <3>5. steps' = [steps EXCEPT ![Turn][c] = s]
      BY <2>3, <3>1
    <3>6. c \in By[Turn] => c \in CallsIn(history)
      BY <1>4, <2>3 DEF OpenStep
    <3> QED BY <1>2, <1>3, <2>1, <3>2, <3>3, <3>4, <3>5, <3>6, StepChanged DEF InMirror
  <2>4. ASSUME NEW c \in CallsIn(history), steps' = [steps EXCEPT ![Turn][c] = OpenStep]
        PROVE  InMirror'
    <3>1. c \in Calls
      BY DEF CallsIn, Of
    <3>2. Call(c) \in AllSaved
      <4>1. Repeats(history, AllSaved) /\ history \in Seq(Item)
        BY <1>1, <1>2, <1>3, AtTask DEF Traced, SavedCalls, CallsAreSaved
      <4> QED BY <4>1, RepeatsIs
    <3>3. steps' = [steps EXCEPT ![Turn][c] = "running"]
      BY <2>4 DEF OpenStep
    <3> QED BY <1>2, <1>3, <2>1, <3>1, <3>2, <3>3, StepChanged DEF InMirror
  <2>5. \/ \E n \in StepNames : /\ steps[Turn][n] = OpenStep
                                /\ steps' = [steps EXCEPT ![Turn][n] = Canonically(n)]
        \/ \E c \in CallsIn(history) : steps' = [steps EXCEPT ![Turn][c] = OpenStep]
    BY <1>6 DEF Reconcile
  <2> QED BY <2>2, <2>3, <2>4, <2>5 DEF StepNames
<1> QED BY <1>5, <1>6

(* Between responses: steps that save nothing                              *)
LEMMA BetweenMirrored ==
  ASSUME Mirrored, [Next]_vars, Working, pc \in Between, pc' \in Between \cup {"ending"},
         commit' = commit, UNCHANGED tool, CallSteps' = CallSteps
  PROVE  Mirrored'
<1> SUFFICES ASSUME Faultless'
             PROVE  InMirror'
  BY MirroredBy
<1>1. StoreIdle /\ task'.turn = task.turn /\ ~Committing'
  BY DEF Working, SameTurn, StoreIdle, Committing, Idle
<1>2. FilesInMirror' /\ CommitInMirror'
  BY <1>1, QuietMirror
<1>3. CASE pc' \in Between
  <2>1. TaskInMirror'
    BY <1>1, <1>3, StaysBetween
  <2> QED BY <1>2, <2>1 DEF InMirror
<1>4. CASE pc' = "ending"
  <2>1. pc \in Loop \ {"announce", "tools"}
    BY DEF Loop, Between
  <2>2. TaskInMirror'
    BY <1>4, <2>1, GoesEnding
  <2> QED BY <1>2, <2>2 DEF InMirror
<1> QED BY <1>3, <1>4

LEMMA LoopMirrored ==
  ASSUME Mirrored, [Next]_vars
  PROVE  /\ Begin \/ BeginFails \/ Top => Mirrored'
         /\ CompactStart \/ CompactDone \/ CompactFails => Mirrored'
         /\ SampleDuplicate \/ SampleFails \/ SampleCancelled => Mirrored'
<1>1. TypeOK
  BY DEF Mirrored, Traced, Sound, Ordered
<1>2. UNCHANGED steps => CallSteps' = CallSteps
  BY DEF CallSteps
<1>3. UNCHANGED rolloutVars => commit' = commit
  BY DEF rolloutVars
<1>4. \A v : Leave(v) => pc' = "ending"
  BY DEF Leave
<1>5. /\ \A t : ClaimInputs(t) => commit' = commit
      /\ \A n : ChargeTokens(n) => commit' = commit
  BY DEF ClaimInputs, ChargeTokens
<1>6. ASSUME Begin PROVE Mirrored'
  <2>1. pc = "begin" /\ pc' \in {"complete", "top"} /\ commit' = commit /\ UNCHANGED <<tool, steps>>
    BY <1>3, <1>6 DEF Begin, At
  <2> QED BY <1>1, <1>2, <1>6, <2>1, LoopWorks, BetweenMirrored DEF Between
<1>6a. ASSUME BeginFails PROVE Mirrored'
  <2>1. pc = "begin" /\ pc' = "ending" /\ commit' = commit /\ UNCHANGED <<tool, steps>>
    BY <1>3, <1>4, <1>6a DEF BeginFails, At
  <2> QED BY <1>1, <1>2, <1>6a, <2>1, LoopWorks, BetweenMirrored DEF Between
<1>7. ASSUME Top PROVE Mirrored'
  <2>1. pc = "top" /\ pc' \in {"ending", "window"} /\ UNCHANGED <<tool, steps>>
    BY <1>4, <1>7 DEF Top, At
  <2>2. commit' = commit
    BY <1>3, <1>5, <1>7 DEF Top
  <2> QED BY <1>1, <1>2, <1>7, <2>1, <2>2, LoopWorks, BetweenMirrored DEF Between
<1>8. ASSUME CompactStart PROVE Mirrored'
  <2>1. pc = "window" /\ pc' = "compacting" /\ commit' = commit /\ UNCHANGED tool
    BY <1>3, <1>8 DEF CompactStart, At
  <2>2. CallSteps' = CallSteps
    BY <1>8, CompactionStep DEF CompactStart
  <2> QED BY <1>1, <1>8, <2>1, <2>2, LoopWorks, BetweenMirrored DEF Between
<1>9. ASSUME CompactDone PROVE Mirrored'
  <2>1. pc = "compacting" /\ pc' = "prompt" /\ commit' = commit /\ UNCHANGED tool
    BY <1>3, <1>9 DEF CompactDone, At
  <2>2. CallSteps' = CallSteps
    BY <1>9, CompactionStep DEF CompactDone
  <2> QED BY <1>1, <1>9, <2>1, <2>2, LoopWorks, BetweenMirrored DEF Between
<1>10. ASSUME CompactFails PROVE Mirrored'
  <2>1. pc = "compacting" /\ pc' = "ending" /\ commit' = commit /\ UNCHANGED <<tool, steps>>
    BY <1>3, <1>4, <1>10 DEF CompactFails, At
  <2> QED BY <1>1, <1>2, <1>10, <2>1, LoopWorks, BetweenMirrored DEF Between
<1>11. ASSUME SampleDuplicate \/ SampleFails PROVE Mirrored'
  <2>1. pc = "sample" /\ pc' = "ending" /\ commit' = commit /\ UNCHANGED <<tool, steps>>
    BY <1>4, <1>5, <1>11 DEF SampleDuplicate, SampleFails, At
  <2> QED BY <1>1, <1>2, <1>11, <2>1, SampleWorks, BetweenMirrored DEF Between
<1>12. ASSUME SampleCancelled PROVE Mirrored'
  <2>1. pc \in {"sample", "compacting"} /\ pc' = "ending" /\ commit' = commit /\ UNCHANGED <<tool, steps>>
    BY <1>3, <1>4, <1>12 DEF SampleCancelled, At
  <2> QED BY <1>1, <1>2, <1>12, <2>1, SampleWorks, BetweenMirrored DEF Between
<1> QED BY <1>6, <1>6a, <1>7, <1>8, <1>9, <1>10, <1>11, <1>12

(* Every call has its output, and its Step says so.                        *)
LEMMA AllMirror ==
  ASSUME Mirrored, Faultless, pc \in Between, StoreIdle, Clean(task.context)
  PROVE  \A c \in By[Turn] : MirrorsIn(AllSaved, CallSteps, Turn, c)
<1> SUFFICES ASSUME NEW c \in By[Turn]
             PROVE  MirrorsIn(AllSaved, CallSteps, Turn, c)
  OBVIOUS
<1>1. /\ Latest.context = task.context /\ Latest.turn = Turn /\ Turn \in Turns /\ Turn # 0
  BY MirrorFacts, AtItsFile DEF Between, Loop
<1>2. c \in Calls /\ CallSteps[Turn][c] \in {"completed", "aborted"}
  BY <1>1, MirrorFacts DEF TaskInMirror, Over
<1>3. c \in CallsIn(task.context) \/ MirrorsIn(AllSaved, CallSteps, Turn, c)
  BY <1>1, MirrorFacts DEF OpenMirrors
<1>4. CASE c \in CallsIn(task.context)
  <2>1. PICK n \in DOMAIN task.context : IsAnswer(task.context[n]) /\ task.context[n][2] = c
    <3>1. c \in Answered(task.context) /\ task.context \in Seq(Item)
      BY <1>4, MirrorFacts, TaskIsARecord DEF Clean, Unanswered
    <3> QED BY <3>1, Members
  <2>2. task.context[n] \in AllSaved /\ task.context[n] \in Item
    <3>1. task.context \in Seq(Item)
      BY MirrorFacts, TaskIsARecord
    <3>2. AnswersSaved(AllSaved, task.context)
      BY <1>1, MirrorFacts
    <3> QED BY <2>1, <3>1, <3>2 DEF AnswersSaved
  <2>3. Out(c) \in AllSaved \/ Aborted(c) \in AllSaved
    BY <2>1, <2>2, ItemShape
  <2>4. /\ CallSteps[Turn][c] = "completed" => Out(c) \in AllSaved
        /\ CallSteps[Turn][c] = "aborted" => Out(c) \notin AllSaved
    BY <1>1, <1>2, MirrorFacts DEF StepsFit
  <2> QED BY <1>2, <2>3, <2>4 DEF MirrorsIn
<1> QED BY <1>3, <1>4

(* A history is saved.                                                     *)
LEMMA SaveMirrors ==
  ASSUME Mirrored, [Next]_vars, Faultless', pc \in Loop, UNCHANGED steps,
         NEW items, NEW total, NEW step, NEW last, NEW acks,
         Save(items, total, step, last, acks),
         IF IsPrefix(task.context, items)
           THEN \A c \in Calls : Out(c) \in Range(NewItems(items)) => CallSteps[Turn][c] = "running"
           ELSE \A c \in By[Turn] : MirrorsIn(AllSaved, CallSteps, Turn, c)
  PROVE  /\ FilesInMirror' /\ CommitInMirror'
         /\ By' = By /\ CallSteps' = CallSteps /\ AllSaved' = AllSaved
         /\ task'.turn = task.turn /\ task'.history = items
         /\ \A c \in CallsOf(commit'.record) : c \in Calls /\ Call(c) \in Range(NewItems(items))
         /\ StoreIdle
         /\ \E r : Commit(r) /\ \A c \in CallsOf(r) :
              IsPrefix(task.context, items) /\ Call(c) \in Range(NewItems(items))
<1>1. PICK r : r = SavedRecord(items, total, step, last, acks)
  OBVIOUS
<1>2. Commit(r) /\ task' = SavedTask(items, total, last) /\ StoreIdle
  BY <1>1, SaveIs DEF Commit
<1>3. /\ r.kind = "checkpoint" /\ r.items = NewItems(items) /\ r.turn = Turn
      /\ r.replace = ~IsPrefix(task.context, items)
  BY <1>1 DEF SavedRecord, Checkpoint
<1>4. Faultless
  BY FaultsStay DEF Mirrored, Traced, Sound
<1>5. Latest.turn = Turn
  BY <1>2, <1>4, MirrorFacts, AtItsFile
<1>6. RecordMirrors(AllSaved, By, Latest, r, CallSteps)
  BY <1>3, <1>5, CallsOfIs DEF RecordMirrors
<1>7. CallSteps' = CallSteps
  BY DEF CallSteps
<1>8. FilesInMirror' /\ CommitInMirror'
  BY <1>2, <1>6, <1>7, CommitMirror
<1>9. commit'.record = r /\ By' = By /\ AllSaved' = AllSaved
  BY <1>2, HandsOver
<1>10. \A c \in CallsOf(r) : /\ IsPrefix(task.context, items)
                             /\ c \in Calls /\ Call(c) \in Range(NewItems(items))
  BY <1>3, CallsOfIs
<1>11. task'.turn = task.turn /\ task'.history = items
  BY <1>2, <1>4, MirrorFacts DEF SavedTask, TaskType
<1> QED BY <1>2, <1>7, <1>8, <1>9, <1>10, <1>11

(* Between responses: what is appended has no calls.                       *)
LEMMA SavesBetween ==
  ASSUME Mirrored, [Next]_vars, Faultless', pc \in Between, pc' \in Between, UNCHANGED steps,
         NEW items, NEW total, NEW step, NEW last, NEW acks,
         Save(items, total, step, last, acks),
         IF IsPrefix(task.context, items)
           THEN \A c \in Calls : Out(c) \notin Range(NewItems(items)) /\ Call(c) \notin Range(NewItems(items))
           ELSE \A c \in By[Turn] : MirrorsIn(AllSaved, CallSteps, Turn, c)
  PROVE  InMirror'
<1>1. pc \in Loop
  BY DEF Loop, Between
<1>2. /\ FilesInMirror' /\ CommitInMirror' /\ task'.turn = task.turn /\ CallSteps' = CallSteps
      /\ StoreIdle
      /\ \E r : Commit(r) /\ \A c \in CallsOf(r) :
           c \in Calls /\ IsPrefix(task.context, items) /\ Call(c) \in Range(NewItems(items))
  <2>1. \A r : \A c \in CallsOf(r) : c \in Calls
    BY DEF CallsOf
  <2> QED BY <1>1, <2>1, SaveMirrors
<1>3. \E r : Commit(r) /\ CallsOf(r) = {}
  BY <1>2
<1>4. TaskInMirror'
  BY <1>2, <1>3, StaysBetween
<1> QED BY <1>2, <1>4 DEF InMirror

LEMMA RepairMirrored ==
  ASSUME Mirrored, [Next]_vars, Repair
  PROVE  Mirrored'
<1>1. pc = "repair" /\ pc' = "begin" /\ StoreIdle /\ UNCHANGED <<tool, steps>> /\ pc \in Loop
  BY DEF Repair, At, Loop
<1>2. history \in Seq(Item) /\ history = task.context
  BY <1>1, AtTask DEF Mirrored
<1>3. CASE Clean(history)
  <2>1. UNCHANGED commit /\ CallSteps' = CallSteps /\ Working
    BY <1>1, <1>3, LoopWorks DEF Repair, Clean, rolloutVars, CallSteps, Mirrored, Traced, Sound, Ordered
  <2> QED BY <1>1, <2>1, BetweenMirrored DEF Between
<1>4. CASE ~Clean(history)
  <2>1. PICK open : open = Unanswered(history)
    OBVIOUS
  <2>2. IsFiniteSet(open) /\ open \in SUBSET Calls
    BY <1>2, <2>1, CallsAreFew
  <2>3. PICK items : items = history \o EachOf("aborted", open)
    OBVIOUS
  <2>4. Joins(items, history, EachOf("aborted", open), Item)
    BY <1>2, <2>2, <2>3, EachType DEF Joins
  <2>5. IsPrefix(task.context, items) /\ NewItems(items) = EachOf("aborted", open)
        /\ NewItems(items) \in Seq(Item)
    BY <1>2, <2>2, <2>4, RestIs, EachType
  <2>6. Brings("aborted", open, NewItems(items))
    BY <2>2, <2>5, EachBrings
  <2>7. \A c \in Calls : Out(c) \notin Range(NewItems(items)) /\ Call(c) \notin Range(NewItems(items))
    BY <2>2, <2>5, <2>6, BringsIs
  <2>8. Save(items, task.total, task.step, task.last, {})
    <3>1. Save(history \o Each(Aborted, open), task.total, task.step, task.last, {})
      BY <1>4, <2>1 DEF Repair, Clean
    <3> QED BY <2>3, <3>1, EachIs
  <2>9. Faultless' => InMirror'
    BY <1>1, <2>5, <2>7, <2>8, SavesBetween DEF Between
  <2> QED BY <2>9, MirroredBy
<1> QED BY <1>3, <1>4

LEMMA PromptMirrored ==
  ASSUME Mirrored, [Next]_vars, Prompt
  PROVE  Mirrored'
<1>1. pc \in {"prompt", "window"} /\ StoreIdle /\ UNCHANGED <<tool, steps>> /\ pc \in Loop
      /\ history \in Seq(Item) /\ task.context \in Seq(Item)
  BY PromptIs, AtTask, TaskIsARecord DEF At, Loop, Mirrored
<1>2. TaskIsSound /\ TypeOK
  BY DEF Mirrored, Traced, Sound, Ordered
<1>3. CASE Leave("Failed") /\ UNCHANGED rolloutVars
  <2>1. pc' = "ending" /\ commit' = commit /\ CallSteps' = CallSteps /\ Working
    BY <1>1, <1>2, <1>3, LoopWorks DEF Leave, rolloutVars, CallSteps
  <2> QED BY <1>1, <2>1, BetweenMirrored DEF Between
<1>4. CASE /\ Save(Sampled, task.total, task.step - 1, FALSE, task.acks)
           /\ pc' = "sample" /\ ~Strays
  <2>1. PICK items : items = Sampled
    OBVIOUS
  <2>2. IsPrefix(task.context, items) => Adds(items, task.context)
    BY <1>1, <1>4, <2>1, SampledIs DEF Mirrored, Traced
  <2>3. ASSUME IsPrefix(task.context, items)
        PROVE  \A c \in Calls : Out(c) \notin Range(NewItems(items)) /\ Call(c) \notin Range(NewItems(items))
    <3>1. PICK rest : Joins(items, task.context, rest, Item) /\ Plain(rest)
      BY <2>2, <2>3 DEF Adds
    <3> QED BY <3>1, RestIs, PlainBringsNone
  <2>4. Clean(task.context)
    <3>1. pc = "prompt" => Clean(task.context)
      BY <1>1, <1>2 DEF TaskIsSound, HistoryIsSound
    <3>2. pc = "window" => Clean(history) /\ Adds(history, task.context)
      BY <1>1, <1>2 DEF TaskIsSound, HistoryIsSound
    <3> QED BY <1>1, <3>1, <3>2, AddsPlain
  <2>5. Save(items, task.total, task.step - 1, FALSE, task.acks)
    BY <1>4, <2>1
  <2>6. ASSUME Faultless'
        PROVE  InMirror'
    <3>1. Faultless
      BY <2>6, FaultsStay DEF Mirrored, Traced, Sound
    <3>2. \A c \in By[Turn] : MirrorsIn(AllSaved, CallSteps, Turn, c)
      BY <1>1, <2>4, <3>1, AllMirror DEF Between
    <3> QED BY <1>1, <1>4, <2>3, <2>5, <2>6, <3>2, SavesBetween DEF Between
  <2> QED BY <2>6, MirroredBy
<1> QED BY <1>3, <1>4, PromptIs

LEMMA AnswerMirrored ==
  ASSUME Mirrored, [Next]_vars, SampleAnswer
  PROVE  Mirrored'
<1>1. pc = "sample" /\ pc' = "complete" /\ StoreIdle /\ UNCHANGED steps
      /\ history \in Seq(Item) /\ history = task.context /\ Turn \in Turns
  BY AtTask DEF SampleAnswer, At, Mirrored, Traced, Sound, Ordered, TypeOK, LoopType
<1>2. PICK items : items = Append(history, Answer(Turn))
  OBVIOUS
<1>3. Joins(items, history, <<Answer(Turn)>>, Item)
  BY <1>1, <1>2, AppendsItem, ItemsAre
<1>4. NewItems(items) = <<Answer(Turn)>> /\ IsPrefix(task.context, items)
  BY <1>1, <1>3, RestIs
<1>5. Plain(NewItems(items))
  BY <1>4 DEF Plain, IsCall, IsAnswer, Answer
<1>6. \A c \in Calls : Out(c) \notin Range(NewItems(items)) /\ Call(c) \notin Range(NewItems(items))
  BY <1>5, PlainBringsNone
<1>7. Save(items, task.total + task.wasted + 1, task.step, TRUE, {})
  BY <1>2 DEF SampleAnswer
<1>8. Faultless' => InMirror'
  BY <1>1, <1>4, <1>6, <1>7, SavesBetween DEF Between
<1> QED BY <1>8, MirroredBy

LEMMA CallsMirrored ==
  ASSUME Mirrored, [Next]_vars, NEW S \in Responses, SampleCalls(S)
  PROVE  Mirrored'
<1> SUFFICES ASSUME Faultless'
             PROVE  InMirror'
  BY MirroredBy
<1>1. /\ pc = "sample" /\ pc' = "announce" /\ StoreIdle /\ UNCHANGED <<tool, steps>>
      /\ S \cap task.known = {} /\ S \cap Recorded = {}
      /\ Commit(CallRecord(S)) /\ task' = CallTask(S)
  BY SampleCallsIs DEF At
<1>2. S \in SUBSET Calls /\ IsFiniteSet(S) /\ S # {}
  BY ResponsesAre
<1>3. history \in Seq(Item) /\ task \in TaskType /\ WellFormed(history) /\ TaskIsSound
  BY <1>1, AtTask DEF Mirrored, Traced, Sound
<1>4. /\ Clean(history) /\ history # <<>>
      /\ CallsIn(history) \cup Answered(history) \subseteq task.known
  BY <1>1, <1>3 DEF TaskIsSound, HistoryIsSound, Loop
<1>5. PICK items : items = history \o CallItems(S)
  OBVIOUS
<1>6. Joins(items, history, EachOf("call", S), Item)
  BY <1>2, <1>3, <1>5, EachType DEF Joins, CallItems
<1>7. Unanswered(items) = S
  <2>1. S \cap CallsIn(history) = {} /\ S \cap Answered(history) = {} /\ Unanswered(history) = {}
    BY <1>1, <1>4 DEF Clean
  <2> QED BY <1>2, <1>3, <1>4, <1>6, <2>1, CallsJoin
<1>8. history' = items /\ Turn' = Turn
  BY <1>1, <1>3, <1>5 DEF CallTask, TaskType, history, Turn
<1>9. PICK r : r = CallRecord(S)
  OBVIOUS
<1>10. r.replace = FALSE /\ r.items = EachOf("call", S) /\ r.kind = "checkpoint" /\ Commit(r)
  BY <1>1, <1>9 DEF CallRecord, Checkpoint, CallItems
<1>11. \A c \in Calls : /\ Call(c) \in Range(r.items) <=> c \in S
                        /\ Out(c) \notin Range(r.items)
  <2>1. Brings("call", S, r.items) /\ r.items \in Seq(Item)
    BY <1>2, <1>10, EachBrings, EachType
  <2> QED BY <1>2, <2>1, BringsIs
<1>12. RecordMirrors(AllSaved, By, Latest, r, CallSteps)
  BY <1>10, <1>11 DEF RecordMirrors, Made
<1>13. CallSteps' = CallSteps
  BY <1>1 DEF CallSteps
<1>14. FilesInMirror' /\ CommitInMirror'
  BY <1>10, <1>12, <1>13, CommitMirror
<1>15. commit'.record = r /\ By' = By
  BY <1>10, HandsOver
<1>16. CallsOf(r) \subseteq S
  BY <1>10, <1>11, CallsOfIs
<1>17. Faultless /\ \A c \in Calls : tool[c] = "none"
  BY <1>1, <1>3, FaultsStay DEF TaskIsSound, ToolsInOrder, Mirrored, Traced, Sound
<1>18. \A c \in By[Turn] : Over(Turn, c)
  BY <1>1, <1>17, MirrorFacts DEF TaskInMirror, Between
<1>19. \A c \in By'[Turn'] : Over(Turn, c)'
  BY <1>8, <1>13, <1>15, <1>18 DEF Over
<1>20. TaskInMirror'
  BY <1>1, <1>7, <1>8, <1>15, <1>16, <1>17, <1>19 DEF TaskInMirror, Between
<1> QED BY <1>14, <1>20 DEF InMirror
-----------------------------------------------------------------------------
(* Tools                                                                   *)
LEMMA AtTools ==
  ASSUME Mirrored, Faultless, pc \in {"announce", "tools"}, StoreIdle
  PROVE  /\ history = Latest.context /\ Latest.turn = Turn /\ Turn \in Turns /\ Turn # 0
         /\ history \in Seq(Item) /\ WellFormed(history) /\ history = task.context
         /\ AnswersSaved(AllSaved, history)
         /\ \A c \in CallsIn(history) : c \in Calls /\ Call(c) \in AllSaved
         /\ \A c \in Calls : /\ tool[c] # "none" => CallSteps[Turn][c] = "running"
                             /\ tool[c] # "none" /\ c \in By[Turn] => c \in CallsIn(history)
                             /\ CallSteps[Turn][c] # "none" => Call(c) \in AllSaved
         /\ \A c \in By[Turn] : /\ c \in Calls
                                /\ tool[c] = "none" => Over(Turn, c) \/ c \in Unanswered(history)
         /\ tool \in [Calls -> ToolType] /\ ToolsInOrder
<1>1. pc \in Loop /\ Traced /\ Sound /\ TaskIsSound
  BY DEF Loop, Mirrored, Traced, Sound
<1>2. /\ history = Latest.context /\ Latest.turn = Turn /\ Turn \in Turns /\ Turn # 0
      /\ history \in Seq(Item) /\ WellFormed(history) /\ history = task.context
      /\ tool \in [Calls -> ToolType] /\ ToolsInOrder
  BY <1>1, AtItsFile, AtTask, MirrorFacts DEF TaskIsSound, ToolType
<1>3. AnswersSaved(AllSaved, history)
  BY <1>2, MirrorFacts
<1>4. \A c \in CallsIn(history) : c \in Calls /\ Call(c) \in AllSaved
  <2>1. Repeats(history, AllSaved)
    BY <1>1, <1>2 DEF Traced, SavedCalls, CallsAreSaved
  <2> QED BY <1>2, <2>1, RepeatsIs DEF CallsIn, Of
<1>5. \A c \in Calls : tool[c] # "none" => CallSteps[Turn][c] = "running"
  BY MirrorFacts DEF TaskInMirror
<1>6. \A c \in Calls : tool[c] # "none" /\ c \in By[Turn] => c \in CallsIn(history)
  BY <1>2, <1>5, MirrorFacts DEF OpenMirrors, MirrorsIn
<1>7. \A c \in Calls : CallSteps[Turn][c] # "none" => Call(c) \in AllSaved
  BY <1>2, MirrorFacts DEF StepsFit
<1>8. \A c \in By[Turn] : /\ c \in Calls
                          /\ tool[c] = "none" => Over(Turn, c) \/ c \in Unanswered(history)
  BY <1>2, MirrorFacts DEF TaskInMirror
<1> QED BY <1>2, <1>3, <1>4, <1>5, <1>6, <1>7, <1>8

LEMMA AnnounceMirrored ==
  ASSUME Mirrored, [Next]_vars, Announce
  PROVE  Mirrored'
<1> SUFFICES ASSUME Faultless'
             PROVE  InMirror'
  BY MirroredBy
<1>1. /\ pc = "announce" /\ StoreIdle /\ UNCHANGED rolloutVars /\ ~Committing' /\ pc \in Loop
      /\ pc' \in {"announce", "tools"} /\ history' = history /\ Turn' = Turn
  BY DEF Announce, At, StoreIdle, rolloutVars, Committing, Idle, history, Turn, Loop
<1>2. Faultless /\ TypeOK
  BY FaultsStay DEF Mirrored, Traced, Sound, Ordered
<1>3. By' = By
  BY <1>1, RestsAt
<1>4. \A d \in Calls : tool[d] \in {"none", "queued"}
  BY <1>1, <1>2, AtTools DEF ToolsInOrder
<1>5. PICK waiting : waiting = {c \in Unanswered(history) : tool[c] = "none"}
  OBVIOUS
<1>6. CASE waiting = {}
  <2>1. pc' = "tools" /\ UNCHANGED <<tool, steps>>
    BY <1>5, <1>6 DEF Announce
  <2>2. CallSteps' = CallSteps
    BY <2>1 DEF CallSteps
  <2>3. /\ \A d \in Calls : tool'[d] # "none" => CallSteps'[Turn'][d] = "running"
        /\ \A d \in By'[Turn'] : tool'[d] = "none" =>
             CallSteps'[Turn'][d] \in {"completed", "aborted"} \/ d \in Unanswered(history')
    BY <1>1, <1>2, <1>3, <2>1, <2>2, AtTools DEF Over
  <2>4. TaskInMirror'
    BY <1>1, <1>4, <2>1, <2>3 DEF TaskInMirror, Between, Over
  <2> QED BY <1>1, <2>2, <2>4, QuietMirror DEF InMirror
<1>7. CASE waiting # {}
  <2>1. PICK c : c = SetToSeq(waiting)[1] /\ c \in waiting
    BY <1>2, <1>5, <1>7, WaitingIs
  <2>2. /\ steps' = [steps EXCEPT ![Turn][c] = "running"]
        /\ tool' = [tool EXCEPT ![c] = "queued"] /\ pc' = "announce"
    BY <1>1, <1>5, <1>7, <2>1 DEF Announce, OpenStep
  <2>3. c \in Unanswered(history) /\ c \in CallsIn(history) /\ c \in Calls /\ Call(c) \in AllSaved
    BY <1>1, <1>2, <1>5, <2>1, AtTools DEF Unanswered
  <2>4. /\ FilesInMirror' /\ CommitInMirror' /\ CallSteps' = [CallSteps EXCEPT ![Turn][c] = "running"]
    BY <1>1, <1>2, <2>2, <2>3, AtTools, StepChanged
  <2>5. \A d \in Calls : CallSteps'[Turn][d] = IF d = c THEN "running" ELSE CallSteps[Turn][d]
    BY <1>1, <1>2, <2>3, <2>4, AtTools, MirrorFacts
  <2>6. \A d \in Calls : tool'[d] = IF d = c THEN "queued" ELSE tool[d]
    BY <1>1, <1>2, <2>2, AtTools
  <2>7. /\ \A d \in Calls : tool'[d] # "none" => CallSteps'[Turn][d] = "running"
        /\ \A d \in By[Turn] : tool'[d] = "none" =>
             CallSteps'[Turn][d] \in {"completed", "aborted"} \/ d \in Unanswered(history)
    BY <1>1, <1>2, <2>5, <2>6, AtTools DEF Over
  <2>8. TaskInMirror'
    BY <1>1, <1>3, <2>2, <2>7 DEF TaskInMirror, Between, Over
  <2> QED BY <2>4, <2>8 DEF InMirror
<1> QED BY <1>6, <1>7

LEMMA CollectMirrored ==
  ASSUME Mirrored, [Next]_vars, NEW c \in Calls, Collect(c)
  PROVE  Mirrored'
<1> SUFFICES ASSUME Faultless'
             PROVE  InMirror'
  BY MirroredBy
<1>1. pc = "tools" /\ pc' = pc /\ pc \in Loop /\ StoreIdle /\ tool[c] = "done" /\ UNCHANGED steps
      /\ tool' = [tool EXCEPT ![c] = "saved"] /\ \A d \in Calls : tool[d] # "saved"
  BY DEF Collect, At, Loop
<1>2. Faultless /\ Sound
  BY FaultsStay DEF Mirrored, Traced, Sound
<1>3. /\ history \in Seq(Item) /\ WellFormed(history) /\ history = task.context
      /\ tool \in [Calls -> ToolType]
  BY <1>1, <1>2, AtTools
<1>4. c \in Unanswered(history)
  BY <1>1, <1>2, AtTools DEF ToolsInOrder
<1>5. PICK items : items = Append(history, Out(c))
  OBVIOUS
<1>6. Joins(items, history, <<Out(c)>>, Item)
  BY <1>3, <1>5, ItemsAre, AppendsItem
<1>7. Unanswered(items) = Unanswered(history) \ {c}
  BY <1>3, <1>4, <1>6, OutJoins
<1>8. NewItems(items) = <<Out(c)>> /\ IsPrefix(task.context, items)
  BY <1>3, <1>6, RestIs
<1>9. \A x : x \in Range(NewItems(items)) <=> x = Out(c)
  <2>1. PICK one : one = NewItems(items)
    OBVIOUS
  <2>2. DOMAIN one = {1} /\ one[1] = Out(c)
    BY <1>8, <2>1
  <2> QED BY <2>1, <2>2 DEF Range
<1>10. Save(items, task.total, task.step, FALSE, {})
  BY <1>5 DEF Collect
<1>11. \A d \in Calls : Out(d) \in Range(NewItems(items)) => CallSteps[Turn][d] = "running"
  <2>1. \A d \in Calls : Out(d) \in Range(NewItems(items)) => d = c
    BY <1>9, CallShape
  <2> QED BY <1>1, <1>2, <2>1, AtTools
<1>12. /\ FilesInMirror' /\ CommitInMirror' /\ By' = By /\ CallSteps' = CallSteps
       /\ task'.turn = task.turn /\ task'.history = items
       /\ \A d \in CallsOf(commit'.record) : d \in Calls /\ Call(d) \in Range(NewItems(items))
  BY <1>1, <1>8, <1>10, <1>11, SaveMirrors
<1>13. CallsOf(commit'.record) = {}
  <2>1. \A d \in Calls : Call(d) # Out(c)
    BY DEF Call, Out
  <2> QED BY <1>9, <1>12, <2>1
<1>14. history' = items /\ Turn' = Turn
  BY <1>12 DEF history, Turn
<1>15. \A d \in Calls : tool'[d] = IF d = c THEN "saved" ELSE tool[d]
  BY <1>1, <1>3
<1>16. /\ \A d \in Calls : tool'[d] # "none" => CallSteps'[Turn'][d] = "running"
       /\ \A d \in By'[Turn'] : tool'[d] = "none" =>
            CallSteps'[Turn'][d] \in {"completed", "aborted"} \/ d \in Unanswered(history')
  BY <1>1, <1>2, <1>7, <1>12, <1>14, <1>15, AtTools DEF Over
<1>17. \A d \in Calls : tool'[d] = "saved" => \E n \in DOMAIN history' : history'[n] = Out(d)
  <2>1. \E n \in DOMAIN items : items[n] = Out(c)
    BY <1>3, <1>5, ItemsAre, AppendProperties
  <2> QED BY <1>1, <1>14, <1>15, <2>1
<1>18. TaskInMirror'
  BY <1>1, <1>13, <1>16, <1>17 DEF TaskInMirror, Between, Over
<1> QED BY <1>12, <1>18 DEF InMirror

LEMMA FinishStepMirrored ==
  ASSUME Mirrored, [Next]_vars, NEW c \in Calls, FinishStep(c)
  PROVE  Mirrored'
<1> SUFFICES ASSUME Faultless'
             PROVE  InMirror'
  BY MirroredBy
<1>1. /\ pc = "tools" /\ pc \in Loop /\ StoreIdle /\ tool[c] = "saved" /\ UNCHANGED rolloutVars /\ ~Committing'
      /\ steps' = [steps EXCEPT ![Turn][c] = "completed"] /\ tool' = [tool EXCEPT ![c] = "none"]
      /\ \/ pc' = "top" /\ (\A d \in Calls : tool'[d] = "none") /\ task' = [task EXCEPT !.step = @ + 1]
         \/ pc' = "tools" /\ task' = task
  BY DEF FinishStep, At, Loop, StoreIdle, rolloutVars, Committing, Idle
<1>2. Faultless
  BY FaultsStay DEF Mirrored, Traced, Sound
<1>3. history' = history /\ Turn' = Turn /\ By' = By
  <2>1. task'.history = task.history /\ task'.turn = task.turn
    BY <1>1, <1>2, MirrorFacts DEF TaskType
  <2> QED BY <1>1, <2>1, RestsAt DEF history, Turn
<1>4. PICK n \in DOMAIN history : history[n] = Out(c)
  BY <1>1, <1>2, MirrorFacts DEF TaskInMirror
<1>5. Out(c) \in AllSaved
  <2>1. IsAnswer(history[n]) /\ AnswersSaved(AllSaved, history)
    BY <1>1, <1>2, <1>4, AtTools, CallShape
  <2> QED BY <1>4, <2>1 DEF AnswersSaved
<1>6. /\ Call(c) \in AllSaved
      /\ c \in By[Turn] => c \in CallsIn(Latest.context)
  BY <1>1, <1>2, AtTools
<1>7. FilesInMirror' /\ CommitInMirror' /\ CallSteps' = [CallSteps EXCEPT ![Turn][c] = "completed"]
  BY <1>1, <1>5, <1>6, StepChanged
<1>8. \A d \in Calls : CallSteps'[Turn][d] = IF d = c THEN "completed" ELSE CallSteps[Turn][d]
  BY <1>1, <1>2, <1>7, AtTools, MirrorFacts
<1>9. \A d \in Calls : tool'[d] = IF d = c THEN "none" ELSE tool[d]
  BY <1>1, <1>2, AtTools
<1>10. \A d \in Calls : tool'[d] # "none" => CallSteps'[Turn'][d] = "running"
  BY <1>1, <1>2, <1>3, <1>8, <1>9, AtTools
<1>11. \A d \in By'[Turn'] : tool'[d] = "none" =>
         CallSteps'[Turn'][d] \in {"completed", "aborted"} \/ d \in Unanswered(history')
  BY <1>1, <1>2, <1>3, <1>8, <1>9, AtTools DEF Over
<1>12. CASE pc' = "tools"
  <2>1. \A d \in Calls : tool'[d] = "saved" => \E k \in DOMAIN history' : history'[k] = Out(d)
    BY <1>1, <1>2, <1>3, <1>9, MirrorFacts DEF TaskInMirror
  <2>2. TaskInMirror'
    BY <1>1, <1>10, <1>11, <1>12, <2>1 DEF TaskInMirror, Between, Over
  <2> QED BY <1>7, <2>2 DEF InMirror
<1>13. CASE pc' = "top"
  <2>1. \A d \in By'[Turn'] : d \notin Unanswered(history') /\ tool'[d] = "none"
    <3> SUFFICES ASSUME NEW d \in By'[Turn']
                 PROVE  d \notin Unanswered(history') /\ tool'[d] = "none"
      OBVIOUS
    <3>1. d \in Calls /\ tool'[d] = "none"
      BY <1>1, <1>2, <1>3, <1>13, AtTools
    <3>2. tool[d] \in {"none", "saved"}
      BY <1>1, <1>9, <3>1
    <3> QED BY <1>1, <1>2, <1>3, <3>1, <3>2, AtTools DEF ToolsInOrder
  <2>2. \A d \in By'[Turn'] : Over(Turn, d)'
    BY <1>3, <1>11, <2>1 DEF Over
  <2>3. TaskInMirror'
    BY <1>1, <1>13, <2>2 DEF TaskInMirror, Between, Over
  <2> QED BY <1>7, <2>3 DEF InMirror
<1> QED BY <1>1, <1>12, <1>13
-----------------------------------------------------------------------------
(* The end of a Turn                                                       *)
LEMMA CompleteMirrored ==
  ASSUME Mirrored, [Next]_vars, Complete
  PROVE  Mirrored'
<1>1. /\ pc = "complete" /\ pc \in Loop /\ pc' = "left" /\ StoreIdle /\ UNCHANGED steps
      /\ Commit(Updated(Turn, "Completed", {})) \/ UNCHANGED rolloutVars
  BY DEF Complete, At, Loop
<1>2. pc' \notin Between /\ pc' \notin {"announce", "tools", "ending"}
  BY <1>1 DEF Between
<1>3. CASE UNCHANGED rolloutVars
  BY <1>1, <1>2, <1>3, EdgeMirrored DEF rolloutVars
<1>4. CASE Commit(Updated(Turn, "Completed", {}))
  <2> SUFFICES ASSUME Faultless'
               PROVE  InMirror'
    BY MirroredBy
  <2>1. Faultless /\ TaskIsSound
    BY FaultsStay DEF Mirrored, Traced, Sound
  <2>2. Clean(task.context)
    BY <1>1, <2>1 DEF TaskIsSound, HistoryIsSound
  <2>3. \A c \in By[Turn] : MirrorsIn(AllSaved, CallSteps, Turn, c)
    BY <1>1, <2>1, <2>2, AllMirror DEF Between
  <2>4. PICK r : r = Updated(Turn, "Completed", {})
    OBVIOUS
  <2>5. RecordMirrors(AllSaved, By, Latest, r, CallSteps)
    BY <2>3, <2>4 DEF RecordMirrors, Updated
  <2>6. CallSteps' = CallSteps
    BY <1>1 DEF CallSteps
  <2>7. FilesInMirror' /\ CommitInMirror'
    BY <1>4, <2>4, <2>5, <2>6, CommitMirror
  <2> QED BY <1>2, <2>7, NoTaskMirror DEF InMirror
<1> QED BY <1>1, <1>3, <1>4

LEMMA PendingMirrored ==
  ASSUME Mirrored, [Next]_vars, FinishPending
  PROVE  Mirrored'
<1> SUFFICES ASSUME Faultless'
             PROVE  InMirror'
  BY MirroredBy
<1>1. pc = "ending" /\ pc' = "end" /\ commit' = commit
  BY DEF FinishPending, At, rolloutVars
<1>2. Faultless
  BY FaultsStay DEF Mirrored, Traced, Sound
<1>3. \A c \in Calls : tool[c] = "none" /\ c # "compaction" /\ c \in StepNames
  BY <1>1, <1>2, MirrorFacts, TurnAssumption DEF TaskInMirror, NoTools, StepNames
<1>4. PICK opened : opened = {c \in Calls : tool[c] # "none"}
                               \cup (IF task.compacting THEN {"compaction"} ELSE {})
  OBVIOUS
<1>4a. PICK status : steps' = [steps EXCEPT ![Turn] =
         [n \in StepNames |-> IF n \in opened THEN status ELSE @[n]]]
  BY <1>4 DEF FinishPending
<1>5. \A c \in Calls : c \notin opened
  BY <1>3, <1>4
<1>6. steps \in [Turns -> [StepNames ->
         {"none", "running", "completed", "aborted", "failed", "cancelled"}]]
  BY <1>2, MirrorFacts DEF Ordered, TypeOK, LoopType
<1>7. \A t \in Turns, c \in Calls : steps'[t][c] = steps[t][c]
  BY <1>3, <1>4a, <1>5, <1>6
<1>8. CallSteps' = CallSteps
  BY <1>7 DEF CallSteps
<1>9. TaskInMirror'
  BY <1>1, NoTaskMirror DEF Between
<1> QED BY <1>1, <1>8, <1>9, QuietMirror DEF InMirror
-----------------------------------------------------------------------------
LEMMA MirroredInit == Init => Mirrored
<1> SUFFICES ASSUME Init PROVE Mirrored
  OBVIOUS
<1>1. Traced /\ Counted /\ Ordered /\ StoreType(Item)
  BY TracedInit, CountedInit DEF Traced, Sound, Ordered, TypeOK
<1>2. /\ pc = "off" /\ commit = Idle /\ file = <<>> /\ trailing = <<>> /\ ~Committing
      /\ steps = [t \in Turns |-> [n \in StepNames |-> "none"]]
  BY DEF Init, RolloutInit, Committing, Idle
<1>3. CommitInMirror /\ TaskInMirror
  BY <1>2 DEF CommitInMirror, TaskInMirror, Between
<1>4. AllSaved = {} /\ By = [t \in Turns |-> {}]
  <2>1. AllSaved = {}
    BY NothingSaved
  <2>2. \A t \in Turns : By[t] = {}
    BY <2>1, ByIsSaved
  <2> QED BY <2>1, <2>2, ByType
<1>5. Latest = NoTurn(<<>>) /\ Told = EmptyRows
  <2>1. NoTurn(<<>>) \in StateOf(Item) /\ EmptyRows \in RowsType
    BY EmptySeq, NoTurnType, EmptyRowsType
  <2>2. Records = <<>>
    BY <1>2, ConcatEmptySeq, EmptySeq DEF Records, Whole, Torn
  <2> QED BY <2>1, <2>2, ReadsNothing, ProjectsNothing DEF Latest, Told
<1>6. \A t \in Turns, c \in Calls : CallSteps[t][c] = "none"
  BY <1>2 DEF CallSteps, StepNames
<1>7. Latest.turn = 0 /\ Latest.context = <<>> /\ Latest.committed = <<>>
      /\ \A t \in Turns : Told.status[t] = "none"
  BY <1>5 DEF NoTurn, EmptyRows
<1>8. FilesInMirror
  BY <1>4, <1>6, <1>7
     DEF FilesInMirror, FilesMirror, StepsFit, OneOfEach, AnswersSaved, TurnsMirror, OpenMirrors
<1> QED BY <1>1, <1>3, <1>8 DEF Mirrored, InMirror

LEMMA MirroredStep == Mirrored /\ [Next]_vars => Mirrored'
<1> SUFFICES ASSUME Mirrored, [Next]_vars
             PROVE  Mirrored'
  OBVIOUS
<1>1. CASE UNCHANGED vars
  BY <1>1, OthersMirrored
<1>2. CASE TaskStep
  <2>1. ASSUME NEW t \in Turns, Attach(t) \/ TakeUp(t) \/ ActionRecovers(t)
        PROVE  Mirrored'
    BY <2>1, EdgesMirrored
  <2>2. StartTurn \/ EndTurn \/ TaskEnds => Mirrored'
    BY EdgesMirrored
  <2>3. Load \/ Reconcile \/ Repair => Mirrored'
    BY LoadMirrored, ReconcileMirrored, RepairMirrored
  <2>4. /\ Begin \/ BeginFails \/ Top => Mirrored'
        /\ CompactStart \/ CompactDone \/ CompactFails => Mirrored'
        /\ SampleDuplicate \/ SampleFails \/ SampleCancelled => Mirrored'
    BY LoopMirrored
  <2>5. Prompt \/ SampleAnswer \/ SampleRetry => Mirrored'
    BY PromptMirrored, AnswerMirrored, OthersMirrored
  <2>6. ASSUME NEW S \in Responses, SampleCalls(S)
        PROVE  Mirrored'
    BY <2>6, CallsMirrored
  <2>7. ASSUME NEW c \in Calls, Dispatch(c) \/ Collect(c) \/ FinishStep(c)
        PROVE  Mirrored'
    BY <2>7, OthersMirrored, CollectMirrored, FinishStepMirrored
  <2>8. Announce \/ Complete \/ FinishPending => Mirrored'
    BY AnnounceMirrored, CompleteMirrored, PendingMirrored
  <2> QED BY <1>2, <2>1, <2>2, <2>3, <2>4, <2>5, <2>6, <2>7, <2>8 DEF TaskStep
<1>3. CommitStep \/ CommitFails \/ Cancel => Mirrored'
  BY OthersMirrored
<1>4. ASSUME NEW c \in Calls, Return(c)
      PROVE  Mirrored'
  BY <1>4, OthersMirrored
<1>5. ASSUME NEW i \in Inputs, Send(i)
      PROVE  Mirrored'
  BY <1>5, OthersMirrored
<1>6. ASSUME NEW t \in Turns, CancelRow(t)
      PROVE  Mirrored'
  BY <1>6, EdgesMirrored
<1>7. ASSUME NEW survives \in BOOLEAN, Crash(survives)
      PROVE  Mirrored'
  BY <1>7, EdgesMirrored
<1> QED BY <1>1, <1>2, <1>3, <1>4, <1>5, <1>6, <1>7 DEF Next

(* Without a failed write, a call whose Step is over has the output its    *)
(* Step says, one whose Step is not is in the context or on its way there, *)
(* and no Turn completes with any other; wherever a crash came between a   *)
(* record and the Step of it (reconcile_step_projections,                  *)
(* repair_interrupted_tool_calls).                                         *)
THEOREM TurnMirrored == Spec => []Mirrored
<1>1. Spec => []Mirrored
  BY MirroredInit, MirroredStep, PTL DEF Spec
<1> QED BY <1>1

(* The rows run behind the file by the record being projected.             *)
LEMMA CompletedIsTold ==
  ASSUME Mirrored, Faultless, NEW t \in Turns, rows.status[t] = "Completed"
  PROVE  Told.status[t] = "Completed"
<1>1. Settled /\ StoreType(Item) /\ StoreIsInOrder /\ Counted
  BY MirrorFacts DEF StoreIsInOrder, Faultless, Mirrored
<1>2. CASE ~Projecting
  <2>1. trailing = <<>> /\ ~damaged /\ projected = Len(file)
    BY <1>1, <1>2 DEF Settled
  <2>2. Agree(rows, Told)
    BY <1>1, <2>1, ToldType
  <2> QED BY <2>2 DEF Agree
<1>3. CASE Projecting
  <2>1. /\ commit # Idle /\ projected + 1 = Len(file) /\ file[Len(file)] = commit.record
        /\ file \in Seq(RecordOf(Item)) /\ trailing = <<>> /\ projected \in Nat
        /\ Agree(rows, Upto(EmptyRows, file, projected))
    BY <1>1, <1>3 DEF Settled, StoreIsInOrder, Projecting, Idle, StoreType
  <2>2. PICK r \in RecordOf(Item) : r = commit.record
    BY <1>1, <2>1, RecordOfTheLoop
  <2>3. PICK db \in RowsType : db = Upto(EmptyRows, file, projected)
    <3>1. projected \in 0..Len(file)
      BY <2>1, LenProperties
    <3>2. Upto(EmptyRows, file, projected) \in RowsType
      BY <2>1, <3>1, ProjectUpto, EmptyRowsType
    <3> QED BY <3>2
  <2>4. Told = Project(db, r)
    <3>1. Records = file
      BY <1>1, <2>1, WholeType
    <3>2. Len(file) \in 1..Len(file) /\ Len(file) - 1 = projected
      BY <2>1, LenProperties
    <3>3. Upto(EmptyRows, file, Len(file)) = Project(Upto(EmptyRows, file, projected), file[Len(file)])
      BY <2>1, <3>2, ProjectUptoNext
    <3>4. Upto(EmptyRows, file, Len(file)) = Replay(Project, EmptyRows, file)
      BY <2>1, EmptyRowsType, ProjectUpto
    <3> QED BY <2>1, <2>2, <2>3, <3>1, <3>3, <3>4 DEF Told
  <2>5. /\ r.kind = "created" => rows.status[r.turn] = "none"
        /\ r.kind = "updated" => rows.status[r.turn] \in OpenTurn
    BY <1>1, <2>1, <2>2, RecordOfTheLoop
  <2>6. /\ r.kind = "created" => Told.status = [db.status EXCEPT ![r.turn] = "Queued"]
        /\ r.kind = "checkpoint" => Told.status = db.status
        /\ r.kind = "updated" => Told.status = [db.status EXCEPT ![r.turn] = r.status]
    BY <2>4, StatusAfter
  <2>7. r.kind \in {"created", "checkpoint", "updated"}
    BY KindsAre
  <2>8. db.status[t] = "Completed" /\ db.status \in [Turns -> {"none"} \cup OpenTurn \cup TerminalTurn]
    BY <2>1, <2>3, RowsAreARecord DEF Agree
  <2>9. r.kind \in {"created", "updated"} => r.turn # t
    BY <2>5 DEF OpenTurn
  <2> QED BY <2>6, <2>7, <2>8, <2>9
<1> QED BY <1>2, <1>3

(* As long as no write failed, a Turn that has completed has, for each of  *)
(* its calls, a Step that says what the rollout says: "completed" of the   *)
(* tool's output, "aborted" of the one the repair wrote, however a crash   *)
(* parted the record from the Step (TurnEventSink,                         *)
(* reconcile_step_projections).                                            *)
THEOREM TurnStepsMirrorCalls == Spec => []StepsMirrorCalls
<1>1. ASSUME Mirrored PROVE StepsMirrorCalls
  <2> SUFFICES ASSUME NEW t \in Turns, rows.status[t] = "Completed", mishaps.fault = 0,
                      NEW c \in RecordedBy(t)
               PROVE  steps[t][c] = IF DurableAnswer(c) = "result" THEN "completed" ELSE "aborted"
    BY DEF StepsMirrorCalls
  <2>1. Faultless
    BY DEF Faultless
  <2>2. c \in By[t] /\ c \in Calls
    BY ByType DEF RecordedBy
  <2>3. MirrorsIn(AllSaved, CallSteps, t, c)
    BY <1>1, <2>1, <2>2, CompletedIsTold, MirrorFacts DEF TurnsMirror
  <2>4. ~(Out(c) \in AllSaved /\ Aborted(c) \in AllSaved)
    BY <1>1, <2>1, <2>2, MirrorFacts DEF OneOfEach
  <2>5. CallSteps[t][c] = steps[t][c]
    BY <2>2 DEF CallSteps
  <2>6. DurableAnswer(c) = IF Out(c) \in AllSaved THEN "result"
                           ELSE IF Aborted(c) \in AllSaved THEN "aborted" ELSE "none"
    BY DEF DurableAnswer, AllSaved
  <2> QED BY <2>3, <2>4, <2>5, <2>6 DEF MirrorsIn
<1>2. Spec => []Mirrored
  BY TurnMirrored
<1> QED BY <1>1, <1>2, PTL
=============================================================================
