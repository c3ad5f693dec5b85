--------------------------- MODULE TurnLoop_proofs ---------------------------
(***************************************************************************)
(* The types of TurnLoop, the order in which a Turn, its task and its      *)
(* records come, and the calls of a context.                               *)
(*                                                                         *)
(* Every step keeps the types (LoopTypeStep), and what the task does to    *)
(* the rows and the rollout is one of the Store's actions (StoreDone), so  *)
(* that the lemmas of AgentRollout_proofs apply.  Of the inductive         *)
(* invariant Ordered, the properties of the projection and of claims are   *)
(* consequences.  For it a step of the task is Working (it may begin a     *)
(* commit of its own Turn), Steady (another party's step, which leaves the *)
(* task where it is) or at the edge of a Turn, where the lemmas go by      *)
(* action.  Sound adds that each call in a context has its one output, and *)
(* Traced what a call's way through tools and records is.                  *)
(***************************************************************************)
EXTENDS TurnLoop, AgentRollout_proofs

(* ModelInputItem                                                          *)
Item ==
  ({"ask", "answer"} \X Turns) \cup ({"message", "interrupt", "finish"} \X Inputs)
    \cup ({"call", "out", "aborted"} \X Calls) \cup ({"summary", "final"} \X {0})

Labels ==
  {"off", "start", "load", "reconcile", "repair", "begin", "top", "window",
   "compacting", "prompt", "sample", "announce", "tools", "complete", "ending",
   "end", "left"}

TaskType ==
  [turn : Turns \cup {0}, resumed : BOOLEAN, history : Seq(Item), context : Seq(Item),
   reason : {"none", "compaction"}, known : SUBSET Calls, step : Int, last : BOOLEAN,
   final : BOOLEAN, acks : FewInputs, retry : Nat, wasted : Nat, total : Nat,
   compacting : BOOLEAN, verdict : {"none", "Failed", "Cancelled", "Interrupted"}]

LoopType ==
  /\ pc \in Labels
  /\ task \in TaskType
  /\ pc # "off" => Turn \in Turns
  /\ tool \in [Calls -> {"none", "queued", "running", "done", "saved"}]
  /\ cancelled \in BOOLEAN
  /\ steps \in [Turns -> [StepNames ->
       {"none", "running", "completed", "aborted", "failed", "cancelled"}]]
  /\ ended \subseteq Turns
  /\ ran \in [Calls -> Nat]
  /\ produced \subseteq Calls
  /\ spent \in Nat
  /\ pc \in {"ending", "end"} => task.verdict # "none"

TypeOK == StoreType(Item) /\ LoopType
-----------------------------------------------------------------------------
(* The sequences the loop makes of sets                                    *)

LEMMA SetToSeqIs ==
  ASSUME NEW S, IsFiniteSet(S)
  PROVE  /\ Cardinality(S) \in Nat
         /\ SetToSeq(S) \in [1..Cardinality(S) -> S]
         /\ IsInjective(SetToSeq(S))
         /\ \A x \in S : \E n \in 1..Cardinality(S) : SetToSeq(S)[n] = x
<1> DEFINE C == Cardinality(S)
<1>1. C \in Nat /\ ExistsBijection(1..C, S)
  BY FS_CardinalityType
<1>2. \E f \in [1..C -> S] : IsInjective(f)
  BY <1>1 DEF ExistsBijection, Bijection, Injection
<1>3. SetToSeq(S) \in [1..C -> S] /\ IsInjective(SetToSeq(S))
  BY <1>2 DEF SetToSeq
<1>4. SetToSeq(S) \in Surjection(1..C, S)
  <2>1. SetToSeq(S) \in Injection(1..C, S)
    BY <1>3 DEF Injection
  <2>2. Cardinality(1..C) = C
    <3>1. 1 \in Int /\ C \in Int /\ (IF 1 > C THEN 0 ELSE C - 1 + 1) = C
      BY <1>1, SMT
    <3> QED BY <3>1, FS_Interval
  <2> QED BY <2>1, <2>2, FS_Injection
<1> QED BY <1>1, <1>3, <1>4 DEF Surjection

EachOf(k, S) == [n \in DOMAIN SetToSeq(S) |-> <<k, SetToSeq(S)[n]>>]

LEMMA EachIs == \A S : Each(Call, S) = EachOf("call", S) /\ Each(Aborted, S) = EachOf("aborted", S)
BY DEF Each, EachOf, Call, Aborted

LEMMA EachType ==
  ASSUME NEW S \in SUBSET Calls, IsFiniteSet(S), NEW k \in {"call", "aborted"}
  PROVE  /\ EachOf(k, S) \in Seq(Item)
         /\ Len(EachOf(k, S)) = Cardinality(S)
         /\ \A n \in DOMAIN EachOf(k, S) : \E c \in S : EachOf(k, S)[n] = <<k, c>>
         /\ \A c \in S : \E n \in DOMAIN EachOf(k, S) : EachOf(k, S)[n] = <<k, c>>
         /\ IsInjective(EachOf(k, S))
<1> DEFINE C == Cardinality(S)
           s == SetToSeq(S)
           e == EachOf(k, S)
<1>1. C \in Nat /\ s \in [1..C -> S] /\ IsInjective(s)
      /\ \A x \in S : \E n \in 1..C : s[n] = x
  BY SetToSeqIs
<1>2. DOMAIN e = 1..C /\ \A n \in 1..C : e[n] = <<k, s[n]>> /\ s[n] \in S
  BY <1>1 DEF EachOf
<1>3. \A c \in S : <<k, c>> \in Item
  BY DEF Item
<1>4. e \in [1..C -> Item]
  BY <1>1, <1>2, <1>3 DEF EachOf
<1>5. e \in Seq(Item) /\ Len(e) = C
  BY <1>1, <1>4
<1>6. IsInjective(e)
  BY <1>1, <1>2 DEF IsInjective
<1> QED BY <1>1, <1>2, <1>5, <1>6

(* Numbers in their order                                                  *)
Upward(S, n) == {j \in S : j <= n}

LEMMA NthIs ==
  ASSUME NEW S \in SUBSET Nat, IsFiniteSet(S)
  PROVE  /\ Cardinality(S) \in Nat
         /\ \A n \in 1..Cardinality(S) : Nth(S, n) \in S /\ Cardinality(Upward(S, Nth(S, n))) = n
<1> DEFINE C == Cardinality(S)
           rank == [i \in S |-> Cardinality(Upward(S, i))]
<1>1. C \in Nat
  BY FS_CardinalityType
<1>2. \A i \in S : IsFiniteSet(Upward(S, i)) /\ Cardinality(Upward(S, i)) \in 1..C
  <2> TAKE i \in S
  <2>1. Upward(S, i) \in SUBSET S /\ i \in Upward(S, i)
    BY DEF Upward
  <2>2. IsFiniteSet(Upward(S, i)) /\ Cardinality(Upward(S, i)) <= C
    BY <2>1, FS_Subset
  <2>3. Cardinality(Upward(S, i)) \in Nat /\ Cardinality(Upward(S, i)) # 0
    BY <2>1, <2>2, FS_CardinalityType, FS_EmptySet
  <2> QED BY <1>1, <2>2, <2>3
<1>3. \A i, j \in S : i < j => Cardinality(Upward(S, i)) # Cardinality(Upward(S, j))
  <2> SUFFICES ASSUME NEW i \in S, NEW j \in S, i < j,
                      Cardinality(Upward(S, i)) = Cardinality(Upward(S, j))
               PROVE  FALSE
    OBVIOUS
  <2>1. Upward(S, i) \in SUBSET Upward(S, j) /\ j \in Upward(S, j) /\ j \notin Upward(S, i)
    <3>1. i \in Nat /\ j \in Nat /\ ~(j <= i) /\ j <= j
      BY SMT
    <3>2. \A x \in S : x <= i => x <= j
      <4>1. \A x \in Nat : x <= i => x <= j
        BY <3>1, SMT
      <4> QED BY <4>1
    <3> QED BY <3>1, <3>2 DEF Upward
  <2>2. Upward(S, i) = Upward(S, j)
    BY <1>2, <2>1, FS_Subset
  <2> QED BY <2>1, <2>2
<1>4. rank \in Injection(S, 1..C)
  <2>1. rank \in [S -> 1..C]
    BY <1>2
  <2>2. \A i, j \in S : rank[i] = rank[j] => i = j
    <3>1. \A i, j \in S : i < j \/ j < i \/ i = j
      BY SMT
    <3> QED BY <1>3, <3>1
  <2> QED BY <2>1, <2>2 DEF Injection, IsInjective
<1>5. rank \in Surjection(S, 1..C)
  <2>1. IsFiniteSet(1..C) /\ Cardinality(1..C) = C
    <3>1. 1 \in Int /\ C \in Int /\ (IF 1 > C THEN 0 ELSE C - 1 + 1) = C
      BY <1>1, SMT
    <3> QED BY <3>1, FS_Interval
  <2> HIDE DEF rank
  <2> QED BY <1>4, <2>1, FS_Injection
<1>6. ASSUME NEW n \in 1..C PROVE \E i \in S : Cardinality({j \in S : j <= i}) = n
  BY <1>5 DEF Surjection, Upward
<1> QED BY <1>1, <1>6 DEF Nth, Upward

LEMMA MaxIs ==
  ASSUME NEW S \in SUBSET Nat, IsFiniteSet(S), S # {}
  PROVE  Max(S) \in S
<1> DEFINE C == Cardinality(S)
<1>1. C \in Nat /\ C # 0
  BY FS_CardinalityType, FS_EmptySet
<1>2. PICK x \in S : Cardinality(Upward(S, x)) = C
  <2>1. C \in 1..C
    BY <1>1, SMT
  <2> QED BY <2>1, NthIs
<1>3. Upward(S, x) = S
  <2>1. Upward(S, x) \in SUBSET S
    BY DEF Upward
  <2> QED BY <1>2, <2>1, FS_Subset
<1>4. \A y \in S : x >= y
  <2>1. \A y \in S : y <= x
    BY <1>3 DEF Upward
  <2>2. \A y \in S : y \in Nat /\ x \in Nat
    OBVIOUS
  <2> QED BY <2>1, <2>2, SMT
<1> QED BY <1>4 DEF Max

LEMMA MinIs ==
  ASSUME NEW S \in SUBSET Nat, IsFiniteSet(S), S # {}
  PROVE  Min(S) \in S
<1> DEFINE C == Cardinality(S)
<1>1. C \in Nat /\ C # 0
  BY FS_CardinalityType, FS_EmptySet
<1>2. PICK x \in S : Cardinality(Upward(S, x)) = 1
  <2>1. 1 \in 1..C
    BY <1>1, SMT
  <2> QED BY <2>1, NthIs
<1>3. \A y \in S : x <= y
  <2> SUFFICES ASSUME NEW y \in S, ~(x <= y) PROVE FALSE
    OBVIOUS
  <2>1. Upward(S, x) \in SUBSET S /\ x \in Nat /\ y \in Nat /\ x \in Upward(S, x) /\ y \in Upward(S, x)
    <3>1. x \in Nat /\ y \in Nat /\ x <= x /\ y <= x
      BY SMT
    <3> QED BY <3>1 DEF Upward
  <2>2. IsFiniteSet({x, y}) /\ Cardinality({x, y}) = 2
    <3>1. IsFiniteSet({x}) /\ Cardinality({x}) = 1
      BY FS_Singleton
    <3>2. y \notin {x}
      <4>1. x # y
        BY <2>1, SMT
      <4> QED BY <4>1
    <3>3. IsFiniteSet({x} \cup {y}) /\ Cardinality({x} \cup {y}) = 1 + 1
      BY <3>1, <3>2, FS_AddElement
    <3>4. {x} \cup {y} = {x, y}
      OBVIOUS
    <3> QED BY <3>3, <3>4
  <2>3. IsFiniteSet(Upward(S, x)) /\ {x, y} \in SUBSET Upward(S, x)
    BY <2>1, FS_Subset
  <2>4. Cardinality({x, y}) <= Cardinality(Upward(S, x))
    BY <2>3, FS_Subset
  <2> QED BY <1>2, <2>2, <2>4
<1> QED BY <1>3 DEF Min

SaidOf(S) == [n \in 1..Cardinality(S) |-> <<Kind[Nth(S, n)], Nth(S, n)>>]

LEMMA SaidType ==
  ASSUME NEW S \in SUBSET Inputs, IsFiniteSet(S)
  PROVE  /\ InOrder(Said, S) = SaidOf(S) /\ SaidOf(S) \in Seq(Item)
         /\ Len(SaidOf(S)) = Cardinality(S)
         /\ \A n \in DOMAIN SaidOf(S) : Nth(S, n) \in S /\ SaidOf(S)[n] = Said(Nth(S, n))
         /\ \A m, n \in DOMAIN SaidOf(S) : SaidOf(S)[m] = SaidOf(S)[n] => m = n
<1> DEFINE C == Cardinality(S)
<1>1. C \in Nat /\ \A n \in 1..C : Nth(S, n) \in S /\ Cardinality(Upward(S, Nth(S, n))) = n
  BY RolloutAssumption, NthIs
<1>2. InOrder(Said, S) = SaidOf(S)
  BY DEF InOrder, SaidOf, Said
<1>3. \A i \in Inputs : <<Kind[i], i>> \in Item
  BY RolloutAssumption DEF Item
<1>4. SaidOf(S) \in [1..C -> Item]
  BY <1>1, <1>3 DEF SaidOf
<1>5. SaidOf(S) \in Seq(Item) /\ Len(SaidOf(S)) = C /\ DOMAIN SaidOf(S) = 1..C
  BY <1>1, <1>4
<1>6. \A n \in 1..C : SaidOf(S)[n] = Said(Nth(S, n)) /\ SaidOf(S)[n][2] = Nth(S, n)
  BY DEF SaidOf, Said
<1>7. ASSUME NEW m \in 1..C, NEW n \in 1..C, SaidOf(S)[m] = SaidOf(S)[n] PROVE m = n
  <2>1. Nth(S, m) = Nth(S, n)
    BY <1>6, <1>7
  <2> QED BY <1>1, <2>1
<1> QED BY <1>1, <1>2, <1>5, <1>6, <1>7

IsAsk(item) == item[1] \in UserItems
Newest(items) ==
  LET asks   == {n \in DOMAIN items : items[n][1] \in UserItems}
      fitting == {n \in asks : Size(items[n]) <= KeepTokens}
      Member(n) == items[n]
      Since(n) == {m \in asks : n <= m /\ \E k \in fitting : m <= k}
  IN {n \in asks : /\ \E k \in fitting : n <= k
                    /\ Tokens(InOrder(Member, Since(n))) <= KeepTokens}
ItemsAt(items, S) == [n \in 1..Cardinality(S) |-> items[Nth(S, n)]]

LEMMA CompactedIs ==
  ASSUME NEW items \in Seq(Item)
  PROVE  /\ Compacted(items) = Append(ItemsAt(items, Newest(items)), Summary)
         /\ ItemsAt(items, Newest(items)) \in Seq(Item) /\ Summary \in Item
         /\ Compacted(items) \in Seq(Item)
         /\ LET kept == ItemsAt(items, Newest(items))
            IN /\ \A n \in DOMAIN kept : /\ Nth(Newest(items), n) \in DOMAIN items
                                         /\ kept[n] = items[Nth(Newest(items), n)]
                                         /\ IsAsk(kept[n])
               /\ \A m, n \in DOMAIN kept :
                    Nth(Newest(items), m) = Nth(Newest(items), n) => m = n
<1> DEFINE S == Newest(items)
           C == Cardinality(S)
           kept == ItemsAt(items, S)
<1>1. Len(items) \in Nat /\ DOMAIN items = 1..Len(items)
  BY LenProperties
<1>2. S \in SUBSET (1..Len(items)) /\ \A n \in S : IsAsk(items[n])
  BY <1>1 DEF Newest, IsAsk
<1>3. IsFiniteSet(S) /\ S \in SUBSET Nat
  <2>1. IsFiniteSet(1..Len(items))
    BY <1>1, FS_Interval
  <2>2. 1..Len(items) \subseteq Nat
    BY <1>1
  <2> QED BY <1>2, <2>1, <2>2, FS_Subset
<1>4. C \in Nat /\ \A n \in 1..C : Nth(S, n) \in S /\ Cardinality(Upward(S, Nth(S, n))) = n
  BY <1>3, NthIs
<1>5. Compacted(items) = Append(kept, Summary)
  BY DEF Compacted, Newest, ItemsAt, InOrder
<1>6. \A n \in 1..C : /\ Nth(S, n) \in 1..Len(items) /\ kept[n] = items[Nth(S, n)]
                      /\ IsAsk(kept[n]) /\ kept[n] \in Item
  BY <1>1, <1>2, <1>4, ElementOfSeq DEF ItemsAt
<1>7. kept \in [1..C -> Item] /\ DOMAIN kept = 1..C
  BY <1>6 DEF ItemsAt
<1>8. kept \in Seq(Item)
  BY <1>4, <1>7
<1>9. Summary \in Item
  BY DEF Summary, Item
<1>10. Compacted(items) \in Seq(Item)
  BY <1>5, <1>8, <1>9, AppendProperties
<1>11. \A m, n \in 1..C : Nth(S, m) = Nth(S, n) => m = n
  BY <1>4
<1> QED BY <1>1, <1>5, <1>6, <1>7, <1>8, <1>9, <1>10, <1>11

(* What a trim leaves: the first item, and all from the k-th on            *)
Cut(items, k) == SubSeq(items, 1, 1) \o SubSeq(items, k, Len(items))

LEMMA TrimIs ==
  ASSUME NEW items \in Seq(Item), NEW tokens
  PROVE  \/ Trim(items, tokens) = items
         \/ /\ Len(items) > 2
            /\ \E k \in 2..(Len(items) + 1) : Trim(items, tokens) = Cut(items, k)
<1> DEFINE L == Len(items)
           first == SubSeq(items, 1, 1)
           From(n) == SubSeq(items, n, Len(items))
           fits  == {n \in 2..Len(items) : Tokens(first \o From(n)) <= tokens} \cup {Len(items)}
           whole == {n \in Min(fits)..Len(items) : items[n][1] \notin {"out", "aborted"}}
           ends  == whole \cup {Len(items) + 1}
<1>1. CASE Tokens(items) <= tokens \/ Len(items) <= 2
  BY <1>1 DEF Trim
<1>2. CASE ~(Tokens(items) <= tokens \/ Len(items) <= 2)
  <2>1. L \in Nat /\ L > 2
    BY <1>2, LenProperties
  <2>2. Trim(items, tokens) = Cut(items, Min(ends))
    BY <1>2 DEF Trim, Cut
  <2>3. Min(fits) \in 2..L
    <3>1. fits \in SUBSET (2..L) /\ fits # {}
      BY <2>1
    <3>2. IsFiniteSet(2..L) /\ 2..L \subseteq Nat
      BY <2>1, FS_Interval
    <3> HIDE DEF fits
    <3>3. IsFiniteSet(fits) /\ fits \in SUBSET Nat
      BY <3>1, <3>2, FS_Subset
    <3>4. Min(fits) \in fits
      BY <3>1, <3>3, MinIs
    <3> QED BY <3>1, <3>4
  <2>4. Min(ends) \in 2..(L + 1)
    <3>1. ends \in SUBSET (2..(L + 1)) /\ ends # {}
      <4> HIDE DEF fits
      <4> QED BY <2>1, <2>3
    <3>2. IsFiniteSet(2..(L + 1)) /\ 2..(L + 1) \subseteq Nat
      BY <2>1, FS_Interval
    <3> HIDE DEF ends
    <3>3. IsFiniteSet(ends) /\ ends \in SUBSET Nat
      BY <3>1, <3>2, FS_Subset
    <3>4. Min(ends) \in ends
      BY <3>1, <3>3, MinIs
    <3> QED BY <3>1, <3>4
  <2> HIDE DEF ends
  <2> QED BY <2>1, <2>2, <2>4
<1> QED BY <1>1, <1>2

LEMMA CutIs ==
  ASSUME NEW items \in Seq(Item), Len(items) > 2, NEW k \in 2..(Len(items) + 1)
  PROVE  /\ Cut(items, k) \in Seq(Item) /\ Len(Cut(items, k)) = Len(items) + 2 - k
         /\ Cut(items, k)[1] = items[1]
         /\ \A n \in 2..(Len(items) + 2 - k) : Cut(items, k)[n] = items[n + k - 2]
<1>1. PICK head, rest : head = SubSeq(items, 1, 1) /\ rest = SubSeq(items, k, Len(items))
  OBVIOUS
<1>2. PICK L : L = Len(items)
  OBVIOUS
<1>3. L \in Nat /\ L > 2 /\ k \in 2..(L + 1) /\ \A i \in 1..L : items[i] \in Item
  BY <1>2, LenProperties, ElementOfSeq
<1>4. head \in Seq(Item) /\ Len(head) = 1 /\ head[1] = items[1]
  <2>1. 1 \in Int /\ (\A i \in 1..1 : items[i] \in Item) /\ (IF 1 <= 1 THEN 1 - 1 + 1 ELSE 0) = 1
        /\ 1 \in 1..(1 - 1 + 1) /\ 1 + 1 - 1 = 1
    BY <1>3
  <2> QED BY <1>1, <2>1, SubSeqProperties
<1>5. /\ rest \in Seq(Item) /\ Len(rest) = L - k + 1
      /\ \A i \in 1..(L - k + 1) : rest[i] = items[k + i - 1]
  <2>1. k \in Int /\ L \in Int /\ (\A i \in k..L : items[i] \in Item)
        /\ (IF k <= L THEN L - k + 1 ELSE 0) = L - k + 1
    BY <1>3
  <2> QED BY <1>1, <1>2, <2>1, SubSeqProperties
<1>6. PICK u : u = head \o rest
  OBVIOUS
<1>7. /\ u \in Seq(Item) /\ Len(u) = 1 + (L - k + 1)
      /\ \A i \in 1..(1 + (L - k + 1)) : u[i] = IF i <= 1 THEN head[i] ELSE rest[i - 1]
  <2>1. /\ u \in Seq(Item) /\ Len(u) = Len(head) + Len(rest)
        /\ \A i \in 1..(Len(head) + Len(rest)) :
             u[i] = IF i <= Len(head) THEN head[i] ELSE rest[i - Len(head)]
    BY <1>4, <1>5, <1>6, ConcatProperties
  <2> QED BY <1>4, <1>5, <2>1
<1>8. u[1] = items[1]
  <2>1. 1 \in 1..(1 + (L - k + 1))
    BY <1>3
  <2> QED BY <1>4, <1>7, <2>1
<1>9. ASSUME NEW n \in 2..(L + 2 - k) PROVE u[n] = items[n + k - 2]
  <2>1. n \in 1..(1 + (L - k + 1)) /\ ~(n <= 1) /\ n - 1 \in 1..(L - k + 1)
        /\ k + (n - 1) - 1 = n + k - 2
    BY <1>3
  <2> QED BY <1>5, <1>7, <2>1
<1>10. Cut(items, k) = u /\ Len(u) = L + 2 - k
  BY <1>1, <1>3, <1>6, <1>7 DEF Cut
<1> QED BY <1>2, <1>7, <1>8, <1>9, <1>10

LEMMA TrimType == \A items \in Seq(Item) : \A tokens : Trim(items, tokens) \in Seq(Item)
  BY TrimIs, CutIs

(* A thinned sequence has the same first item, and the same last ones.     *)
Thins(u, a) ==
  /\ u \in Seq(Item) /\ a \in Seq(Item)
  /\ 1 \in DOMAIN u /\ 1 \in DOMAIN a /\ u[1] = a[1]
  /\ \E k \in Nat :
       /\ \A n \in DOMAIN u : n # 1 => n + k \in DOMAIN a /\ u[n] = a[n + k]
       /\ \A n \in DOMAIN a : n > k + 1 => n - k \in DOMAIN u

LEMMA TrimThins ==
  ASSUME NEW items \in Seq(Item), items # <<>>, NEW tokens
  PROVE  Thins(Trim(items, tokens), items)
<1>1. PICK u, L : u = Trim(items, tokens) /\ L = Len(items)
  OBVIOUS
<1>2. L \in Nat /\ L # 0 /\ DOMAIN items = 1..L /\ u \in Seq(Item)
  BY <1>1, LenProperties, EmptySeq, TrimType
<1>3. CASE u = items
  <2>1. 1 \in DOMAIN items /\ \A n \in DOMAIN items : n + 0 = n /\ n - 0 = n
    BY <1>2
  <2> QED BY <1>1, <1>2, <1>3, <2>1 DEF Thins
<1>4. ASSUME L > 2, NEW k \in 2..(L + 1), u = Cut(items, k) PROVE Thins(u, items)
  <2>1. /\ Len(u) = L + 2 - k /\ u[1] = items[1]
        /\ \A n \in 2..(L + 2 - k) : u[n] = items[n + k - 2]
    BY <1>1, <1>4, CutIs
  <2>2. DOMAIN u = 1..(L + 2 - k)
    BY <1>2, <2>1, LenProperties
  <2>3. 1 \in DOMAIN u /\ 1 \in DOMAIN items /\ k - 2 \in Nat
    BY <1>2, <1>4, <2>2
  <2>4. ASSUME NEW n \in DOMAIN u, n # 1 PROVE n + (k - 2) \in DOMAIN items /\ u[n] = items[n + (k - 2)]
    <3>1. n \in 2..(L + 2 - k) /\ n + (k - 2) \in 1..L /\ n + (k - 2) = n + k - 2
      BY <1>2, <1>4, <2>2, <2>4
    <3> QED BY <1>2, <2>1, <3>1
  <2>5. ASSUME NEW n \in DOMAIN items, n > (k - 2) + 1 PROVE n - (k - 2) \in DOMAIN u
    BY <1>2, <1>4, <2>2, <2>5
  <2> QED BY <1>2, <2>1, <2>3, <2>4, <2>5 DEF Thins
<1> QED BY <1>1, <1>3, <1>4, TrimIs

LEMMA ItemsAre ==
  /\ \A t \in Turns : Ask(t) \in Item /\ Answer(t) \in Item
  /\ \A i \in Inputs : Said(i) \in Item
  /\ \A c \in Calls : Call(c) \in Item /\ Out(c) \in Item /\ Aborted(c) \in Item
  /\ Summary \in Item /\ FinishNow \in Item
BY RolloutAssumption DEF Item, Ask, Answer, Said, Call, Out, Aborted, Summary, FinishNow

(* Only finitely many calls are in a history.                              *)
LEMMA CallsAreFew ==
  ASSUME NEW items \in Seq(Item)
  PROVE  /\ CallsIn(items) \in SUBSET Calls /\ Answered(items) \in SUBSET Calls
         /\ Unanswered(items) \in SUBSET Calls /\ IsFiniteSet(Unanswered(items))
<1> DEFINE U == CallsIn(items)
           f == [n \in {n \in DOMAIN items : items[n][1] = "call"} |-> items[n][2]]
<1>1. Len(items) \in Nat /\ DOMAIN items = 1..Len(items)
  BY LenProperties
<1>2. U \in SUBSET Calls /\ Answered(items) \in SUBSET Calls
  BY DEF CallsIn, Answered, Of
<1>3. \A c \in U : \E n \in DOMAIN items : items[n] = <<"call", c>>
  BY DEF CallsIn, Of
<1>4. IsFiniteSet(DOMAIN items)
  BY <1>1, FS_Interval
<1>5. IsFiniteSet({n \in DOMAIN items : items[n][1] = "call"})
  BY <1>4, FS_Subset
<1>6. IsFiniteSet({f[n] : n \in DOMAIN f})
  <2>1. f \in Surjection(DOMAIN f, {f[n] : n \in DOMAIN f})
    BY DEF Surjection
  <2>2. IsFiniteSet(DOMAIN f)
    BY <1>5
  <2> HIDE DEF f
  <2> QED BY <2>1, <2>2, FS_Surjection
<1>7. U \in SUBSET {f[n] : n \in DOMAIN f}
  <2> SUFFICES ASSUME NEW c \in U PROVE \E n \in DOMAIN f : f[n] = c
    OBVIOUS
  <2>1. PICK n \in DOMAIN items : items[n] = <<"call", c>>
    BY <1>3
  <2> QED BY <2>1
<1>8. IsFiniteSet(U)
  BY <1>6, <1>7, FS_Subset
<1>9. Unanswered(items) \in SUBSET U
  BY DEF Unanswered
<1> QED BY <1>2, <1>8, <1>9, FS_Subset
-----------------------------------------------------------------------------
(* The records the loop commits                                            *)

NewItems(items) ==
  IF IsPrefix(task.context, items)
    THEN SubSeq(items, Len(task.context) + 1, Len(items)) ELSE items
SavedRecord(items, total, step, last, acks) ==
  Checkpoint(Turn, ~IsPrefix(task.context, items), NewItems(items), step, total, last, acks)
SavedTask(items, total, last) ==
  [task EXCEPT !.history = items, !.context = items, !.total = total,
               !.reason = "none", !.last = last, !.acks = {}, !.retry = 0, !.wasted = 0]

LEMMA SaveIs ==
  ASSUME NEW items, NEW total, NEW step, NEW last, NEW acks
  PROVE  Save(items, total, step, last, acks) <=>
           /\ Commit(SavedRecord(items, total, step, last, acks))
           /\ task' = SavedTask(items, total, last)
BY DEF Save, SavedRecord, SavedTask, NewItems

LEMMA NewItemsType ==
  ASSUME NEW items \in Seq(Item), task.context \in Seq(Item)
  PROVE  /\ NewItems(items) \in Seq(Item)
         /\ IsPrefix(task.context, items) => task.context \o NewItems(items) = items
<1> DEFINE c == task.context
           rest == SubSeq(items, Len(c) + 1, Len(items))
<1>1. Len(items) \in Nat /\ Len(c) \in Nat
  BY LenProperties
<1>2. rest \in Seq(Item)
  <2>1. Len(c) + 1 \in Int /\ Len(items) \in Int
    BY <1>1
  <2>2. \A i \in (Len(c) + 1)..Len(items) : items[i] \in Item
    BY <1>1, ElementOfSeq
  <2> QED BY <2>1, <2>2, SubSeqProperties
<1>3. ASSUME IsPrefix(c, items) PROVE c \o rest = items
  <2>1. Len(c) <= Len(items) /\ SubSeq(c, 1, Len(c)) = SubSeq(items, 1, Len(c))
    BY <1>3 DEF IsPrefix
  <2>2. c = SubSeq(items, 1, Len(c))
    BY <2>1, SubSeqFull
  <2>3. SubSeq(items, 1, Len(c)) \o rest = SubSeq(items, 1, Len(items))
    <3>1. 1 \in 1..(Len(items) + 1) /\ Len(c) \in (1 - 1)..Len(items)
          /\ Len(items) \in Len(c)..Len(items)
      BY <1>1, <2>1, SMT
    <3> QED BY <3>1, ConcatAdjacentSubSeq
  <2> QED BY <2>2, <2>3, SubSeqFull
<1> QED BY <1>2, <1>3 DEF NewItems

LEMMA TaskIsARecord ==
  ASSUME task \in TaskType
  PROVE  /\ Turn \in Turns \cup {0} /\ task.resumed \in BOOLEAN
         /\ task.history \in Seq(Item) /\ task.context \in Seq(Item)
         /\ task.reason \in {"none", "compaction"} /\ task.known \in SUBSET Calls
         /\ task.step \in Int /\ task.last \in BOOLEAN /\ task.final \in BOOLEAN
         /\ task.acks \in FewInputs /\ task.retry \in Nat /\ task.wasted \in Nat
         /\ task.total \in Nat /\ task.compacting \in BOOLEAN
         /\ task.verdict \in {"none", "Failed", "Cancelled", "Interrupted"}
BY DEF TaskType, Turn

LEMMA NoInputsAreFew == {} \in FewInputs
BY FS_EmptySet DEF FewInputs

LEMMA RecordTypes ==
  /\ \A t \in Turns : Created(t) \in RecordOf(Item)
  /\ \A t \in Turns, status \in {"Running"} \cup TerminalTurn, acks \in FewInputs :
       Updated(t, status, acks) \in RecordOf(Item)
  /\ \A t \in Turns, replace \in BOOLEAN, items \in Seq(Item), step \in Int, used \in Nat,
        last \in BOOLEAN, acks \in FewInputs :
       Checkpoint(t, replace, items, step, used, last, acks) \in RecordOf(Item)
BY DEF RecordOf, CreatedRecord, CheckpointRecord, UpdatedRecord, Created, Updated, Checkpoint

LEMMA SaveTypes ==
  ASSUME task \in TaskType, Turn \in Turns, NEW items \in Seq(Item), NEW total \in Nat,
         NEW step \in Int, NEW last \in BOOLEAN, NEW acks \in FewInputs
  PROVE  /\ SavedRecord(items, total, step, last, acks) \in RecordOf(Item)
         /\ SavedTask(items, total, last) \in TaskType
<1>1. SavedRecord(items, total, step, last, acks) \in RecordOf(Item)
  <2>1. NewItems(items) \in Seq(Item)
    BY TaskIsARecord, NewItemsType
  <2>2. (~IsPrefix(task.context, items)) \in BOOLEAN
    <3>1. CASE IsPrefix(task.context, items)
      BY <3>1
    <3>2. CASE ~IsPrefix(task.context, items)
      BY <3>2
    <3> QED BY <3>1, <3>2
  <2> QED BY <2>1, <2>2, RecordTypes DEF SavedRecord
<1>2. SavedTask(items, total, last) \in TaskType
  BY NoInputsAreFew DEF SavedTask, TaskType
<1> QED BY <1>1, <1>2

NewTask(t) == [NoTask EXCEPT !.turn = t]

LEMMA NoTaskType ==
  /\ NoTask \in TaskType /\ NoTask.turn = 0
  /\ NoTask.history = <<>> /\ NoTask.context = <<>> /\ NoTask.known = {}
  /\ NoTask.total = 0 /\ NoTask.wasted = 0 /\ NoTask.acks = {} /\ NoTask.reason = "none"
  /\ NoTask.last = FALSE /\ NoTask.verdict = "none" /\ NoTask.compacting = FALSE
<1>1. <<>> \in Seq(Item) /\ {} \in FewInputs /\ {} \in SUBSET Calls /\ 0 \in Nat /\ 0 \in Int
  BY EmptySeq, NoInputsAreFew
<1> QED BY <1>1 DEF NoTask, TaskType

LEMMA NewTaskType ==
  ASSUME NEW t \in Turns
  PROVE  /\ NewTask(t) \in TaskType /\ NewTask(t).turn = t
         /\ NewTask(t).history = <<>> /\ NewTask(t).context = <<>>
         /\ NewTask(t).known = {} /\ NewTask(t).acks = {}
         /\ NewTask(t).total = 0 /\ NewTask(t).wasted = 0 /\ NewTask(t).reason = "none"
         /\ NewTask(t).last = FALSE /\ NewTask(t).verdict = "none" /\ NewTask(t).compacting = FALSE
<1>1. NewTask(t) \in TaskType
  BY NoTaskType DEF NewTask, TaskType
<1>2. /\ NewTask(t).turn = t /\ NewTask(t).history = NoTask.history
      /\ NewTask(t).context = NoTask.context /\ NewTask(t).known = NoTask.known
      /\ NewTask(t).acks = NoTask.acks /\ NewTask(t).total = NoTask.total
      /\ NewTask(t).wasted = NoTask.wasted /\ NewTask(t).reason = NoTask.reason
      /\ NewTask(t).last = NoTask.last /\ NewTask(t).verdict = NoTask.verdict
      /\ NewTask(t).compacting = NoTask.compacting
  BY NoTaskType DEF NewTask, TaskType
<1> QED BY <1>1, <1>2, NoTaskType
-----------------------------------------------------------------------------
(* Types                                                                   *)

StoreDone == StoreAction(Item) \/ (At("load") /\ Scan)

LEMMA StoreDoneBy ==
  /\ \A r \in RecordOf(Item) : Commit(r) => StoreDone
  /\ UNCHANGED rolloutVars => StoreDone
  /\ \A t \in Turns : ClaimInputs(t) => StoreDone
  /\ \A t \in Turns : EndAction(t) => StoreDone
  /\ \A n \in Nat : ChargeTokens(n) => StoreDone
BY DEF StoreDone, StoreAction

KeepsTurn == task' \in TaskType /\ task'.turn = task.turn

LEMMA SaveKeepsTurn ==
  ASSUME task \in TaskType, Turn \in Turns, NEW items \in Seq(Item), NEW total \in Nat,
         NEW step \in Int, NEW last \in BOOLEAN, NEW acks \in FewInputs,
         Save(items, total, step, last, acks)
  PROVE  KeepsTurn /\ StoreDone
<1>1. /\ Commit(SavedRecord(items, total, step, last, acks))
      /\ task' = SavedTask(items, total, last)
  BY SaveIs
<1>2. task'.turn = task.turn
  BY <1>1 DEF SavedTask, TaskType
<1> QED BY <1>1, <1>2, SaveTypes, StoreDoneBy DEF KeepsTurn

LEMMA LeaveKeepsTurn ==
  ASSUME task \in TaskType, NEW verdict \in {"Failed", "Cancelled", "Interrupted"},
         Leave(verdict)
  PROVE  KeepsTurn /\ pc' = "ending" /\ task'.verdict # "none"
BY DEF Leave, KeepsTurn, TaskType

LEMMA BeginningTypes ==
  ASSUME TypeOK, StoreIsInOrder, NEW t \in Turns
  PROVE  /\ Attach(t) => LoopType' /\ StoreDone
         /\ TakeUp(t) => LoopType' /\ StoreDone
         /\ ActionRecovers(t) => LoopType' /\ StoreDone
         /\ CancelRow(t) => LoopType' /\ StoreDone
<1>1. ASSUME Attach(t) PROVE LoopType' /\ StoreDone
  <2>1. task' = NewTask(t) /\ Commit(Created(t)) /\ pc' = "start"
    BY <1>1 DEF Attach, NewTask
  <2>2. task' \in TaskType /\ task'.turn = t
    BY <2>1, NewTaskType
  <2>3. LoopType'
    BY <1>1, <2>1, <2>2 DEF Attach, TypeOK, LoopType, Labels, Turn
  <2> QED BY <2>1, <2>3, RecordTypes, StoreDoneBy
<1>2. ASSUME TakeUp(t) PROVE LoopType' /\ StoreDone
  <2>1. task' = NewTask(t) /\ pc' = "start"
    BY <1>2 DEF TakeUp, NewTask
  <2>2. task' \in TaskType /\ task'.turn = t
    BY <2>1, NewTaskType
  <2>3. LoopType'
    BY <1>2, <2>1, <2>2 DEF TakeUp, TypeOK, LoopType, Labels, Turn
  <2> QED BY <1>2, <2>3, StoreDoneBy DEF TakeUp
<1>3. ASSUME ActionRecovers(t) PROVE LoopType' /\ StoreDone
  <2>1. EndAction(t) /\ ended' = ended \cup {t} /\ UNCHANGED <<pc, task, tool, cancelled, steps, ran, produced, spent>>
    BY <1>3 DEF ActionRecovers, volatile
  <2>2. LoopType'
    BY <2>1 DEF TypeOK, LoopType, Turn
  <2> QED BY <2>1, <2>2, StoreDoneBy
<1>4. ASSUME CancelRow(t) PROVE LoopType' /\ StoreDone
  <2>1. Commit(Updated(t, "Cancelled", {})) /\ UNCHANGED <<pc, task, tool, cancelled, steps, ended, ran, produced, spent>>
    BY <1>4 DEF CancelRow, volatile
  <2>2. Updated(t, "Cancelled", {}) \in RecordOf(Item)
    BY NoInputsAreFew, RecordTypes DEF TerminalTurn
  <2>3. LoopType'
    BY <2>1 DEF TypeOK, LoopType, Turn
  <2> QED BY <2>1, <2>2, <2>3, StoreDoneBy
<1> QED BY <1>1, <1>2, <1>3, <1>4

LEMMA StartTypes ==
  ASSUME TypeOK, StoreIsInOrder
  PROVE  /\ StartTurn => LoopType' /\ StoreDone
         /\ Load => LoopType' /\ StoreDone
         /\ Reconcile => LoopType' /\ StoreDone
         /\ Repair => LoopType' /\ StoreDone
         /\ Begin => LoopType' /\ StoreDone
<1>1. ASSUME StartTurn PROVE LoopType' /\ StoreDone
  <2>1. Turn \in Turns /\ pc' \in {"load", "left"} /\ UNCHANGED task
    BY <1>1 DEF StartTurn, At, TypeOK, LoopType
  <2>2. StoreDone
    <3>1. Updated(Turn, "Running", {}) \in RecordOf(Item)
      BY <2>1, NoInputsAreFew, RecordTypes
    <3> QED BY <1>1, <3>1, StoreDoneBy DEF StartTurn
  <2> QED BY <1>1, <2>1, <2>2 DEF StartTurn, TypeOK, LoopType, Labels, Turn
<1>2. ASSUME Load PROVE LoopType' /\ StoreDone
  <2>1. Turn \in Turns /\ At("load") /\ task \in TaskType
    BY <1>2 DEF Load, At, TypeOK, LoopType
  <2>2. StoreDone
    BY <1>2, <2>1, StoreDoneBy DEF Load, StoreDone
  <2>3. pc' \in {"left", "reconcile", "begin"}
    BY <1>2 DEF Load
  <2>4. KeepsTurn
    <3>1. CASE UNCHANGED task
      BY <2>1, <3>1 DEF KeepsTurn
    <3>2. CASE ~UNCHANGED task
      <4>1. /\ Scan
            /\ task' = [task EXCEPT
                 !.resumed = Canonical'.begun, !.history = Canonical'.context,
                 !.context = Canonical'.context, !.step = Canonical'.steps,
                 !.total = Canonical'.used, !.last = Canonical'.last]
        BY <1>2, <3>2 DEF Load
      <4>2. Canonical' = Latest
        BY <4>1 DEF Scan, Canonical, Latest
      <4>3. Canonical' \in StateOf(Item)
        BY <4>2, LatestType DEF TypeOK
      <4> QED BY <2>1, <4>1, <4>3 DEF KeepsTurn, TaskType, StateOf
    <3> QED BY <3>1, <3>2
  <2> QED BY <1>2, <2>1, <2>2, <2>3, <2>4 DEF Load, KeepsTurn, TypeOK, LoopType, Labels, Turn
<1>3. ASSUME Reconcile PROVE LoopType' /\ StoreDone
  <2>1. Turn \in Turns /\ task \in TaskType
    BY <1>3 DEF Reconcile, At, TypeOK, LoopType
  <2>2. \A n \in StepNames : Canonically(n) \in {"completed", "aborted"}
    BY DEF Canonically
  <2>3. CallsIn(history) \subseteq StepNames
    BY DEF CallsIn, Of, StepNames
  <2>4. \/ UNCHANGED steps
        \/ \E n \in StepNames : steps' = [steps EXCEPT ![Turn][n] = Canonically(n)]
        \/ \E n \in StepNames : steps' = [steps EXCEPT ![Turn][n] = "running"]
    BY <1>3, <2>3 DEF Reconcile, OpenStep
  <2>5. steps' \in [Turns -> [StepNames ->
              {"none", "running", "completed", "aborted", "failed", "cancelled"}]]
    <3>1. steps \in [Turns -> [StepNames ->
                {"none", "running", "completed", "aborted", "failed", "cancelled"}]]
      BY DEF TypeOK, LoopType
    <3>2. \A n \in StepNames, s \in {"completed", "aborted", "running"} :
            [steps EXCEPT ![Turn][n] = s] \in [Turns -> [StepNames ->
              {"none", "running", "completed", "aborted", "failed", "cancelled"}]]
      BY <2>1, <3>1
    <3>3. \A n \in StepNames : [steps EXCEPT ![Turn][n] = Canonically(n)] \in [Turns -> [StepNames ->
              {"none", "running", "completed", "aborted", "failed", "cancelled"}]]
      BY <2>2, <3>2
    <3>4. \A n \in StepNames : [steps EXCEPT ![Turn][n] = "running"] \in [Turns -> [StepNames ->
              {"none", "running", "completed", "aborted", "failed", "cancelled"}]]
      BY <3>2
    <3> QED BY <2>4, <3>1, <3>3, <3>4
  <2>6. pc' \in {"reconcile", "repair"}
    BY <1>3 DEF Reconcile, At
  <2> QED BY <1>3, <2>1, <2>5, <2>6, StoreDoneBy DEF Reconcile, TypeOK, LoopType, Labels, Turn
<1>4. ASSUME Repair PROVE LoopType' /\ StoreDone
  <2>1. Turn \in Turns /\ task \in TaskType /\ history \in Seq(Item)
    BY <1>4, TaskIsARecord DEF Repair, At, TypeOK, LoopType, history
  <2>2. EachOf("aborted", Unanswered(history)) \in Seq(Item)
    BY <2>1, CallsAreFew, EachType
  <2>3. history \o EachOf("aborted", Unanswered(history)) \in Seq(Item)
    BY <2>1, <2>2, ConcatProperties
  <2>4. KeepsTurn /\ StoreDone
    <3>1. CASE UNCHANGED <<rolloutVars, task>>
      BY <2>1, <3>1, StoreDoneBy DEF KeepsTurn
    <3>2. CASE Save(history \o Each(Aborted, Unanswered(history)), task.total, task.step, task.last, {})
      BY <2>1, <2>3, <3>2, EachIs, TaskIsARecord, NoInputsAreFew, SaveKeepsTurn
    <3> QED BY <1>4, <3>1, <3>2 DEF Repair
  <2> QED BY <1>4, <2>1, <2>4 DEF Repair, KeepsTurn, TypeOK, LoopType, Labels, Turn
<1>5. ASSUME Begin PROVE LoopType' /\ StoreDone
  <2>1. Turn \in Turns /\ task \in TaskType /\ history \in Seq(Item)
    BY <1>5, TaskIsARecord DEF Begin, At, TypeOK, LoopType, history
  <2>2. Append(history, Ask(Turn)) \in Seq(Item)
    BY <2>1, ItemsAre, AppendProperties
  <2>3. KeepsTurn
    <3>1. CASE UNCHANGED task
      BY <2>1, <3>1 DEF KeepsTurn
    <3>2. CASE ~UNCHANGED task
      <4> DEFINE items == IF task.resumed THEN history ELSE Append(history, Ask(Turn))
      <4>1. /\ items \in Seq(Item)
            /\ task' = [task EXCEPT !.history = items, !.step = @ + 1,
                                    !.known = CallsIn(items) \cup Answered(items)]
        BY <1>5, <2>1, <2>2, <3>2 DEF Begin
      <4> HIDE DEF items
      <4>2. CallsIn(items) \cup Answered(items) \in SUBSET Calls
        BY <4>1, CallsAreFew
      <4>3. PICK known \in SUBSET Calls : known = CallsIn(items) \cup Answered(items)
        BY <4>2
      <4>4. PICK h \in Seq(Item) : h = items
        BY <4>1
      <4>5. task' = [task EXCEPT !.history = h, !.step = @ + 1, !.known = known]
        BY <4>1, <4>3, <4>4
      <4>6. task.step + 1 \in Int
        BY <2>1, TaskIsARecord
      <4>7. task' \in TaskType
        BY <2>1, <4>5, <4>6 DEF TaskType
      <4> QED BY <2>1, <4>5, <4>7 DEF KeepsTurn, TaskType
    <3> QED BY <3>1, <3>2
  <2>4. pc' \in {"complete", "top"}
    BY <1>5 DEF Begin
  <2> QED BY <1>5, <2>1, <2>3, <2>4, StoreDoneBy DEF Begin, KeepsTurn, TypeOK, LoopType, Labels, Turn
<1> QED BY <1>1, <1>2, <1>3, <1>4, <1>5

LEMMA StepsAre ==
  ASSUME TypeOK, Turn \in Turns
  PROVE  \A n \in StepNames, s \in {"running", "completed", "aborted"} :
           [steps EXCEPT ![Turn][n] = s] \in [Turns -> [StepNames ->
             {"none", "running", "completed", "aborted", "failed", "cancelled"}]]
BY DEF TypeOK, LoopType

(* What a Turn is shown of its inputs: the newest finish, then its messages*)
Showing(got) ==
  (IF {i \in got : Kind[i] = "finish"} = {} THEN <<>>
   ELSE <<Said(Max({i \in got : Kind[i] = "finish"}))>>)
    \o SaidOf({i \in got : Kind[i] = "message"})

LEMMA ShowingType ==
  ASSUME NEW got \in FewInputs
  PROVE  /\ InOrder(Said, {i \in got : Kind[i] = "message"}) = SaidOf({i \in got : Kind[i] = "message"})
         /\ Showing(got) \in Seq(Item)
         /\ \A h \in Seq(Item) :
              (h \o (IF {i \in got : Kind[i] = "finish"} = {} THEN <<>>
                     ELSE <<Said(Max({i \in got : Kind[i] = "finish"}))>>))
                \o SaidOf({i \in got : Kind[i] = "message"}) = h \o Showing(got)
<1> DEFINE finish == {i \in got : Kind[i] = "finish"}
           message == {i \in got : Kind[i] = "message"}
<1>1. /\ finish \in SUBSET Inputs /\ message \in SUBSET Inputs
      /\ IsFiniteSet(finish) /\ IsFiniteSet(message)
  BY FS_Subset DEF FewInputs
<1>2. SaidOf(message) \in Seq(Item) /\ InOrder(Said, message) = SaidOf(message)
  BY <1>1, SaidType
<1>3. finish # {} => Max(finish) \in finish
  BY <1>1, RolloutAssumption, MaxIs
<1>4. finish # {} => <<Said(Max(finish))>> \in Seq(Item)
  BY <1>1, <1>3, ItemsAre
<1> DEFINE first == IF finish = {} THEN <<>> ELSE <<Said(Max(finish))>>
           second == SaidOf(message)
<1>5. first \in Seq(Item)
  BY <1>4, EmptySeq
<1>6. Showing(got) = first \o second
  BY DEF Showing
<1>7. first \o second \in Seq(Item) /\ \A h \in Seq(Item) : (h \o first) \o second = h \o (first \o second)
  <2> HIDE DEF first, second
  <2>1. second \in Seq(Item)
    BY <1>2 DEF second
  <2> QED BY <1>5, <2>1, ConcatProperties, ConcatAssociative
<1>8. \A h \in Seq(Item) : (h \o first) \o second = h \o Showing(got)
  <2> HIDE DEF first, second
  <2> QED BY <1>6, <1>7
<1> QED BY <1>2, <1>6, <1>7, <1>8

LEMMA ClaimableIsFew ==
  ASSUME rows \in RowsType, FewSent(rows), NEW t \in Turns
  PROVE  Claimable(t) \in FewInputs
<1>1. Claimable(t) \in SUBSET {i \in Inputs : rows.input[i] # "none"}
  BY DEF Claimable
<1> QED BY <1>1, FS_Subset DEF FewSent, FewInputs

LEMMA TopTypes ==
  ASSUME TypeOK, StoreIsInOrder, Top
  PROVE  LoopType' /\ StoreDone
<1>1. Turn \in Turns /\ task \in TaskType /\ history \in Seq(Item)
  BY TaskIsARecord DEF Top, At, TypeOK, LoopType, history
<1>2. CASE cancelled
  <2>1. Leave("Cancelled") /\ UNCHANGED rolloutVars
    BY <1>2 DEF Top
  <2>2. KeepsTurn /\ pc' = "ending" /\ task'.verdict # "none"
    BY <1>1, <2>1, LeaveKeepsTurn
  <2> QED BY <1>1, <2>1, <2>2, StoreDoneBy DEF Top, KeepsTurn, TypeOK, LoopType, Labels, Turn
<1>3. CASE ~cancelled
  <2> DEFINE got == Claimable(Turn)
             all == history \o Showing(got)
  <2>1. ClaimInputs(Turn)
    BY <1>3 DEF Top
  <2>2. got \in FewInputs
    BY <1>1, ClaimableIsFew DEF TypeOK, StoreType, StoreIsInOrder
  <2>3. Showing(got) \in Seq(Item) /\ all \in Seq(Item)
    BY <1>1, <2>2, ShowingType, ConcatProperties
  <2>4. \/ /\ pc' = "ending"
           /\ task' = [task EXCEPT !.verdict = "Interrupted", !.acks = got]
        \/ /\ pc' = "window"
           /\ task' = [task EXCEPT !.acks = got,
                        !.final = @ \/ {i \in got : Kind[i] = "finish"} # {}, !.history = all]
    <3>1. InOrder(Said, {i \in got : Kind[i] = "message"}) = SaidOf({i \in got : Kind[i] = "message"})
      BY <2>2, ShowingType
    <3>2. (history \o (IF {i \in got : Kind[i] = "finish"} = {} THEN <<>>
                       ELSE <<Said(Max({i \in got : Kind[i] = "finish"}))>>))
                      \o SaidOf({i \in got : Kind[i] = "message"}) = all
      BY <1>1, <2>2, ShowingType
    <3> HIDE DEF all
    <3> QED BY <1>3, <3>1, <3>2 DEF Top, history
  <2> HIDE DEF got, all
  <2>5. KeepsTurn /\ pc' \in {"ending", "window"} /\ (pc' = "ending" => task'.verdict # "none")
    <3>1. CASE task' = [task EXCEPT !.verdict = "Interrupted", !.acks = got] /\ pc' = "ending"
      BY <1>1, <2>2, <3>1 DEF KeepsTurn, TaskType
    <3>2. CASE pc' = "window" /\ task' = [task EXCEPT !.acks = got,
                 !.final = @ \/ {i \in got : Kind[i] = "finish"} # {}, !.history = all]
      <4>1. (task.final \/ {i \in got : Kind[i] = "finish"} # {}) \in BOOLEAN
        BY <1>1, TaskIsARecord
      <4>2. PICK final \in BOOLEAN : final = (task.final \/ {i \in got : Kind[i] = "finish"} # {})
        BY <4>1
      <4>3. task' = [task EXCEPT !.acks = got, !.final = final, !.history = all]
        BY <3>2, <4>2
      <4>4. task' \in TaskType /\ task'.turn = task.turn
        BY <1>1, <2>2, <2>3, <4>3 DEF TaskType
      <4> QED BY <3>2, <4>4 DEF KeepsTurn
    <3> QED BY <2>4, <3>1, <3>2
  <2> QED BY <1>1, <2>1, <2>5, StoreDoneBy DEF Top, KeepsTurn, TypeOK, LoopType, Labels, Turn
<1> QED BY <1>2, <1>3

LEMMA CompactTypes ==
  ASSUME TypeOK, StoreIsInOrder
  PROVE  /\ CompactStart => LoopType' /\ StoreDone
         /\ CompactDone => LoopType' /\ StoreDone
         /\ CompactFails \/ BeginFails => LoopType' /\ StoreDone
<1>1. ASSUME CompactStart PROVE LoopType' /\ StoreDone
  <2>1. Turn \in Turns /\ task \in TaskType
    BY <1>1 DEF CompactStart, At, TypeOK, LoopType
  <2>2. KeepsTurn
    BY <1>1, <2>1 DEF CompactStart, KeepsTurn, TaskType
  <2>3. steps' \in [Turns -> [StepNames ->
             {"none", "running", "completed", "aborted", "failed", "cancelled"}]]
    BY <1>1, <2>1, StepsAre DEF CompactStart, OpenStep, StepNames
  <2> QED BY <1>1, <2>1, <2>2, <2>3, StoreDoneBy
          DEF CompactStart, KeepsTurn, TypeOK, LoopType, Labels, Turn
<1>2. ASSUME CompactDone PROVE LoopType' /\ StoreDone
  <2>1. Turn \in Turns /\ task \in TaskType /\ history \in Seq(Item)
    BY <1>2, TaskIsARecord DEF CompactDone, At, TypeOK, LoopType, history
  <2>2. KeepsTurn
    <3>1. PICK h \in Seq(Item), n \in Nat : h = Compacted(task.history) /\ n = task.total + 1
      BY <2>1, TaskIsARecord, CompactedIs DEF history
    <3>2. task' = [task EXCEPT !.history = h, !.reason = "compaction",
                               !.total = n, !.compacting = FALSE]
      BY <1>2, <3>1 DEF CompactDone
    <3> QED BY <2>1, <3>2 DEF KeepsTurn, TaskType
  <2>3. steps' \in [Turns -> [StepNames ->
             {"none", "running", "completed", "aborted", "failed", "cancelled"}]]
    BY <1>2, <2>1, StepsAre DEF CompactDone, StepNames
  <2>4. spent' \in Nat
    BY <1>2 DEF CompactDone, TypeOK, LoopType
  <2> QED BY <1>2, <2>1, <2>2, <2>3, <2>4, StoreDoneBy
          DEF CompactDone, KeepsTurn, TypeOK, LoopType, Labels, Turn
<1>3. ASSUME CompactFails \/ BeginFails PROVE LoopType' /\ StoreDone
  <2>1. Turn \in Turns /\ task \in TaskType
    BY <1>3 DEF CompactFails, BeginFails, At, TypeOK, LoopType
  <2>2. KeepsTurn /\ pc' = "ending" /\ task'.verdict # "none"
    BY <1>3, <2>1, LeaveKeepsTurn DEF CompactFails, BeginFails
  <2> QED BY <1>3, <2>1, <2>2, StoreDoneBy
          DEF CompactFails, BeginFails, KeepsTurn, TypeOK, LoopType, Labels, Turn
<1> QED BY <1>1, <1>2, <1>3

(* The checkpoint before a sample, with the notice that it is the last,    *)
(* and what a trim leaves of it                                            *)
Prompted ==
  IF task.final /\ (history = <<>> \/ Last(history) # FinishNow)
    THEN Append(history, FinishNow) ELSE history
Sampled == Trim(Prompted, Budget)
Strays == Sampled = Prompted /\ task.reason = "none" /\ ~IsPrefix(task.context, Sampled)

LEMMA PromptIs ==
  Prompt =>
    /\ At("prompt") \/ At("window")
    /\ \/ Leave("Failed") /\ UNCHANGED rolloutVars
       \/ /\ Save(Sampled, task.total, task.step - 1, FALSE, task.acks)
          /\ pc' = "sample" /\ ~Strays
    /\ UNCHANGED <<tool, cancelled, steps, ended, ran, produced, spent>>
BY DEF Prompt, Prompted, Sampled, Strays

LEMMA PromptTypes ==
  ASSUME TypeOK, StoreIsInOrder, Prompt
  PROVE  LoopType' /\ StoreDone
<1>1. Turn \in Turns /\ task \in TaskType /\ history \in Seq(Item)
  BY PromptIs, TaskIsARecord DEF At, TypeOK, LoopType, history
<1>2. Sampled \in Seq(Item)
  <2>1. Prompted \in Seq(Item)
    BY <1>1, ItemsAre, AppendProperties DEF Prompted
  <2> QED BY <2>1, TrimType DEF Sampled
<1>3. CASE Leave("Failed") /\ UNCHANGED rolloutVars
  <2>1. KeepsTurn /\ pc' = "ending" /\ task'.verdict # "none"
    BY <1>1, <1>3, LeaveKeepsTurn
  <2> QED BY <1>1, <1>3, <2>1, PromptIs, StoreDoneBy DEF KeepsTurn, TypeOK, LoopType, Labels, Turn
<1>4. CASE Save(Sampled, task.total, task.step - 1, FALSE, task.acks) /\ pc' = "sample"
  <2>2. task.total \in Nat /\ task.step - 1 \in Int /\ task.acks \in FewInputs
    BY <1>1, TaskIsARecord
  <2>3. KeepsTurn /\ StoreDone
    BY <1>1, <1>2, <1>4, <2>2, SaveKeepsTurn
  <2> QED BY <1>1, <1>4, <2>3, PromptIs DEF KeepsTurn, TypeOK, LoopType, Labels, Turn
<1> QED BY <1>3, <1>4, PromptIs

(* Sampling a call set                                                     *)
CallItems(S) == EachOf("call", S)
CallRecord(S) ==
  Checkpoint(Turn, FALSE, CallItems(S), task.step, task.total + task.wasted + 1, FALSE, {})
CallTask(S) ==
  [task EXCEPT !.history = history \o CallItems(S), !.context = history \o CallItems(S),
               !.total = task.total + task.wasted + 1, !.known = @ \cup S,
               !.retry = 0, !.wasted = 0]

LEMMA SampleCallsIs ==
  ASSUME NEW S
  PROVE  SampleCalls(S) <=>
           /\ At("sample") /\ ~task.final
           /\ S \cap task.known = {} /\ S \cap Recorded = {} /\ task.step < MaxSteps
           /\ spent' = spent + 1
           /\ Commit(CallRecord(S)) /\ task' = CallTask(S)
           /\ pc' = "announce"
           /\ UNCHANGED <<tool, cancelled, steps, ended, ran, produced>>
<1>1. Each(Call, S) = CallItems(S)
  BY EachIs DEF CallItems
<1>2. Commit(Checkpoint(Turn, FALSE, Each(Call, S), task.step, task.total + task.wasted + 1, FALSE, {}))
        <=> Commit(CallRecord(S))
  BY <1>1 DEF CallRecord, Commit, Checkpoint
<1>3. [task EXCEPT !.history = history \o Each(Call, S), !.context = history \o Each(Call, S),
                   !.total = task.total + task.wasted + 1, !.known = @ \cup S,
                   !.retry = 0, !.wasted = 0] = CallTask(S)
  BY <1>1 DEF CallTask
<1> QED BY <1>2, <1>3 DEF SampleCalls

LEMMA ResponsesAre ==
  ASSUME NEW S \in Responses
  PROVE  S \in SUBSET Calls /\ IsFiniteSet(S) /\ S # {}
BY TurnAssumption

LEMMA SampleTypes ==
  ASSUME TypeOK, StoreIsInOrder
  PROVE  /\ SampleAnswer => LoopType' /\ StoreDone
         /\ \A S \in Responses : SampleCalls(S) => LoopType' /\ StoreDone
         /\ SampleDuplicate => LoopType' /\ StoreDone
         /\ SampleRetry => LoopType' /\ StoreDone
         /\ SampleFails => LoopType' /\ StoreDone
         /\ SampleCancelled => LoopType' /\ StoreDone
<1>1. ASSUME SampleAnswer PROVE LoopType' /\ StoreDone
  <2>1. Turn \in Turns /\ task \in TaskType /\ history \in Seq(Item)
    BY <1>1, TaskIsARecord DEF SampleAnswer, At, TypeOK, LoopType, history
  <2>2. Append(history, Answer(Turn)) \in Seq(Item)
    BY <2>1, ItemsAre, AppendProperties
  <2>3. task.total + task.wasted + 1 \in Nat /\ task.step \in Int
    BY <2>1, TaskIsARecord
  <2>4. Save(Append(history, Answer(Turn)), task.total + task.wasted + 1, task.step, TRUE, {})
    BY <1>1 DEF SampleAnswer
  <2>5. KeepsTurn /\ StoreDone
    BY <2>1, <2>2, <2>3, <2>4, NoInputsAreFew, SaveKeepsTurn
  <2>6. spent' \in Nat
    BY <1>1 DEF SampleAnswer, TypeOK, LoopType
  <2> QED BY <1>1, <2>1, <2>5, <2>6 DEF SampleAnswer, KeepsTurn, TypeOK, LoopType, Labels, Turn
<1>2. ASSUME NEW S \in Responses, SampleCalls(S) PROVE LoopType' /\ StoreDone
  <2>1. Turn \in Turns /\ task \in TaskType /\ history \in Seq(Item)
    BY <1>2, SampleCallsIs, TaskIsARecord DEF At, TypeOK, LoopType, history
  <2>2. CallItems(S) \in Seq(Item) /\ S \in SUBSET Calls
    BY ResponsesAre, EachType DEF CallItems
  <2>3. task.total + task.wasted + 1 \in Nat /\ task.step \in Int /\ task.known \cup S \in SUBSET Calls
    <3>1. /\ task.total \in Nat /\ task.wasted \in Nat /\ task.step \in Int
          /\ task.known \in SUBSET Calls
      BY <2>1, TaskIsARecord
    <3> QED BY <2>2, <3>1
  <2>4. history \o CallItems(S) \in Seq(Item)
    BY <2>1, <2>2, ConcatProperties
  <2>5. CallRecord(S) \in RecordOf(Item)
    BY <2>1, <2>2, <2>3, NoInputsAreFew, RecordTypes DEF CallRecord
  <2>6. KeepsTurn
    <3>1. PICK h \in Seq(Item), n \in Nat, known \in SUBSET Calls :
            h = history \o CallItems(S) /\ n = task.total + task.wasted + 1 /\ known = task.known \cup S
      BY <2>3, <2>4
    <3>2. task' = [task EXCEPT !.history = h, !.context = h, !.total = n, !.known = known,
                               !.retry = 0, !.wasted = 0]
      <4>1. task' = CallTask(S)
        BY <1>2, SampleCallsIs
      <4> QED BY <3>1, <4>1 DEF CallTask
    <3> QED BY <2>1, <3>2 DEF KeepsTurn, TaskType
  <2>7. spent' \in Nat
    BY <1>2, SampleCallsIs DEF TypeOK, LoopType
  <2>8. /\ Commit(CallRecord(S)) /\ pc' = "announce"
        /\ UNCHANGED <<tool, cancelled, steps, ended, ran, produced>>
    BY <1>2, SampleCallsIs
  <2>9. task' \in TaskType /\ task'.turn \in Turns
    BY <2>1, <2>6 DEF KeepsTurn, Turn
  <2>10. LoopType'
    BY <2>7, <2>8, <2>9 DEF TypeOK, LoopType, Labels, Turn
  <2> QED BY <2>5, <2>8, <2>10, StoreDoneBy
<1>3. ASSUME SampleDuplicate PROVE LoopType' /\ StoreDone
  <2>1. Turn \in Turns /\ task \in TaskType
    BY <1>3 DEF SampleDuplicate, At, TypeOK, LoopType
  <2>2. KeepsTurn /\ pc' = "ending" /\ task'.verdict # "none"
    BY <1>3, <2>1, LeaveKeepsTurn DEF SampleDuplicate
  <2>3. task.wasted + 1 \in Nat /\ spent' \in Nat
    BY <1>3, <2>1, TaskIsARecord DEF SampleDuplicate, TypeOK, LoopType
  <2> QED BY <1>3, <2>1, <2>2, <2>3, StoreDoneBy
          DEF SampleDuplicate, KeepsTurn, TypeOK, LoopType, Labels, Turn
<1>4. ASSUME SampleRetry PROVE LoopType' /\ StoreDone
  <2>1. Turn \in Turns /\ task \in TaskType
    BY <1>4 DEF SampleRetry, At, TypeOK, LoopType
  <2>2. KeepsTurn
    <3>1. PICK m \in Nat, n \in Nat : m = task.retry + 1 /\ n = task.wasted + 1
      <4>1. task.retry \in Nat /\ task.wasted \in Nat
        BY <2>1, TaskIsARecord
      <4>2. task.retry + 1 \in Nat /\ task.wasted + 1 \in Nat
        BY <4>1
      <4> QED BY <4>2, Zenon
    <3>2. task' = [task EXCEPT !.retry = m, !.wasted = n]
      BY <1>4, <3>1 DEF SampleRetry
    <3> QED BY <2>1, <3>2 DEF KeepsTurn, TaskType
  <2>3. spent' \in Nat
    BY <1>4 DEF SampleRetry, TypeOK, LoopType
  <2>4. StoreDone
    <3>1. Retry
      BY <1>4 DEF SampleRetry, Retry
    <3> QED BY <3>1 DEF StoreDone, StoreAction
  <2>5. LoopType'
    BY <1>4, <2>1, <2>2, <2>3 DEF SampleRetry, KeepsTurn, TypeOK, LoopType, Labels, Turn, At
  <2> QED BY <2>4, <2>5
<1>5. ASSUME SampleFails PROVE LoopType' /\ StoreDone
  <2>1. Turn \in Turns /\ task \in TaskType
    BY <1>5 DEF SampleFails, At, TypeOK, LoopType
  <2>2. KeepsTurn /\ pc' = "ending" /\ task'.verdict # "none"
    BY <1>5, <2>1, LeaveKeepsTurn DEF SampleFails
  <2>3. task.wasted \in Nat
    BY <2>1, TaskIsARecord
  <2> QED BY <1>5, <2>1, <2>2, <2>3, StoreDoneBy
          DEF SampleFails, KeepsTurn, TypeOK, LoopType, Labels, Turn
<1>6. ASSUME SampleCancelled PROVE LoopType' /\ StoreDone
  <2>1. Turn \in Turns /\ task \in TaskType
    BY <1>6 DEF SampleCancelled, At, TypeOK, LoopType
  <2>2. KeepsTurn /\ pc' = "ending" /\ task'.verdict # "none"
    BY <1>6, <2>1, LeaveKeepsTurn DEF SampleCancelled
  <2> QED BY <1>6, <2>1, <2>2, StoreDoneBy
          DEF SampleCancelled, KeepsTurn, TypeOK, LoopType, Labels, Turn
<1> QED BY <1>1, <1>2, <1>3, <1>4, <1>5, <1>6

LEMMA WaitingIs ==
  ASSUME TypeOK, NEW waiting, waiting = {c \in Unanswered(history) : tool[c] = "none"}
  PROVE  waiting # {} => SetToSeq(waiting)[1] \in waiting
<1>1. history \in Seq(Item)
  BY TaskIsARecord DEF TypeOK, LoopType, history
<1>2. waiting \in SUBSET Unanswered(history) /\ IsFiniteSet(Unanswered(history))
  BY <1>1, CallsAreFew
<1>3. IsFiniteSet(waiting)
  BY <1>2, FS_Subset
<1>4. waiting # {} => Cardinality(waiting) \in Nat /\ Cardinality(waiting) # 0
  BY <1>3, FS_CardinalityType, FS_EmptySet
<1>5. waiting # {} => 1 \in 1..Cardinality(waiting)
  BY <1>4
<1> QED BY <1>3, <1>5, SetToSeqIs

ToolType == {"none", "queued", "running", "done", "saved"}

LEMMA ToolTypes ==
  ASSUME TypeOK, StoreIsInOrder
  PROVE  /\ Announce => LoopType' /\ StoreDone
         /\ \A c \in Calls : Dispatch(c) => LoopType' /\ StoreDone
         /\ \A c \in Calls : Return(c) => LoopType' /\ StoreDone
         /\ \A c \in Calls : Collect(c) => LoopType' /\ StoreDone
         /\ \A c \in Calls : FinishStep(c) => LoopType' /\ StoreDone
<1>1. ASSUME Announce PROVE LoopType' /\ StoreDone
  <2>1. Turn \in Turns /\ task \in TaskType /\ history \in Seq(Item)
    BY <1>1, TaskIsARecord DEF Announce, At, TypeOK, LoopType, history
  <2> DEFINE waiting == {c \in Unanswered(history) : tool[c] = "none"}
             c == SetToSeq(waiting)[1]
  <2>2. waiting # {} => c \in Calls
    <3>1. waiting # {} => c \in waiting
      BY WaitingIs
    <3> QED BY <2>1, <3>1, CallsAreFew
  <2>3. CASE waiting = {}
    <3>1. pc' = "tools" /\ UNCHANGED <<tool, steps>>
      BY <1>1, <2>3 DEF Announce
    <3> HIDE DEF c, waiting
    <3> QED BY <1>1, <2>1, <3>1, StoreDoneBy DEF Announce, TypeOK, LoopType, Labels, Turn
  <2>4. CASE waiting # {}
    <3>1. /\ steps' = [steps EXCEPT ![Turn][c] = "running"]
          /\ tool' = [tool EXCEPT ![c] = "queued"] /\ pc' = pc
      BY <1>1, <2>4 DEF Announce, OpenStep
    <3>2. UNCHANGED <<rolloutVars, task, cancelled, ended, ran, produced, spent>>
      BY <1>1 DEF Announce
    <3> HIDE DEF c, waiting
    <3>3. steps' \in [Turns -> [StepNames ->
             {"none", "running", "completed", "aborted", "failed", "cancelled"}]]
      BY <2>1, <2>2, <2>4, <3>1, StepsAre DEF StepNames
    <3>4. tool' \in [Calls -> ToolType]
      BY <2>2, <2>4, <3>1 DEF TypeOK, LoopType, ToolType
    <3> QED BY <2>1, <3>1, <3>2, <3>3, <3>4, StoreDoneBy DEF TypeOK, LoopType, Turn, ToolType
  <2> QED BY <2>3, <2>4
<1>2. ASSUME NEW c \in Calls, Dispatch(c) PROVE LoopType' /\ StoreDone
  <2>1. tool' \in [Calls -> ToolType] /\ ran' \in [Calls -> Nat]
    BY <1>2 DEF Dispatch, TypeOK, LoopType, ToolType
  <2> QED BY <1>2, <2>1, StoreDoneBy DEF Dispatch, TypeOK, LoopType, Turn, ToolType
<1>3. ASSUME NEW c \in Calls, Return(c) PROVE LoopType' /\ StoreDone
  <2>1. tool' \in [Calls -> ToolType]
    BY <1>3 DEF Return, TypeOK, LoopType, ToolType
  <2> QED BY <1>3, <2>1, StoreDoneBy DEF Return, TypeOK, LoopType, Turn, ToolType
<1>4. ASSUME NEW c \in Calls, Collect(c) PROVE LoopType' /\ StoreDone
  <2>1. Turn \in Turns /\ task \in TaskType /\ history \in Seq(Item)
    BY <1>4, TaskIsARecord DEF Collect, At, TypeOK, LoopType, history
  <2>2. Append(history, Out(c)) \in Seq(Item)
    BY <2>1, ItemsAre, AppendProperties
  <2>3. KeepsTurn /\ StoreDone
    <3>1. Save(Append(history, Out(c)), task.total, task.step, FALSE, {})
      BY <1>4 DEF Collect
    <3> QED BY <2>1, <2>2, <3>1, TaskIsARecord, NoInputsAreFew, SaveKeepsTurn
  <2>4. tool' \in [Calls -> ToolType]
    BY <1>4 DEF Collect, TypeOK, LoopType, ToolType
  <2>5. UNCHANGED <<pc, cancelled, steps, ended, ran, produced, spent>>
    BY <1>4 DEF Collect
  <2>6. task' \in TaskType /\ task'.turn \in Turns /\ pc = "tools"
    BY <1>4, <2>1, <2>3 DEF KeepsTurn, Turn, Collect, At
  <2>7. LoopType'
    BY <2>4, <2>5, <2>6 DEF TypeOK, LoopType, Labels, Turn, ToolType
  <2> QED BY <2>3, <2>7
<1>5. ASSUME NEW c \in Calls, FinishStep(c) PROVE LoopType' /\ StoreDone
  <2>1. Turn \in Turns /\ task \in TaskType /\ pc = "tools"
    BY <1>5 DEF FinishStep, At, TypeOK, LoopType
  <2>2. tool' \in [Calls -> ToolType]
    BY <1>5 DEF FinishStep, TypeOK, LoopType, ToolType
  <2>3. steps' \in [Turns -> [StepNames ->
             {"none", "running", "completed", "aborted", "failed", "cancelled"}]]
    BY <1>5, <2>1, StepsAre DEF FinishStep, StepNames
  <2>4. KeepsTurn /\ pc' \in {"top", "tools"}
    <3>1. CASE UNCHANGED <<pc, task>>
      BY <2>1, <3>1 DEF KeepsTurn
    <3>2. CASE pc' = "top" /\ task' = [task EXCEPT !.step = @ + 1]
      <4>1. PICK n \in Int : n = task.step + 1
        BY <2>1, TaskIsARecord
      <4>2. task' = [task EXCEPT !.step = n]
        BY <3>2, <4>1
      <4> QED BY <2>1, <3>2, <4>2 DEF KeepsTurn, TaskType
    <3> QED BY <1>5, <3>1, <3>2 DEF FinishStep
  <2>5. UNCHANGED <<rolloutVars, cancelled, ended, ran, produced, spent>>
    BY <1>5 DEF FinishStep
  <2>6. task' \in TaskType /\ task'.turn \in Turns
    BY <2>1, <2>4 DEF KeepsTurn, Turn
  <2>7. LoopType'
    BY <2>2, <2>3, <2>4, <2>5, <2>6 DEF TypeOK, LoopType, Labels, Turn, ToolType
  <2> QED BY <2>5, <2>7, StoreDoneBy
<1> QED BY <1>1, <1>2, <1>3, <1>4, <1>5

LEMMA EndingTypes ==
  ASSUME TypeOK, StoreIsInOrder
  PROVE  /\ Complete => LoopType' /\ StoreDone
         /\ FinishPending => LoopType' /\ StoreDone
         /\ EndTurn => LoopType' /\ StoreDone
         /\ TaskEnds => LoopType' /\ StoreDone
<1>1. ASSUME Complete PROVE LoopType' /\ StoreDone
  <2>1. Turn \in Turns /\ task \in TaskType
    BY <1>1 DEF Complete, At, TypeOK, LoopType
  <2>2. Updated(Turn, "Completed", {}) \in RecordOf(Item)
    BY <2>1, NoInputsAreFew, RecordTypes DEF TerminalTurn
  <2>3. StoreDone
    BY <1>1, <2>2, StoreDoneBy DEF Complete
  <2> QED BY <1>1, <2>1, <2>3 DEF Complete, TypeOK, LoopType, Labels, Turn
<1>2. ASSUME FinishPending PROVE LoopType' /\ StoreDone
  <2>1. Turn \in Turns /\ task \in TaskType /\ task.verdict # "none"
    BY <1>2 DEF FinishPending, At, TypeOK, LoopType
  <2>2. tool' \in [Calls -> ToolType]
    BY <1>2 DEF FinishPending, NoTools, ToolType
  <2>3. steps' \in [Turns -> [StepNames ->
             {"none", "running", "completed", "aborted", "failed", "cancelled"}]]
    <3> DEFINE status == IF task.verdict = "Failed" THEN "failed" ELSE "cancelled"
               opened == {c \in Calls : tool[c] # "none"}
                           \cup (IF task.compacting THEN {"compaction"} ELSE {})
               row == [n \in StepNames |-> IF n \in opened THEN status ELSE steps[Turn][n]]
    <3>1. steps' = [steps EXCEPT ![Turn] = row]
      BY <1>2 DEF FinishPending
    <3>2. steps \in [Turns -> [StepNames ->
             {"none", "running", "completed", "aborted", "failed", "cancelled"}]]
      BY DEF TypeOK, LoopType
    <3>3. row \in [StepNames -> {"none", "running", "completed", "aborted", "failed", "cancelled"}]
      <4>1. \A n \in StepNames : steps[Turn][n] \in {"none", "running", "completed", "aborted", "failed", "cancelled"}
        BY <2>1, <3>2
      <4>2. status \in {"failed", "cancelled"}
        OBVIOUS
      <4> HIDE DEF status, opened
      <4> QED BY <4>1, <4>2
    <3> HIDE DEF row
    <3> QED BY <2>1, <3>1, <3>2, <3>3
  <2> QED BY <1>2, <2>1, <2>2, <2>3, StoreDoneBy
          DEF FinishPending, TypeOK, LoopType, Labels, Turn, ToolType
<1>3. ASSUME EndTurn PROVE LoopType' /\ StoreDone
  <2>1. Turn \in Turns /\ task \in TaskType /\ task.verdict # "none"
    BY <1>3 DEF EndTurn, At, TypeOK, LoopType
  <2>2. (IF task.verdict = "Interrupted" THEN task.acks ELSE {}) \in FewInputs
    BY <2>1, NoInputsAreFew, TaskIsARecord
  <2>3. task.verdict \in {"Running"} \cup TerminalTurn
    BY <2>1, TaskIsARecord DEF TerminalTurn
  <2>4. Updated(Turn, task.verdict, IF task.verdict = "Interrupted" THEN task.acks ELSE {})
          \in RecordOf(Item)
    BY <2>1, <2>2, <2>3, RecordTypes
  <2>5. StoreDone
    BY <1>3, <2>4, StoreDoneBy DEF EndTurn
  <2> QED BY <1>3, <2>1, <2>5 DEF EndTurn, TypeOK, LoopType, Labels, Turn
<1>4. ASSUME TaskEnds PROVE LoopType' /\ StoreDone
  <2>1. Turn \in Turns
    BY <1>4 DEF TaskEnds, At, TypeOK, LoopType
  <2>2. /\ pc' = "off" /\ task' = NoTask /\ tool' = NoTools /\ cancelled' = FALSE
        /\ EndAction(Turn) /\ ended' = ended \cup {Turn} /\ UNCHANGED <<steps, ran, produced, spent>>
    BY <1>4 DEF TaskEnds
  <2>3. tool' \in [Calls -> ToolType] /\ task' \in TaskType
    BY <2>2, NoTaskType DEF NoTools, ToolType
  <2>4. LoopType'
    BY <2>1, <2>2, <2>3 DEF TypeOK, LoopType, Labels, ToolType
  <2> QED BY <2>1, <2>2, <2>4, StoreDoneBy
<1> QED BY <1>1, <1>2, <1>3, <1>4

LEMMA FaultTypes ==
  ASSUME TypeOK, StoreIsInOrder
  PROVE  /\ CommitStep => LoopType' /\ StoreDone
         /\ CommitFails => LoopType' /\ StoreDone
         /\ Cancel => LoopType' /\ StoreDone
         /\ \A i \in Inputs : Send(i) => LoopType' /\ StoreDone
         /\ \A survives \in BOOLEAN : Crash(survives) => LoopType' /\ StoreDone
         /\ UNCHANGED vars => LoopType' /\ StoreDone
<1>1. ASSUME CommitStep PROVE LoopType' /\ StoreDone
  <2>1. UNCHANGED <<pc, task, tool, cancelled, steps, ended, ran, produced, spent>>
    BY <1>1 DEF CommitStep, volatile
  <2>2. StoreDone
    BY <1>1 DEF CommitStep, StoreDone, StoreAction
  <2>3. LoopType'
    BY <2>1 DEF TypeOK, LoopType, Turn
  <2> QED BY <2>2, <2>3
<1>2. ASSUME CommitFails PROVE LoopType' /\ StoreDone
  <2>1. AppendFails /\ UNCHANGED <<tool, cancelled, steps, ended, ran, produced, spent>>
    BY <1>2 DEF CommitFails
  <2>2. StoreDone
    BY <2>1 DEF StoreDone, StoreAction
  <2>3. task \in TaskType
    BY DEF TypeOK, LoopType
  <2>4. \/ UNCHANGED <<pc, task>>
        \/ pc # "off" /\ Leave("Failed")
        \/ pc # "off" /\ pc' = "left" /\ UNCHANGED task
    BY <1>2 DEF CommitFails
  <2>5. CASE UNCHANGED <<pc, task>>
    BY <2>1, <2>2, <2>5 DEF TypeOK, LoopType, Turn
  <2>6. CASE pc # "off" /\ Leave("Failed")
    <3>1. KeepsTurn /\ pc' = "ending" /\ task'.verdict # "none"
      BY <2>3, <2>6, LeaveKeepsTurn
    <3> QED BY <2>1, <2>2, <2>6, <3>1 DEF KeepsTurn, TypeOK, LoopType, Turn, Labels
  <2>7. CASE pc # "off" /\ pc' = "left" /\ UNCHANGED task
    BY <2>1, <2>2, <2>7 DEF TypeOK, LoopType, Turn, Labels
  <2> QED BY <2>4, <2>5, <2>6, <2>7
<1>3. ASSUME Cancel PROVE LoopType' /\ StoreDone
  BY <1>3, StoreDoneBy DEF Cancel, TypeOK, LoopType, Turn
<1>4. ASSUME NEW i \in Inputs, Send(i) PROVE LoopType' /\ StoreDone
  <2>1. UNCHANGED <<pc, task, tool, cancelled, steps, ended, ran, produced, spent>>
    BY <1>4 DEF Send, volatile
  <2>2. StoreDone
    BY <1>4 DEF Send, StoreDone, StoreAction
  <2>3. LoopType'
    BY <2>1 DEF TypeOK, LoopType, Turn
  <2> QED BY <2>2, <2>3
<1>5. ASSUME NEW survives \in BOOLEAN, Crash(survives) PROVE LoopType' /\ StoreDone
  <2>1. StoreDone
    BY <1>5 DEF Crash, StoreDone, StoreAction
  <2>2. /\ pc' = "off" /\ task' = NoTask /\ tool' = NoTools /\ cancelled' = FALSE
        /\ UNCHANGED <<steps, ended, ran, produced, spent>>
    BY <1>5 DEF Crash
  <2>3. tool' \in [Calls -> ToolType] /\ task' \in TaskType
    BY <2>2, NoTaskType DEF NoTools, ToolType
  <2>4. LoopType'
    BY <2>2, <2>3 DEF TypeOK, LoopType, Labels, ToolType
  <2> QED BY <2>1, <2>4
<1>6. ASSUME UNCHANGED vars PROVE LoopType' /\ StoreDone
  <2>1. UNCHANGED <<pc, task, tool, cancelled, steps, ended, ran, produced, spent>> /\ UNCHANGED rolloutVars
    BY <1>6 DEF vars, volatile
  <2>2. LoopType'
    BY <2>1 DEF TypeOK, LoopType, Turn
  <2> QED BY <2>1, <2>2, StoreDoneBy
<1> QED BY <1>1, <1>2, <1>3, <1>4, <1>5, <1>6

LEMMA LoopTypeStep ==
  ASSUME TypeOK, StoreIsInOrder, [Next]_vars
  PROVE  LoopType' /\ StoreDone
<1>1. CASE TaskStep
  BY <1>1, BeginningTypes, StartTypes, TopTypes, CompactTypes, PromptTypes, SampleTypes,
     ToolTypes, EndingTypes DEF TaskStep
<1>2. CASE UNCHANGED vars
  BY <1>2, FaultTypes
<1>3. CASE ~TaskStep /\ Next
  BY <1>3, FaultTypes, ToolTypes, BeginningTypes DEF Next
<1> QED BY <1>1, <1>2, <1>3
-----------------------------------------------------------------------------
(* Where a task stands in its Turn                                         *)
Loop ==
  {"reconcile", "repair", "begin", "top", "window", "compacting", "prompt",
   "sample", "announce", "tools", "complete"}
Leaving == {"ending", "end"}
Early == {"off", "start", "load"}

(* The steps of a task between Load and the end of its Turn                *)
OnlyWrites == UNCHANGED rolloutVars \/ RowsOnly \/ Retry
SameTurn == task'.turn = task.turn /\ UNCHANGED ended

Saves(r) == r.kind = "checkpoint" /\ r.turn = Turn /\ pc' \in Loop
Closes(r) ==
  /\ r.kind = "updated" /\ r.status \in TerminalTurn
  /\ pc' = "left" /\ rows.status[r.turn] \in OpenTurn

Working ==
  /\ StoreIdle /\ SameTurn
  /\ pc \in Loop \cup Leaving /\ pc' \in Loop \cup Leaving \cup {"left"}
  /\ OnlyWrites \/ \E r : Commit(r) /\ (Saves(r) \/ Closes(r))

Steady == SameTurn /\ UNCHANGED pc /\ OnlyWrites

LEMMA SaveWorks ==
  ASSUME task \in TaskType, NEW items, NEW total, NEW step, NEW last, NEW acks,
         Save(items, total, step, last, acks), pc' \in Loop
  PROVE  task'.turn = task.turn /\ \E r : Commit(r) /\ Saves(r)
<1>1. /\ Commit(SavedRecord(items, total, step, last, acks))
      /\ task' = SavedTask(items, total, last)
  BY SaveIs
<1>2. task'.turn = task.turn
  BY <1>1 DEF SavedTask, TaskType
<1>3. Saves(SavedRecord(items, total, step, last, acks))
  BY DEF Saves, SavedRecord, Checkpoint
<1> QED BY <1>1, <1>2, <1>3

LEMMA RowsWork ==
  /\ \A t \in Turns : ClaimInputs(t) => OnlyWrites
  /\ \A t \in Turns : EndAction(t) => OnlyWrites
  /\ \A n \in Nat : ChargeTokens(n) => OnlyWrites
  /\ \A i \in Inputs : SendInput(i) => OnlyWrites
BY DEF OnlyWrites, RowsOnly

LEMMA LeaveWorks ==
  ASSUME task \in TaskType, NEW verdict, Leave(verdict)
  PROVE  task'.turn = task.turn /\ pc' = "ending"
BY DEF Leave, TaskType

LEMMA LoopWorks ==
  ASSUME TypeOK
  PROVE  /\ Reconcile => Working
         /\ Repair => Working
         /\ Begin => Working
         /\ Top => Working
         /\ CompactStart => Working
         /\ CompactDone => Working
         /\ CompactFails \/ BeginFails => Working
         /\ Prompt => Working
<1>1. task \in TaskType /\ (pc # "off" => Turn \in Turns)
  BY DEF TypeOK, LoopType
<1>2. Reconcile => Working
  BY DEF Reconcile, At, Working, SameTurn, OnlyWrites, Loop
<1>3. ASSUME Repair PROVE Working
  <2>1. StoreIdle /\ pc \in Loop /\ pc' \in Loop /\ UNCHANGED ended
    BY <1>3 DEF Repair, At, Loop
  <2>2. CASE UNCHANGED <<rolloutVars, task>>
    BY <2>1, <2>2 DEF Working, SameTurn, OnlyWrites
  <2>3. CASE Save(history \o Each(Aborted, Unanswered(history)), task.total, task.step, task.last, {})
    <3>1. task'.turn = task.turn /\ \E r : Commit(r) /\ Saves(r)
      BY <1>1, <2>1, <2>3, SaveWorks
    <3> QED BY <2>1, <3>1 DEF Working, SameTurn
  <2> QED BY <1>3, <2>2, <2>3 DEF Repair
<1>4. ASSUME Begin PROVE Working
  <2>1. StoreIdle /\ pc \in Loop /\ pc' \in Loop /\ UNCHANGED ended /\ UNCHANGED rolloutVars
    BY <1>4 DEF Begin, At, Loop
  <2>2. task'.turn = task.turn
    BY <1>1, <1>4 DEF Begin, TaskType
  <2> QED BY <2>1, <2>2 DEF Working, SameTurn, OnlyWrites
<1>5. ASSUME Top PROVE Working
  <2>1. StoreIdle /\ pc \in Loop /\ pc' \in Loop \cup Leaving /\ UNCHANGED ended /\ pc # "off"
    BY <1>5 DEF Top, At, Loop, Leaving, Leave
  <2>2. task'.turn = task.turn
    BY <1>1, <1>5 DEF Top, TaskType, Leave
  <2>3. OnlyWrites
    BY <1>1, <1>5, <2>1, RowsWork DEF Top, OnlyWrites
  <2> QED BY <2>1, <2>2, <2>3 DEF Working, SameTurn
<1>6. ASSUME CompactStart \/ CompactDone PROVE Working
  <2>1. StoreIdle /\ pc \in Loop /\ pc' \in Loop /\ UNCHANGED ended /\ UNCHANGED rolloutVars
    BY <1>6 DEF CompactStart, CompactDone, At, Loop
  <2>2. task'.turn = task.turn
    BY <1>1, <1>6 DEF CompactStart, CompactDone, TaskType
  <2> QED BY <2>1, <2>2 DEF Working, SameTurn, OnlyWrites
<1>7. CompactFails \/ BeginFails => Working
  BY <1>1, LeaveWorks
     DEF CompactFails, BeginFails, At, Working, SameTurn, OnlyWrites, Loop, Leaving
<1>8. ASSUME Prompt PROVE Working
  <2>1. StoreIdle /\ pc \in Loop /\ UNCHANGED ended
    BY <1>8 DEF Prompt, At, Loop
  <2>2. CASE Leave("Failed") /\ UNCHANGED rolloutVars
    BY <1>1, <2>1, <2>2, LeaveWorks DEF Working, SameTurn, OnlyWrites, Leaving
  <2>3. CASE Save(Sampled, task.total, task.step - 1, FALSE, task.acks) /\ pc' = "sample"
    <3>1. pc' \in Loop
      BY <2>3 DEF Loop
    <3>2. task'.turn = task.turn /\ \E r : Commit(r) /\ Saves(r)
      BY <1>1, <2>3, <3>1, SaveWorks
    <3> QED BY <2>1, <3>1, <3>2 DEF Working, SameTurn
  <2> QED BY <1>8, <2>2, <2>3, PromptIs
<1> QED BY <1>2, <1>3, <1>4, <1>5, <1>6, <1>7, <1>8

LEMMA SampleWorks ==
  ASSUME TypeOK
  PROVE  /\ SampleAnswer => Working
         /\ \A S \in Responses : SampleCalls(S) => Working
         /\ SampleDuplicate => Working
         /\ SampleRetry => Working
         /\ SampleFails => Working
         /\ SampleCancelled => Working
<1>1. task \in TaskType /\ (pc # "off" => Turn \in Turns) /\ task.wasted \in Nat
  BY TaskIsARecord DEF TypeOK, LoopType
<1>2. ASSUME SampleAnswer PROVE Working
  <2>1. StoreIdle /\ pc \in Loop /\ pc' \in Loop /\ UNCHANGED ended
    BY <1>2 DEF SampleAnswer, At, Loop
  <2>2. task'.turn = task.turn /\ \E r : Commit(r) /\ Saves(r)
    BY <1>1, <1>2, <2>1, SaveWorks DEF SampleAnswer
  <2> QED BY <2>1, <2>2 DEF Working, SameTurn
<1>3. ASSUME NEW S \in Responses, SampleCalls(S) PROVE Working
  <2>1. /\ StoreIdle /\ pc \in Loop /\ pc' \in Loop /\ UNCHANGED ended
        /\ Commit(CallRecord(S)) /\ task' = CallTask(S)
    BY <1>3, SampleCallsIs DEF At, Loop
  <2>2. task'.turn = task.turn
    BY <1>1, <2>1 DEF CallTask, TaskType
  <2>3. Saves(CallRecord(S))
    BY <2>1 DEF Saves, CallRecord, Checkpoint
  <2> QED BY <2>1, <2>2, <2>3 DEF Working, SameTurn
<1>4. ASSUME SampleDuplicate \/ SampleFails PROVE Working
  <2>1. StoreIdle /\ pc \in Loop /\ UNCHANGED ended
    BY <1>4 DEF SampleDuplicate, SampleFails, At, Loop
  <2>2. task'.turn = task.turn /\ pc' \in Leaving
    BY <1>1, <1>4, LeaveWorks DEF SampleDuplicate, SampleFails, Leaving
  <2>3. OnlyWrites
    <3>1. task.wasted + 1 \in Nat
      BY <1>1
    <3> QED BY <1>1, <1>4, <3>1, RowsWork DEF SampleDuplicate, SampleFails
  <2> QED BY <2>1, <2>2, <2>3 DEF Working, SameTurn
<1>5. ASSUME SampleRetry PROVE Working
  <2>1. StoreIdle /\ pc \in Loop /\ pc' \in Loop /\ UNCHANGED ended /\ Retry
    BY <1>5 DEF SampleRetry, At, Loop, Retry
  <2>2. task'.turn = task.turn
    BY <1>1, <1>5 DEF SampleRetry, TaskType
  <2> QED BY <2>1, <2>2 DEF Working, SameTurn, OnlyWrites
<1>6. ASSUME SampleCancelled PROVE Working
  <2>1. StoreIdle /\ pc \in Loop /\ UNCHANGED ended /\ UNCHANGED rolloutVars
    BY <1>6 DEF SampleCancelled, At, Loop
  <2>2. task'.turn = task.turn /\ pc' \in Leaving
    BY <1>1, <1>6, LeaveWorks DEF SampleCancelled, Leaving
  <2> QED BY <2>1, <2>2 DEF Working, SameTurn, OnlyWrites
<1> QED BY <1>2, <1>3, <1>4, <1>5, <1>6

LEMMA ToolsWork ==
  ASSUME TypeOK
  PROVE  /\ Announce => Working
         /\ \A c \in Calls : Dispatch(c) => Steady
         /\ \A c \in Calls : Return(c) => Steady
         /\ \A c \in Calls : Collect(c) => Working
         /\ \A c \in Calls : FinishStep(c) => Working
<1>1. task \in TaskType
  BY DEF TypeOK, LoopType
<1>2. Announce => Working
  BY DEF Announce, At, Working, SameTurn, OnlyWrites, Loop
<1>3. \A c \in Calls : (Dispatch(c) => Steady) /\ (Return(c) => Steady)
  BY DEF Dispatch, Return, Steady, SameTurn, OnlyWrites
<1>4. ASSUME NEW c \in Calls, Collect(c) PROVE Working
  <2>1. StoreIdle /\ pc \in Loop /\ pc' \in Loop /\ UNCHANGED ended
    BY <1>4 DEF Collect, At, Loop
  <2>2. task'.turn = task.turn /\ \E r : Commit(r) /\ Saves(r)
    BY <1>1, <1>4, <2>1, SaveWorks DEF Collect
  <2> QED BY <2>1, <2>2 DEF Working, SameTurn
<1>5. ASSUME NEW c \in Calls, FinishStep(c) PROVE Working
  <2>1. StoreIdle /\ pc \in Loop /\ pc' \in Loop /\ UNCHANGED ended /\ UNCHANGED rolloutVars
    BY <1>5 DEF FinishStep, At, Loop
  <2>2. task'.turn = task.turn
    BY <1>1, <1>5 DEF FinishStep, TaskType
  <2> QED BY <2>1, <2>2 DEF Working, SameTurn, OnlyWrites
<1> QED BY <1>2, <1>3, <1>4, <1>5

LEMMA EndingWorks ==
  ASSUME TypeOK
  PROVE  /\ Complete => Working
         /\ FinishPending => Working
         /\ EndTurn => Working
<1>1. ASSUME Complete PROVE Working
  <2>1. StoreIdle /\ pc \in Loop /\ pc' = "left" /\ UNCHANGED <<ended, task>>
    BY <1>1 DEF Complete, At, Loop
  <2>2. CASE UNCHANGED rolloutVars
    BY <2>1, <2>2 DEF Working, SameTurn, OnlyWrites
  <2>3. CASE Commit(Updated(Turn, "Completed", {})) /\ rows.status[Turn] = "Running"
    <3>1. Closes(Updated(Turn, "Completed", {}))
      BY <2>1, <2>3 DEF Closes, Updated, TerminalTurn, OpenTurn
    <3> QED BY <2>1, <2>3, <3>1 DEF Working, SameTurn
  <2> QED BY <1>1, <2>2, <2>3 DEF Complete
<1>2. FinishPending => Working
  BY DEF FinishPending, At, Working, SameTurn, OnlyWrites, Leaving
<1>3. ASSUME EndTurn PROVE Working
  <2>1. StoreIdle /\ pc = "end" /\ pc' = "left" /\ UNCHANGED <<ended, task>>
    BY <1>3 DEF EndTurn, At
  <2>2. CASE UNCHANGED rolloutVars
    BY <2>1, <2>2 DEF Working, SameTurn, OnlyWrites, Leaving
  <2>3. CASE /\ rows.status[Turn] \in OpenTurn
             /\ Commit(Updated(Turn, task.verdict, IF task.verdict = "Interrupted" THEN task.acks ELSE {}))
    <3>1. task.verdict \in TerminalTurn
      BY <2>1, TaskIsARecord DEF TypeOK, LoopType, TerminalTurn
    <3>2. Closes(Updated(Turn, task.verdict, IF task.verdict = "Interrupted" THEN task.acks ELSE {}))
      BY <2>1, <2>3, <3>1 DEF Closes, Updated
    <3> QED BY <2>1, <2>3, <3>2 DEF Working, SameTurn, Leaving
  <2> QED BY <1>3, <2>2, <2>3 DEF EndTurn
<1> QED BY <1>1, <1>2, <1>3

(* Every step of the loop is one of these.                                 *)
AtTheEdge ==
  \/ \E t \in Turns : Attach(t) \/ TakeUp(t) \/ ActionRecovers(t) \/ CancelRow(t)
  \/ StartTurn \/ Load \/ TaskEnds \/ CommitStep \/ CommitFails
  \/ \E survives \in BOOLEAN : Crash(survives)

LEMMA StepsOfTheLoop ==
  ASSUME TypeOK, [Next]_vars
  PROVE  Working \/ Steady \/ AtTheEdge
<1>1. Cancel \/ UNCHANGED vars => Steady
  <2>1. Cancel => Steady
    BY DEF Cancel, Steady, SameTurn, OnlyWrites
  <2>2. UNCHANGED vars => Steady
    BY DEF vars, volatile, Steady, SameTurn, OnlyWrites
  <2> QED BY <2>1, <2>2
<1>2. \A i \in Inputs : Send(i) => Steady
  BY RowsWork DEF Send, volatile, Steady, SameTurn
<1>3. TaskStep => Working \/ Steady \/ AtTheEdge
  BY LoopWorks, SampleWorks, ToolsWork, EndingWorks DEF TaskStep, AtTheEdge
<1>4. \A c \in Calls : Return(c) => Steady
  BY ToolsWork
<1>5. CASE Next
  <2> USE <1>5
  <2>1. CASE TaskStep \/ Cancel \/ CommitStep \/ CommitFails
    BY <1>1, <1>3, <2>1 DEF AtTheEdge
  <2>2. CASE ~(TaskStep \/ Cancel \/ CommitStep \/ CommitFails)
    BY <1>2, <1>4, <2>2 DEF Next, AtTheEdge
  <2> QED BY <2>1, <2>2
<1> QED BY <1>1, <1>5
-----------------------------------------------------------------------------
(* What the task, the rows and the file know of the Agent's Turns          *)

HasItsTurn == pc # "off" => Turn \in Turns \ ended

(* A record is committed where its action left the task.                   *)
Fitting(r) ==
  /\ r.kind = "created" => pc = "start" /\ r.turn = Turn /\ NoneOpen(rows)
  /\ r.kind = "checkpoint" => pc \in Loop
  /\ r.kind = "updated" =>
       /\ rows.status[r.turn] \in OpenTurn
       /\ IF r.status = "Running" THEN pc = "load" /\ r.turn = Turn ELSE pc \in {"off", "left"}
CommitFits == commit # Idle => Fitting(commit.record)

LoadsRunning ==
  pc = "load" => /\ rows.status[Turn] \in OpenTurn
                 /\ commit = Idle => rows.status[Turn] = "Running"

(* A record a failed write left and nothing projected is of a Turn that is *)
(* over for its Action, though its row is open.                            *)
LagsWhenOver ==
  Lagging => /\ pc \in {"off", "left"}
             /\ \E u \in Turns : /\ rows.status[u] \in OpenTurn
                                 /\ u \in ended \/ (pc = "left" /\ u = Turn)
AtItsTurn == ~damaged /\ pc # "off" => Latest.turn \in ended \cup {0, Turn}
LeftoversAreEnded ==
  /\ pc \in Early /\ ~damaged
  /\ Whole # <<>> \/ (projected # Len(file) /\ ~Projecting)
  => Latest.turn \in ended \cup {0}

TaskInOrder ==
  HasItsTurn /\ CommitFits /\ LoadsRunning /\ LagsWhenOver /\ AtItsTurn /\ LeftoversAreEnded
Control == OneTurnIsOpen /\ AtAnOpenTurn /\ TaskInOrder

Ordered == TypeOK /\ StoreIsInOrder /\ Control

LEMMA RecordFits ==
  ASSUME Ordered
  PROVE  /\ commit # Idle => Fits(rows, commit.record)
         /\ Lagging /\ commit # Idle => MayLag(commit.record)
BY DEF Ordered, Control, TaskInOrder, CommitFits, LagsWhenOver, Fitting, Fits, MayLag

LEMMA StoreActs ==
  ASSUME Ordered, [Next]_vars
  PROVE  StoreAction(Item)
<1>1. StoreDone
  BY LoopTypeStep DEF Ordered
<1>2. CASE At("load") /\ Scan
  <2>1. ~damaged /\ commit = Idle /\ pc = "load"
    BY <1>2 DEF At, StoreIdle, Scan
  <2>2. ~Projecting
    BY <2>1, CommitTypes DEF Ordered, TypeOK
  <2>3. projected = Len(file)
    BY <2>1, <2>2 DEF Ordered, Control, TaskInOrder, LagsWhenOver, Lagging
  <2> QED BY <1>2, <2>3 DEF StoreAction
<1> QED BY <1>1, <1>2 DEF StoreDone

LEMMA QuietTask ==
  ASSUME Ordered, OnlyWrites \/ \E r : Commit(r)
  PROVE  StandsStill
BY QuietStep DEF Ordered, TypeOK, StoreType, OnlyWrites

LEMMA OnlyWritesKeep ==
  ASSUME Ordered, OnlyWrites
  PROVE  UNCHANGED commit /\ StandsStill
BY QuietTask, RowsOnlyStep DEF Ordered, TypeOK, StoreType, OnlyWrites, rolloutVars, Retry

LEMMA CommitIs ==
  ASSUME Ordered, NEW r, Commit(r)
  PROVE  /\ StandsStill /\ commit = Idle /\ ~Projecting
         /\ commit' = [at |-> "append", record |-> r] /\ commit' # Idle /\ ~Projecting'
         /\ rows' = rows
<1>1. StandsStill
  BY QuietTask
<1>2. commit = Idle /\ commit' = [at |-> "append", record |-> r] /\ rows' = rows
  BY DEF Commit, StoreIdle
<1>3. commit' # Idle /\ commit'.at = "append"
  BY <1>2 DEF Idle
<1>4. ~Projecting
  BY <1>2, CommitTypes DEF Ordered, TypeOK
<1> QED BY <1>1, <1>2, <1>3, <1>4 DEF Projecting

LEMMA SteadyOrder ==
  ASSUME Ordered, Steady
  PROVE  TaskInOrder'
<1>1. UNCHANGED <<pc, commit, ended, file, damaged, projected>> /\ Turn' = Turn
      /\ rows'.status = rows.status /\ Latest' = Latest /\ Whole' = Whole
  BY OnlyWritesKeep DEF Steady, SameTurn, StandsStill, Turn
<1>2. TaskInOrder
  BY DEF Ordered, Control
<1>3. HasItsTurn' /\ LoadsRunning' /\ AtItsTurn'
  BY <1>1, <1>2 DEF TaskInOrder, HasItsTurn, LoadsRunning, AtItsTurn
<1>4. CommitFits'
  BY <1>1, <1>2 DEF TaskInOrder, CommitFits, Fitting, NoneOpen
<1>5. LagsWhenOver' /\ LeftoversAreEnded'
  BY <1>1, <1>2 DEF TaskInOrder, LagsWhenOver, LeftoversAreEnded, Lagging, Projecting
<1> QED BY <1>3, <1>4, <1>5 DEF TaskInOrder

LEMMA WorkingOrder ==
  ASSUME Ordered, Working
  PROVE  TaskInOrder'
<1>1. /\ commit = Idle /\ UNCHANGED <<ended, file, damaged, projected>> /\ Turn' = Turn
      /\ rows'.status = rows.status /\ Latest' = Latest
      /\ pc \in Loop \cup Leaving /\ pc' \in Loop \cup Leaving \cup {"left"}
  BY QuietTask DEF Working, SameTurn, StandsStill, Turn, StoreIdle
<1>2. TaskInOrder
  BY DEF Ordered, Control
<1>3. ~Projecting
  BY <1>1, CommitTypes DEF Ordered, TypeOK
<1>4. pc \notin {"off", "left"} /\ pc' \notin {"off", "start", "load"}
  BY <1>1 DEF Loop, Leaving
<1>5. HasItsTurn' /\ AtItsTurn' /\ LoadsRunning' /\ LeftoversAreEnded'
  BY <1>1, <1>2, <1>4 DEF TaskInOrder, HasItsTurn, LoadsRunning, AtItsTurn, LeftoversAreEnded, Early
<1>6. ~Lagging'
  BY <1>1, <1>2, <1>3, <1>4 DEF TaskInOrder, LagsWhenOver, Lagging
<1>7. CommitFits'
  <2>1. CASE OnlyWrites
    BY <1>1, <2>1, OnlyWritesKeep DEF CommitFits
  <2>2. ASSUME NEW r, Commit(r), Saves(r) \/ Closes(r) PROVE CommitFits'
    <3>1. commit'.record = r
      BY <2>2, CommitIs
    <3>2. r.kind = "checkpoint" => pc' \in Loop
      BY <2>2 DEF Saves, Closes
    <3>3. r.kind = "updated" => /\ rows'.status[r.turn] \in OpenTurn
                                /\ r.status \in TerminalTurn /\ pc' = "left"
      BY <1>1, <2>2 DEF Saves, Closes
    <3>4. r.kind # "created"
      BY <2>2 DEF Saves, Closes
    <3> QED BY <3>1, <3>2, <3>3, <3>4 DEF CommitFits, Fitting, TerminalTurn
  <2> QED BY <2>1, <2>2 DEF Working
<1> QED BY <1>5, <1>6, <1>7 DEF TaskInOrder, LagsWhenOver

(* When the rows have caught up with the file, an open Turn the file is at *)
(* is the one whose row is open.                                           *)
LEMMA AtTheOpenTurn ==
  ASSUME Ordered, ~damaged, Whole = <<>>, projected = Len(file), Latest.turn # 0
  PROVE  Latest.turn \in Turns /\ rows.status[Latest.turn] \in OpenTurn
<1>1. Agree(rows, Told)
  BY ToldAgrees DEF Ordered, TypeOK
<1>2. Latest.turn \in Turns \cup {0}
  BY LatestType DEF Ordered, TypeOK, StateOf
<1> QED BY <1>1, <1>2 DEF Ordered, Control, AtAnOpenTurn, Agree

(* Nothing is known of a Turn when one is attached or taken up: the file   *)
(* is at it, or at one that is over.                                       *)
LEMMA BeginsAtIts ==
  ASSUME Ordered, At("off"), NEW t \in Turns,
         \A u \in Turns : rows.status[u] \in OpenTurn => u = t
  PROVE  ~damaged => Latest.turn \in ended \cup {0, t}
<1> SUFFICES ASSUME ~damaged PROVE Latest.turn \in ended \cup {0, t}
  OBVIOUS
<1>1. commit = Idle /\ pc \in Early
  BY DEF At, StoreIdle, Early
<1>2. ~Projecting
  BY <1>1, CommitTypes DEF Ordered, TypeOK
<1>3. CASE Whole # <<>> \/ projected # Len(file)
  BY <1>1, <1>2, <1>3 DEF Ordered, Control, TaskInOrder, LeftoversAreEnded
<1>4. CASE Whole = <<>> /\ projected = Len(file)
  BY <1>4, AtTheOpenTurn
<1> QED BY <1>3, <1>4

LEMMA AttachOrder ==
  ASSUME Ordered, NEW t \in Turns, Attach(t)
  PROVE  TaskInOrder'
<1>1. /\ At("off") /\ Commit(Created(t)) /\ pc' = "start" /\ Turn' = t /\ UNCHANGED ended
      /\ t \notin ended /\ NoneOpen(rows)
  BY NewTaskType DEF Attach, NewTask, Turn, NoneOpen
<1>2. /\ UNCHANGED <<file, damaged, projected>> /\ rows' = rows /\ Latest' = Latest /\ Whole' = Whole
      /\ ~Projecting /\ ~Projecting' /\ commit'.record = Created(t) /\ pc = "off"
  BY <1>1, CommitIs DEF StandsStill, At
<1>3. TaskInOrder
  BY DEF Ordered, Control
<1>4. HasItsTurn' /\ LoadsRunning'
  BY <1>1 DEF HasItsTurn, LoadsRunning
<1>5. AtItsTurn'
  <2>1. ~damaged => Latest.turn \in ended \cup {0, t}
    BY <1>1, BeginsAtIts DEF NoneOpen
  <2> QED BY <1>1, <1>2, <2>1 DEF AtItsTurn
<1>6. CommitFits'
  BY <1>1, <1>2 DEF CommitFits, Fitting, Created, NoneOpen
<1>7. ~Lagging'
  BY <1>1, <1>2, <1>3 DEF TaskInOrder, LagsWhenOver, Lagging, NoneOpen
<1>8. LeftoversAreEnded'
  BY <1>1, <1>2, <1>3 DEF TaskInOrder, LeftoversAreEnded, Early
<1> QED BY <1>4, <1>5, <1>6, <1>7, <1>8 DEF TaskInOrder, LagsWhenOver

LEMMA TakeUpOrder ==
  ASSUME Ordered, NEW t \in Turns, TakeUp(t)
  PROVE  TaskInOrder'
<1>1. /\ At("off") /\ pc' = "start" /\ Turn' = t /\ UNCHANGED ended /\ UNCHANGED rolloutVars
      /\ t \notin ended /\ rows.status[t] \in OpenTurn /\ pc = "off" /\ commit = Idle
  BY NewTaskType DEF TakeUp, NewTask, Turn, At, StoreIdle
<1>2. UNCHANGED <<file, damaged, projected, rows, commit>> /\ Latest' = Latest /\ Whole' = Whole
  BY <1>1, QuietTask DEF OnlyWrites, StandsStill, rolloutVars
<1>3. TaskInOrder /\ OneOpen(rows)
  BY DEF Ordered, Control, OneTurnIsOpen
<1>4. HasItsTurn' /\ LoadsRunning' /\ CommitFits'
  BY <1>1, <1>2 DEF HasItsTurn, LoadsRunning, CommitFits
<1>5. AtItsTurn'
  <2>1. ~damaged => Latest.turn \in ended \cup {0, t}
    BY <1>1, <1>3, BeginsAtIts DEF OneOpen
  <2> QED BY <1>1, <1>2, <2>1 DEF AtItsTurn
<1>6. ~Lagging'
  BY <1>1, <1>2, <1>3 DEF TaskInOrder, LagsWhenOver, Lagging, Projecting, OneOpen
<1>7. LeftoversAreEnded'
  BY <1>1, <1>2, <1>3 DEF TaskInOrder, LeftoversAreEnded, Early, Projecting
<1> QED BY <1>4, <1>5, <1>6, <1>7 DEF TaskInOrder, LagsWhenOver

LEMMA StartOrder ==
  ASSUME Ordered, StartTurn
  PROVE  TaskInOrder'
<1>1. pc = "start" /\ commit = Idle /\ UNCHANGED <<task, ended>> /\ Turn' = Turn /\ pc' \in {"load", "left"}
  BY DEF StartTurn, At, StoreIdle, Turn
<1>2. StandsStill /\ rows' = rows
  BY QuietTask, CommitIs DEF StartTurn, OnlyWrites, rolloutVars
<1>3. TaskInOrder /\ ~Projecting
  BY <1>1, CommitTypes DEF Ordered, TypeOK, Control
<1>4. HasItsTurn' /\ AtItsTurn'
  BY <1>1, <1>2, <1>3 DEF TaskInOrder, HasItsTurn, AtItsTurn, StandsStill
<1>5. ~Lagging'
  BY <1>1, <1>2, <1>3 DEF TaskInOrder, LagsWhenOver, Lagging, StandsStill
<1>6. LeftoversAreEnded'
  BY <1>1, <1>2, <1>3 DEF TaskInOrder, LeftoversAreEnded, Early, StandsStill
<1>7. CommitFits' /\ LoadsRunning'
  <2>1. CASE rows.status[Turn] = "Queued"
    <3>1. Commit(Updated(Turn, "Running", {})) /\ pc' = "load"
      BY <2>1 DEF StartTurn
    <3>2. commit'.record = Updated(Turn, "Running", {}) /\ commit' # Idle
      BY <3>1, CommitIs
    <3> QED BY <1>1, <1>2, <2>1, <3>1, <3>2 DEF CommitFits, Fitting, Updated, LoadsRunning, OpenTurn
  <2>2. CASE rows.status[Turn] # "Queued"
    <3>1. UNCHANGED commit /\ (pc' = "load" => rows.status[Turn] = "Running")
      BY <2>2 DEF StartTurn, rolloutVars
    <3> QED BY <1>1, <1>2, <3>1 DEF CommitFits, LoadsRunning, OpenTurn
  <2> QED BY <2>1, <2>2
<1> QED BY <1>4, <1>5, <1>6, <1>7 DEF TaskInOrder, LagsWhenOver

LEMMA LoadOrder ==
  ASSUME Ordered, Load
  PROVE  TaskInOrder'
<1>1. pc = "load" /\ commit = Idle /\ UNCHANGED <<ended, rows, damaged, projected, commit>>
      /\ Turn \in Turns \ ended
  BY DEF Load, At, StoreIdle, Scan, rolloutVars, Ordered, Control, TaskInOrder, HasItsTurn
<1>2. TaskInOrder /\ ~Projecting /\ task \in TaskType
  BY <1>1, CommitTypes DEF Ordered, TypeOK, Control, LoopType
<1>3. Turn' = Turn /\ pc' \in {"left", "reconcile", "begin"}
  BY <1>2 DEF Load, Turn, TaskType
<1>4. CASE damaged
  BY <1>1, <1>2, <1>3, <1>4
     DEF Load, TaskInOrder, HasItsTurn, CommitFits, LoadsRunning, LagsWhenOver, Lagging,
         AtItsTurn, LeftoversAreEnded, Early
<1>5. CASE ~damaged
  <2>1. Scan /\ Latest' = Latest /\ Canonical' = Latest /\ file' = Records
    <3>1. Scan
      BY <1>5 DEF Load
    <3>2. Records' = Records
      BY <3>1, ConcatEmptySeq, StoreTypeStep, WholeTypeNext, StoreActs DEF Scan, Records, Whole
    <3> QED BY <3>1, <3>2 DEF Latest, Canonical, Scan
  <2>2. HasItsTurn' /\ CommitFits' /\ LoadsRunning' /\ LeftoversAreEnded'
    BY <1>1, <1>3 DEF HasItsTurn, CommitFits, LoadsRunning, LeftoversAreEnded, Early
  <2>3. AtItsTurn'
    BY <1>1, <1>2, <1>3, <2>1 DEF TaskInOrder, AtItsTurn
  <2>4. projected = Len(file)
    BY <1>1, <1>2, <1>5 DEF TaskInOrder, LagsWhenOver, Lagging
  <2>5. CASE Latest.turn # Turn
    <3>1. pc' = "left"
      BY <2>1, <2>5 DEF Load
    <3>2. rows'.status[Turn'] \in OpenTurn
      BY <1>1, <1>2, <1>3 DEF TaskInOrder, LoadsRunning
    <3>3. LagsWhenOver'
      BY <1>1, <1>3, <3>1, <3>2 DEF LagsWhenOver
    <3> QED BY <2>2, <2>3, <3>3 DEF TaskInOrder
  <2>6. CASE Latest.turn = Turn
    <3>1. Turn # 0
      BY <1>1, RolloutAssumption
    <3>2. Whole = <<>>
      BY <1>1, <1>2, <1>5, <2>6, <3>1 DEF TaskInOrder, LeftoversAreEnded, Early
    <3>3. Records = file
      BY <3>2, ConcatEmptySeq DEF Records, Ordered, TypeOK, StoreType
    <3>4. ~Lagging'
      BY <1>1, <2>1, <2>4, <3>3 DEF Lagging
    <3> QED BY <2>2, <2>3, <3>4 DEF TaskInOrder, LagsWhenOver
  <2> QED BY <2>5, <2>6
<1> QED BY <1>4, <1>5

LEMMA EndedOrder ==
  ASSUME Ordered
  PROVE  /\ TaskEnds => TaskInOrder'
         /\ \A t \in Turns : ActionRecovers(t) => TaskInOrder'
<1>1. TaskInOrder
  BY DEF Ordered, Control
<1>2. ASSUME TaskEnds PROVE TaskInOrder'
  <2>1. /\ pc = "left" /\ commit = Idle /\ ended' = ended \cup {Turn} /\ pc' = "off"
        /\ Turn \in Turns /\ EndAction(Turn)
    BY <1>2 DEF TaskEnds, At, StoreIdle, Ordered, TypeOK, LoopType
  <2>2. UNCHANGED commit /\ StandsStill
    BY <2>1, OnlyWritesKeep, RowsWork
  <2>3. HasItsTurn' /\ CommitFits' /\ LoadsRunning' /\ AtItsTurn'
    BY <2>1, <2>2 DEF HasItsTurn, CommitFits, LoadsRunning, AtItsTurn
  <2>4. LagsWhenOver' /\ LeftoversAreEnded'
    BY <1>1, <2>1, <2>2 DEF TaskInOrder, LagsWhenOver, Lagging, Projecting, AtItsTurn,
       LeftoversAreEnded, StandsStill
  <2> QED BY <2>3, <2>4 DEF TaskInOrder
<1>3. ASSUME NEW t \in Turns, ActionRecovers(t) PROVE TaskInOrder'
  <2>1. /\ pc = "off" /\ commit = Idle /\ ended' = ended \cup {t} /\ pc' = "off" /\ EndAction(t)
    BY <1>3 DEF ActionRecovers, At, StoreIdle, volatile
  <2>2. UNCHANGED commit /\ StandsStill
    BY <2>1, OnlyWritesKeep, RowsWork
  <2>3. HasItsTurn' /\ CommitFits' /\ LoadsRunning' /\ AtItsTurn'
    BY <2>1, <2>2 DEF HasItsTurn, CommitFits, LoadsRunning, AtItsTurn
  <2>4. LagsWhenOver' /\ LeftoversAreEnded'
    BY <1>1, <2>1, <2>2 DEF TaskInOrder, LagsWhenOver, Lagging, Projecting,
       LeftoversAreEnded, StandsStill, Early
  <2> QED BY <2>3, <2>4 DEF TaskInOrder
<1> QED BY <1>2, <1>3

LEMMA CancelRowOrder ==
  ASSUME Ordered, NEW t \in Turns, CancelRow(t)
  PROVE  TaskInOrder'
<1>1. /\ pc \in {"off", "left"} /\ UNCHANGED <<pc, task, ended>> /\ rows.status[t] \in OpenTurn
      /\ Commit(Updated(t, "Cancelled", {})) /\ Turn' = Turn
  BY DEF CancelRow, At, volatile, Turn
<1>2. StandsStill /\ rows' = rows /\ commit'.record = Updated(t, "Cancelled", {})
      /\ ~Projecting /\ ~Projecting'
  BY <1>1, CommitIs
<1>3. TaskInOrder
  BY DEF Ordered, Control
<1>4. HasItsTurn' /\ LoadsRunning' /\ AtItsTurn'
  BY <1>1, <1>2, <1>3 DEF TaskInOrder, HasItsTurn, LoadsRunning, AtItsTurn, StandsStill
<1>5. CommitFits'
  BY <1>1, <1>2 DEF CommitFits, Fitting, Updated
<1>6. LagsWhenOver' /\ LeftoversAreEnded'
  BY <1>1, <1>2, <1>3 DEF TaskInOrder, LagsWhenOver, Lagging, LeftoversAreEnded, StandsStill
<1> QED BY <1>4, <1>5, <1>6 DEF TaskInOrder

(* A record that joins the file keeps the file at the task's Turn.         *)
LEMMA JoinedAtItsTurn ==
  ASSUME Ordered, Joined
  PROVE  /\ ~damaged /\ pc # "off" => Latest'.turn \in ended \cup {0, Turn}
         /\ pc = "off" => Latest'.turn = 0
<1>1. PICK r \in RecordOf(Item) : r = commit.record
  BY CommitTypes DEF Joined, Adding, Ordered, TypeOK
<1>2. PICK S \in StateOf(Item) : S = Latest
  BY LatestType DEF Ordered, TypeOK
<1>3. Latest' = Read(S, r) /\ commit # Idle
  BY <1>1, <1>2, CommitTypes DEF Joined, Adding, Ordered, TypeOK
<1>4. /\ r.kind = "created" => Read(S, r).turn = r.turn
      /\ r.kind = "checkpoint" => Read(S, r).turn = S.turn
      /\ r.kind = "updated" => Read(S, r).turn = IF r.status \in TerminalTurn THEN 0 ELSE S.turn
  BY TurnAfter
<1>5. /\ r.kind \in {"created", "checkpoint", "updated"}
      /\ r.kind = "updated" => r.status \in {"Running"} \cup TerminalTurn
  BY KindsAre
<1>6. Fitting(r) /\ AtItsTurn
  BY <1>1, <1>3 DEF Ordered, Control, TaskInOrder, CommitFits
<1>7. CASE r.kind = "created"
  BY <1>3, <1>4, <1>6, <1>7 DEF Fitting
<1>8. CASE r.kind = "checkpoint"
  BY <1>2, <1>3, <1>4, <1>6, <1>8 DEF Fitting, AtItsTurn, Loop
<1>9. CASE r.kind = "updated"
  BY <1>2, <1>3, <1>4, <1>5, <1>6, <1>9 DEF Fitting, AtItsTurn
<1> QED BY <1>5, <1>7, <1>8, <1>9

LEMMA CommitStepOrder ==
  ASSUME Ordered, CommitStep
  PROVE  TaskInOrder'
<1>1. /\ UNCHANGED <<pc, task, ended>> /\ Turn' = Turn
      /\ AppendRecord \/ ProjectRecord
  BY DEF CommitStep, volatile, Turn
<1>2. TaskInOrder
  BY DEF Ordered, Control
<1>3. HasItsTurn'
  BY <1>1, <1>2 DEF TaskInOrder, HasItsTurn
<1>4. CASE /\ Joined /\ UNCHANGED rows /\ Projecting' /\ ~damaged /\ ~damaged'
           /\ commit' # Idle /\ commit'.record = commit.record
  <2>1. commit # Idle
    BY <1>1, CommitStepIs DEF Ordered, TypeOK
  <2>2. CommitFits' /\ LoadsRunning'
    BY <1>1, <1>2, <1>4, <2>1 DEF TaskInOrder, CommitFits, Fitting, LoadsRunning, NoneOpen
  <2>3. AtItsTurn'
    BY <1>1, <1>4, JoinedAtItsTurn DEF AtItsTurn
  <2>4. Whole' = <<>>
    <3>1. Projecting' => trailing' = <<>>
      <4>1. StoreAction(Item)
        BY <1>1 DEF StoreAction
      <4>2. StoreIsInOrder'
        BY <4>1, StoreOrderStep DEF Ordered, TypeOK
      <4> QED BY <4>2 DEF StoreIsInOrder
    <3> QED BY <1>4, <3>1 DEF Whole
  <2>5. LagsWhenOver' /\ LeftoversAreEnded'
    BY <1>4, <2>4 DEF LagsWhenOver, Lagging, LeftoversAreEnded
  <2> QED BY <1>3, <2>2, <2>3, <2>5 DEF TaskInOrder
<1>5. CASE /\ Unmoved /\ rows' = Project(rows, commit.record) /\ commit' = Idle
           /\ damaged' \/ (Projecting /\ ~damaged /\ Whole' = <<>> /\ projected' = Len(file'))
  <2>1. PICK r \in RecordOf(Item) : r = commit.record /\ commit # Idle
    BY <1>1, CommitStepIs, CommitTypes DEF Ordered, TypeOK
  <2>2. Fitting(r)
    BY <1>2, <2>1 DEF TaskInOrder, CommitFits
  <2>3. CommitFits'
    BY <1>5 DEF CommitFits
  <2>4. LoadsRunning'
    <3> SUFFICES ASSUME pc' = "load" PROVE rows'.status[Turn] = "Running"
      BY <1>1 DEF LoadsRunning, OpenTurn
    <3>1. r.kind \in {"created", "checkpoint", "updated"} /\ r.turn \in Turns
      BY <2>1, KindsAre
    <3>2. r.kind = "updated" /\ r.status = "Running" /\ r.turn = Turn
      BY <1>1, <2>2, <3>1 DEF Fitting, Loop
    <3>3. rows \in RowsType /\ rows.status \in [Turns -> {"none"} \cup OpenTurn \cup TerminalTurn]
      BY RowsAreARecord DEF Ordered, TypeOK, StoreType
    <3>4. PICK db \in RowsType : db = rows
      BY <3>3
    <3>5. /\ r.kind = "created" => Project(db, r).status = [db.status EXCEPT ![r.turn] = "Queued"]
          /\ r.kind = "checkpoint" => Project(db, r).status = db.status
          /\ r.kind = "updated" => Project(db, r).status = [db.status EXCEPT ![r.turn] = r.status]
      BY StatusAfter
    <3> QED BY <1>5, <2>1, <3>1, <3>2, <3>3, <3>4, <3>5
  <2>5. LagsWhenOver' /\ LeftoversAreEnded'
    BY <1>5 DEF LagsWhenOver, Lagging, LeftoversAreEnded
  <2>6. AtItsTurn'
    BY <1>1, <1>2, <1>5 DEF TaskInOrder, AtItsTurn, Unmoved
  <2> QED BY <1>3, <2>3, <2>4, <2>5, <2>6 DEF TaskInOrder
<1> QED BY <1>1, <1>4, <1>5, CommitStepIs DEF Ordered, TypeOK

LEMMA CommitFailsOrder ==
  ASSUME Ordered, CommitFails
  PROVE  TaskInOrder'
<1>1. AppendFails /\ UNCHANGED ended /\ task \in TaskType
  BY DEF CommitFails, Ordered, TypeOK, LoopType
<1>2. /\ Committing /\ commit # Idle /\ commit' = Idle
      /\ UNCHANGED <<file, damaged, rows, projected>>
      /\ (Unmoved /\ Whole' = Whole) \/ Joined
  BY <1>1, AppendFailsIs DEF Ordered, TypeOK
<1>3. TaskInOrder /\ ~Projecting /\ commit.record \in RecordOf(Item)
  BY <1>2, CommitTypes DEF Ordered, TypeOK, Control
<1>4. (pc' = pc /\ pc \in {"off", "left"}) \/ (pc \notin {"off", "left"} /\ pc' \in {"left", "ending"})
  BY <1>1 DEF CommitFails, Leave, Turn, TaskType
<1>5. Turn' = Turn
  BY <1>1 DEF CommitFails, Leave, Turn, TaskType
<1>6. HasItsTurn' /\ CommitFits' /\ LoadsRunning'
  BY <1>1, <1>2, <1>3, <1>4, <1>5 DEF TaskInOrder, HasItsTurn, CommitFits, LoadsRunning
<1>7. LagsWhenOver'
  <2>1. Lagging' => Lagging
    BY <1>2, <1>3 DEF Lagging
  <2> QED BY <1>1, <1>2, <1>3, <1>4, <1>5, <2>1 DEF TaskInOrder, LagsWhenOver
<1>8. AtItsTurn'
  BY <1>1, <1>2, <1>3, <1>4, <1>5, JoinedAtItsTurn DEF TaskInOrder, AtItsTurn, Unmoved
<1>9. LeftoversAreEnded'
  <2> SUFFICES ASSUME pc' \in Early, ~damaged', Whole' # <<>> \/ (projected' # Len(file') /\ ~Projecting')
               PROVE  Latest'.turn \in ended' \cup {0}
    BY DEF LeftoversAreEnded
  <2>1. pc = "off"
    BY <1>4 DEF Early
  <2>2. CASE Joined
    BY <2>1, <2>2, JoinedAtItsTurn
  <2>3. CASE Unmoved /\ Whole' = Whole
    BY <1>1, <1>2, <1>3, <2>1, <2>3 DEF TaskInOrder, LeftoversAreEnded, Early, Unmoved
  <2> QED BY <1>2, <2>2, <2>3
<1> QED BY <1>6, <1>7, <1>8, <1>9 DEF TaskInOrder

LEMMA CrashOrder ==
  ASSUME Ordered, NEW survives \in BOOLEAN, Crash(survives)
  PROVE  TaskInOrder'
<1>1. Reopen(survives) /\ pc' = "off"
  BY DEF Crash
<1>2. commit' = Idle /\ Whole' = <<>> /\ projected' = Len(file')
  BY <1>1, ReopenDone DEF Ordered, TypeOK
<1> QED BY <1>1, <1>2
        DEF TaskInOrder, HasItsTurn, CommitFits, LoadsRunning, LagsWhenOver, Lagging,
            AtItsTurn, LeftoversAreEnded

LEMMA OrderedInit == Init => Ordered
<1> SUFFICES ASSUME Init PROVE Ordered
  OBVIOUS
<1>1. /\ file = <<>> /\ trailing = <<>> /\ damaged = FALSE /\ rows = EmptyRows /\ projected = 0
      /\ commit = Idle /\ mishaps = [crash |-> 0, fault |-> 0, retry |-> 0]
  BY DEF Init, RolloutInit
<1>2. TypeOK
  <2>1. StoreType(Item)
    BY <1>1, EmptySeq, EmptyRowsType DEF StoreType
  <2>2. tool \in [Calls -> {"none", "queued", "running", "done", "saved"}]
    BY DEF Init, NoTools
  <2>3. task \in TaskType
    BY NoTaskType DEF Init
  <2>4. /\ steps \in [Turns -> [StepNames ->
             {"none", "running", "completed", "aborted", "failed", "cancelled"}]]
        /\ ran \in [Calls -> Nat] /\ produced \subseteq Calls /\ spent \in Nat /\ ended \subseteq Turns
    BY DEF Init
  <2>5. LoopType
    BY <2>2, <2>3, <2>4 DEF Init, LoopType, Labels
  <2> QED BY <2>1, <2>5 DEF TypeOK
<1>3. ~Projecting /\ Whole = <<>> /\ Records = <<>> /\ Len(file) = 0
  BY <1>1 DEF Projecting, Idle, Whole, Records
<1>4. Told = EmptyRows /\ Latest = NoTurn(<<>>)
  <2>1. NoTurn(<<>>) \in StateOf(Item)
    BY EmptySeq, NoTurnType
  <2> QED BY <1>3, <2>1, EmptyRowsType, ReadsNothing, ProjectsNothing DEF Told, Latest
<1>5. \A t \in Turns : EmptyRows.status[t] = "none"
  BY DEF EmptyRows
<1>6. \A i \in Inputs : EmptyRows.input[i] = "none"
  BY DEF EmptyRows
<1>7. StoreIsInOrder
  <2>1. Upto(EmptyRows, file, projected) = EmptyRows
    <3>1. SubSeq(file, 1, 0) = <<>>
      BY <1>1, EmptySeq, SubSeqProperties
    <3>2. Replay(Project, EmptyRows, <<>>) = EmptyRows
      BY EmptyRowsType, ProjectsNothing
    <3> QED BY <1>1, <3>1, <3>2 DEF Upto
  <2>2. Settled
    BY <1>1, <1>3 DEF Settled
  <2>3. ClaimsSound(rows) /\ FewSent(rows)
    <3>1. {i \in Inputs : rows.input[i] # "none"} = {}
      BY <1>1, <1>6
    <3> QED BY <1>1, <1>6, <3>1, FS_EmptySet DEF ClaimsSound, FewSent
  <2> QED BY <1>1, <1>3, <2>1, <2>2, <2>3 DEF StoreIsInOrder, Agree
<1>8. Control
  <2>1. OneTurnIsOpen /\ AtAnOpenTurn
    BY <1>1, <1>4, <1>5 DEF OneTurnIsOpen, OneOpen, AtAnOpenTurn, NoTurn, OpenTurn
  <2>2. TaskInOrder
    BY <1>1, <1>3 DEF Init, TaskInOrder, HasItsTurn, CommitFits, LoadsRunning, LagsWhenOver,
       Lagging, AtItsTurn, LeftoversAreEnded
  <2> QED BY <2>1, <2>2 DEF Control
<1> QED BY <1>2, <1>7, <1>8 DEF Ordered

LEMMA OrderedStep == Ordered /\ [Next]_vars => Ordered'
<1> SUFFICES ASSUME Ordered, [Next]_vars PROVE Ordered'
  OBVIOUS
<1>1. StoreAction(Item)
  BY StoreActs
<1>2. TypeOK' /\ StoreIsInOrder'
  BY <1>1, LoopTypeStep, StoreTypeStep, StoreOrderStep DEF Ordered, TypeOK
<1>3. OneTurnIsOpen' /\ AtAnOpenTurn'
  BY <1>1, RecordFits, TurnsStep, AtAnOpenTurnStep DEF Ordered, TypeOK, Control
<1>4. TaskInOrder'
  <2>1. AtTheEdge => TaskInOrder'
    BY AttachOrder, TakeUpOrder, EndedOrder, CancelRowOrder, StartOrder, LoadOrder,
       CommitStepOrder, CommitFailsOrder, CrashOrder DEF AtTheEdge
  <2> QED BY <2>1, StepsOfTheLoop, WorkingOrder, SteadyOrder DEF Ordered
<1> QED BY <1>2, <1>3, <1>4 DEF Ordered, Control

(* However the task, the Store, tools, people, failed writes and crashes   *)
(* interleave: one Turn is open at a time, a record is committed where its *)
(* action left the task, rows lag behind the file only by a record of a    *)
(* Turn that is over, and the file is at the task's Turn.                  *)
THEOREM TurnOrdered == Spec => []Ordered
  BY OrderedInit, OrderedStep, PTL DEF Spec

(* The rows follow the file: what SQLite says of the Turns is what its     *)
(* first `projected` records say, and without a failed write at most the   *)
(* record being committed is missing (commit_agent_rollout_item_locked,    *)
(* replay_all_agent_rollouts).                                             *)
THEOREM TurnProjectionFollowsFile == Spec => []ProjectionFollowsFile
<1>1. Ordered => ProjectionFollowsFile
  <2> SUFFICES ASSUME Ordered, ~damaged
               PROVE  LET seen == Replay(Project, EmptyRows, SubSeq(file, 1, projected))
                      IN /\ projected \in {Len(file), Len(file) - 1}
                         /\ projected # Len(file) => commit.at = "project" \/ mishaps.fault > 0
                         /\ rows.status = seen.status
                         /\ rows.used = seen.used
                         /\ rows.last = seen.last
    BY DEF ProjectionFollowsFile
  <2>1. /\ projected \in {Len(file), Len(file) - 1}
        /\ Agree(rows, Upto(EmptyRows, file, projected))
        /\ mishaps.fault = 0 => Settled
    BY DEF Ordered, StoreIsInOrder
  <2>2. mishaps.fault \in Nat
    BY DEF Ordered, TypeOK, StoreType
  <2> QED BY <2>1, <2>2 DEF Agree, Upto, Settled, Projecting
<1> QED BY <1>1, TurnOrdered, PTL

(* No input stays claimed by a Turn that is over: the terminal record that *)
(* gives claims back is projected before anything else happens, also after *)
(* a crash.                                                                *)
THEOREM TurnClaimsEnd == Spec => []ClaimsEndWithTheirTurn
<1>1. Ordered => ClaimsEndWithTheirTurn
  BY DEF Ordered, StoreIsInOrder, ClaimsSound, ClaimsEndWithTheirTurn
<1> QED BY <1>1, TurnOrdered, PTL
-----------------------------------------------------------------------------
(* That each call in a context has its one output: what may join a context *)
(* without breaking this, and the invariant of the task and the rollout.   *)
IsCall(item) == item[1] = "call"
IsAnswer(item) == item[1] \in {"out", "aborted"}
Plain(items) == \A n \in DOMAIN items : ~IsCall(items[n]) /\ ~IsAnswer(items[n])

(* Each call once, each answered at most once and only after it. An output *)
(* may have lost its call; the first item is none, which a trim keeps.     *)
WellFormed(items) ==
  /\ \A m, n \in DOMAIN items : IsCall(items[m]) /\ items[m] = items[n] => m = n
  /\ \A m, n \in DOMAIN items :
       IsAnswer(items[m]) /\ IsAnswer(items[n]) /\ items[m][2] = items[n][2] => m = n
  /\ \A m, n \in DOMAIN items :
       IsAnswer(items[n]) /\ items[m] = Call(items[n][2]) => m < n
  /\ \A n \in DOMAIN items : IsCall(items[n]) => n # 1

LEMMA ItemShape ==
  ASSUME NEW x \in Item
  PROVE  /\ IsCall(x) => x[2] \in Calls /\ x = Call(x[2])
         /\ IsAnswer(x) => x[2] \in Calls /\ (x = Out(x[2]) \/ x = Aborted(x[2]))
         /\ ~(IsCall(x) /\ IsAnswer(x))
BY DEF Item, IsCall, IsAnswer, Call, Out, Aborted

LEMMA CallShape ==
  \A c, d \in Calls :
    /\ IsCall(Call(c)) /\ ~IsAnswer(Call(c)) /\ Call(c)[2] = c
    /\ IsAnswer(Out(c)) /\ ~IsCall(Out(c)) /\ Out(c)[2] = c
    /\ IsAnswer(Aborted(c)) /\ ~IsCall(Aborted(c)) /\ Aborted(c)[2] = c
    /\ (Call(c) = Call(d) => c = d) /\ (Out(c) = Out(d) => c = d) /\ (Aborted(c) = Aborted(d) => c = d)
BY DEF IsCall, IsAnswer, Call, Out, Aborted

LEMMA Members ==
  ASSUME NEW items \in Seq(Item)
  PROVE  /\ \A c : c \in CallsIn(items) <=> c \in Calls /\ \E n \in DOMAIN items : items[n] = Call(c)
         /\ \A c : c \in Answered(items) <=>
              c \in Calls /\ \E n \in DOMAIN items : IsAnswer(items[n]) /\ items[n][2] = c
         /\ \A n \in DOMAIN items : IsCall(items[n]) => items[n][2] \in CallsIn(items)
         /\ \A n \in DOMAIN items : IsAnswer(items[n]) => items[n][2] \in Answered(items)
<1>1. \A n \in DOMAIN items : items[n] \in Item
  BY LenProperties, ElementOfSeq
<1>2. \A c : c \in CallsIn(items) <=> c \in Calls /\ \E n \in DOMAIN items : items[n] = Call(c)
  BY DEF CallsIn, Of, Call
<1>3. \A c : c \in Answered(items) <=>
        c \in Calls /\ \E n \in DOMAIN items : items[n] = Out(c) \/ items[n] = Aborted(c)
  BY DEF Answered, Of, Out, Aborted
<1>4. ASSUME NEW c \in Calls, NEW n \in DOMAIN items
      PROVE  (items[n] = Out(c) \/ items[n] = Aborted(c)) <=> IsAnswer(items[n]) /\ items[n][2] = c
  BY <1>1, ItemShape, CallShape
<1>5. \A c : c \in Answered(items) <=>
        c \in Calls /\ \E n \in DOMAIN items : IsAnswer(items[n]) /\ items[n][2] = c
  BY <1>3, <1>4
<1>6. \A n \in DOMAIN items : IsCall(items[n]) => items[n][2] \in CallsIn(items)
  BY <1>1, <1>2, ItemShape
<1>7. \A n \in DOMAIN items : IsAnswer(items[n]) => items[n][2] \in Answered(items)
  BY <1>1, <1>5, ItemShape
<1> QED BY <1>2, <1>5, <1>6, <1>7

LEMMA PlainItems ==
  ASSUME NEW items \in Seq(Item), Plain(items)
  PROVE  WellFormed(items) /\ CallsIn(items) = {} /\ Answered(items) = {} /\ Unanswered(items) = {}
<1>1. WellFormed(items)
  BY DEF WellFormed, Plain
<1>2. CallsIn(items) = {} /\ Answered(items) = {}
  BY Members, CallShape DEF Plain
<1> QED BY <1>1, <1>2 DEF Unanswered

(* Items joined to others                                                  *)
LEMMA JoinedItems ==
  ASSUME NEW u, NEW a, NEW b, Joins(u, a, b, Item)
  PROVE  /\ u \in Seq(Item) /\ a \in Seq(Item) /\ b \in Seq(Item) /\ Len(a) \in Nat
         /\ \A n \in DOMAIN a : n \in DOMAIN u /\ u[n] = a[n] /\ n <= Len(a) /\ n \in Nat
         /\ \A n \in DOMAIN b : n \in Nat \ {0} /\ Len(a) + n \in DOMAIN u /\ u[Len(a) + n] = b[n]
         /\ \A k \in DOMAIN u : k \in DOMAIN a \/ \E n \in DOMAIN b : k = Len(a) + n
<1>1. a \in Seq(Item) /\ b \in Seq(Item) /\ u = a \o b
  BY DEF Joins
<1>2. /\ Len(a) \in Nat /\ DOMAIN a = 1..Len(a) /\ Len(b) \in Nat /\ DOMAIN b = 1..Len(b)
  BY <1>1, LenProperties
<1>3. /\ u \in Seq(Item) /\ Len(u) = Len(a) + Len(b)
      /\ \A i \in 1..(Len(a) + Len(b)) : u[i] = IF i <= Len(a) THEN a[i] ELSE b[i - Len(a)]
  BY <1>1, ConcatProperties
<1>4. DOMAIN u = 1..(Len(a) + Len(b))
  BY <1>3, LenProperties
<1>5. \A n \in DOMAIN a : n \in DOMAIN u /\ u[n] = a[n] /\ n <= Len(a) /\ n \in Nat
  BY <1>2, <1>3, <1>4
<1>6. \A n \in DOMAIN b : n \in Nat \ {0} /\ Len(a) + n \in DOMAIN u /\ u[Len(a) + n] = b[n]
  <2> TAKE n \in DOMAIN b
  <2>1. n \in 1..Len(b) /\ Len(a) + n \in 1..(Len(a) + Len(b)) /\ ~(Len(a) + n <= Len(a))
        /\ (Len(a) + n) - Len(a) = n
    BY <1>2, SMT
  <2> QED BY <1>3, <1>4, <2>1
<1>7. \A k \in DOMAIN u : k \in DOMAIN a \/ \E n \in DOMAIN b : k = Len(a) + n
  <2> TAKE k \in DOMAIN u
  <2>1. k \in 1..Len(a) \/ (k - Len(a) \in 1..Len(b) /\ k = Len(a) + (k - Len(a)))
    BY <1>2, <1>4, SMT
  <2> QED BY <1>2, <2>1
<1> QED BY <1>1, <1>2, <1>3, <1>5, <1>6, <1>7

LEMMA JoinedSets ==
  ASSUME NEW u, NEW a, NEW b, Joins(u, a, b, Item)
  PROVE  /\ CallsIn(u) = CallsIn(a) \cup CallsIn(b)
         /\ Answered(u) = Answered(a) \cup Answered(b)
<1>1. u \in Seq(Item) /\ a \in Seq(Item) /\ b \in Seq(Item)
  BY JoinedItems
<1>2. ASSUME NEW c PROVE c \in CallsIn(u) <=> c \in CallsIn(a) \/ c \in CallsIn(b)
  <2>1. (\E k \in DOMAIN u : u[k] = Call(c))
          <=> (\E n \in DOMAIN a : a[n] = Call(c)) \/ (\E n \in DOMAIN b : b[n] = Call(c))
    BY JoinedItems
  <2> QED BY <1>1, <2>1, Members
<1>3. ASSUME NEW c PROVE c \in Answered(u) <=> c \in Answered(a) \/ c \in Answered(b)
  <2>1. (\E k \in DOMAIN u : IsAnswer(u[k]) /\ u[k][2] = c)
          <=> \/ \E n \in DOMAIN a : IsAnswer(a[n]) /\ a[n][2] = c
              \/ \E n \in DOMAIN b : IsAnswer(b[n]) /\ b[n][2] = c
    BY JoinedItems
  <2> QED BY <1>1, <2>1, Members
<1> QED BY <1>2, <1>3

LEMMA JoinedNonempty ==
  ASSUME NEW u, NEW a, NEW b, Joins(u, a, b, Item), a # <<>> \/ b # <<>>
  PROVE  u # <<>>
<1>1. a \in Seq(Item) /\ b \in Seq(Item) /\ u = a \o b
  BY DEF Joins
<1>2. Len(a) \in Nat /\ Len(b) \in Nat /\ Len(u) = Len(a) + Len(b)
  BY <1>1, LenProperties, ConcatProperties
<1>3. Len(a) # 0 \/ Len(b) # 0
  BY <1>1, EmptySeq
<1>4. Len(u) # 0
  BY <1>2, <1>3
<1> QED BY <1>4, EmptySeq

(* New calls come after the old, and answers are to open ones.             *)
Continues(a, b) ==
  /\ \A m, n \in DOMAIN b : IsCall(b[m]) /\ b[m] = b[n] => m = n
  /\ \A m, n \in DOMAIN b : IsAnswer(b[m]) /\ IsAnswer(b[n]) /\ b[m][2] = b[n][2] => m = n
  /\ \A n \in DOMAIN b : IsCall(b[n]) => b[n][2] \notin CallsIn(a) \cup Answered(a) /\ a # <<>>
  /\ \A n \in DOMAIN b : IsAnswer(b[n]) => b[n][2] \in Unanswered(a)

LEMMA JoinedWellFormed ==
  ASSUME NEW u, NEW a, NEW b, Joins(u, a, b, Item), WellFormed(a), Continues(a, b)
  PROVE  WellFormed(u)
<1>1. /\ u \in Seq(Item) /\ a \in Seq(Item) /\ b \in Seq(Item) /\ Len(a) \in Nat
      /\ \A n \in DOMAIN a : n \in DOMAIN u /\ u[n] = a[n] /\ n <= Len(a) /\ n \in Nat
      /\ \A n \in DOMAIN b : n \in Nat \ {0} /\ Len(a) + n \in DOMAIN u /\ u[Len(a) + n] = b[n]
      /\ \A k \in DOMAIN u : k \in DOMAIN a \/ \E n \in DOMAIN b : k = Len(a) + n
  BY JoinedItems
<1>2. /\ \A n \in DOMAIN a : IsCall(a[n]) => a[n][2] \in CallsIn(a)
      /\ \A n \in DOMAIN a : IsAnswer(a[n]) => a[n][2] \in Answered(a)
  BY <1>1, Members
<1>3. /\ \A m \in DOMAIN a, n \in DOMAIN b : IsCall(a[m]) => a[m] # b[n]
      /\ \A m \in DOMAIN a, n \in DOMAIN b : IsAnswer(a[m]) /\ IsAnswer(b[n]) => a[m][2] # b[n][2]
  BY <1>2 DEF Continues, Unanswered, IsCall
<1>4. \A m, n \in DOMAIN u : IsCall(u[m]) /\ u[m] = u[n] => m = n
  <2> TAKE m, n \in DOMAIN u
  <2>1. CASE m \in DOMAIN a /\ n \in DOMAIN a
    BY <1>1, <2>1 DEF WellFormed
  <2>2. CASE \E x, y \in DOMAIN b : m = Len(a) + x /\ n = Len(a) + y
    <3>1. PICK x, y \in DOMAIN b : m = Len(a) + x /\ n = Len(a) + y
      BY <2>2
    <3>2. u[m] = b[x] /\ u[n] = b[y]
      BY <1>1, <3>1
    <3>3. (IsCall(b[x]) /\ b[x] = b[y] => x = y)
          /\ (IsAnswer(b[x]) /\ IsAnswer(b[y]) /\ b[x][2] = b[y][2] => x = y)
      BY DEF Continues
    <3> QED BY <3>1, <3>2, <3>3
  <2>3. CASE m \in DOMAIN a /\ \E y \in DOMAIN b : n = Len(a) + y
    BY <1>1, <1>3, <2>3
  <2>4. CASE n \in DOMAIN a /\ \E x \in DOMAIN b : m = Len(a) + x
    BY <1>1, <1>3, <2>4 DEF IsCall
  <2> QED BY <1>1, <2>1, <2>2, <2>3, <2>4
<1>5. \A m, n \in DOMAIN u : IsAnswer(u[m]) /\ IsAnswer(u[n]) /\ u[m][2] = u[n][2] => m = n
  <2> TAKE m, n \in DOMAIN u
  <2>1. CASE m \in DOMAIN a /\ n \in DOMAIN a
    BY <1>1, <2>1 DEF WellFormed
  <2>2. CASE \E x, y \in DOMAIN b : m = Len(a) + x /\ n = Len(a) + y
    <3>1. PICK x, y \in DOMAIN b : m = Len(a) + x /\ n = Len(a) + y
      BY <2>2
    <3>2. u[m] = b[x] /\ u[n] = b[y]
      BY <1>1, <3>1
    <3>3. (IsCall(b[x]) /\ b[x] = b[y] => x = y)
          /\ (IsAnswer(b[x]) /\ IsAnswer(b[y]) /\ b[x][2] = b[y][2] => x = y)
      BY DEF Continues
    <3> QED BY <3>1, <3>2, <3>3
  <2>3. CASE m \in DOMAIN a /\ \E y \in DOMAIN b : n = Len(a) + y
    BY <1>1, <1>3, <2>3
  <2>4. CASE n \in DOMAIN a /\ \E x \in DOMAIN b : m = Len(a) + x
    BY <1>1, <1>3, <2>4
  <2> QED BY <1>1, <2>1, <2>2, <2>3, <2>4
<1>6. ASSUME NEW m \in DOMAIN u, NEW n \in DOMAIN u, IsAnswer(u[n]), u[m] = Call(u[n][2])
      PROVE  m < n
  <2>0. u[n] \in Item /\ u[n][2] \in Calls /\ IsCall(u[m]) /\ u[m][2] = u[n][2]
    <3>1. u[n] \in Item
      BY <1>1, LenProperties, ElementOfSeq
    <3> QED BY <1>6, <3>1, ItemShape, CallShape
  <2>1. CASE m \in DOMAIN a /\ n \in DOMAIN a
    BY <1>1, <1>6, <2>1 DEF WellFormed
  <2>2. CASE m \in DOMAIN a /\ \E y \in DOMAIN b : n = Len(a) + y
    BY <1>1, <2>2, SMT
  <2>3. ASSUME NEW x \in DOMAIN b, m = Len(a) + x PROVE FALSE
    <3>1. b[x] = u[m] /\ u[n][2] \notin CallsIn(a) \cup Answered(a)
      BY <1>1, <2>0, <2>3 DEF Continues
    <3>2. CASE n \in DOMAIN a
      <4>1. IsAnswer(a[n]) /\ a[n][2] = u[n][2]
        BY <1>1, <1>6, <3>2
      <4> QED BY <1>2, <3>1, <3>2, <4>1
    <3>3. CASE \E y \in DOMAIN b : n = Len(a) + y
      <4>1. PICK y \in DOMAIN b : b[y] = u[n]
        BY <1>1, <3>3
      <4>2. u[n][2] \in CallsIn(a)
        BY <1>6, <4>1 DEF Continues, Unanswered
      <4> QED BY <3>1, <4>2
    <3> QED BY <1>1, <3>2, <3>3
  <2> QED BY <1>1, <2>1, <2>2, <2>3
<1>7. ASSUME NEW n \in DOMAIN u, IsCall(u[n]) PROVE n # 1
  <2>1. CASE n \in DOMAIN a
    BY <1>1, <1>7, <2>1 DEF WellFormed
  <2>2. ASSUME NEW x \in DOMAIN b, n = Len(a) + x PROVE n # 1
    <3>1. b[x] = u[n] /\ a # <<>> /\ x \in Nat \ {0}
      BY <1>1, <1>7, <2>2 DEF Continues
    <3>2. Len(a) # 0
      BY <1>1, <3>1, EmptySeq
    <3> QED BY <1>1, <2>2, <3>1, <3>2
  <2> QED BY <1>1, <2>1, <2>2
<1> QED BY <1>4, <1>5, <1>6, <1>7 DEF WellFormed

LEMMA JoinsItems == \A a, b \in Seq(Item) : Joins(a \o b, a, b, Item)
  BY DEF Joins

LEMMA AppendsItem == \A a \in Seq(Item), x \in Item : Joins(Append(a, x), a, <<x>>, Item)
<1> TAKE a \in Seq(Item), x \in Item
<1>1. <<x>> \in Seq(Item) /\ Append(a, x) = a \o <<x>>
  BY AppendIsConcat
<1> QED BY <1>1 DEF Joins

(* What joins a history in this code                                       *)
LEMMA PlainJoins ==
  ASSUME NEW u, NEW a, NEW b, Joins(u, a, b, Item), Plain(b)
  PROVE  /\ WellFormed(a) => WellFormed(u)
         /\ CallsIn(u) = CallsIn(a) /\ Answered(u) = Answered(a) /\ Unanswered(u) = Unanswered(a)
         /\ Plain(a) => Plain(u)
<1>1. Continues(a, b)
  BY DEF Plain, Continues
<1>2. b \in Seq(Item)
  BY DEF Joins
<1>3. CallsIn(u) = CallsIn(a) /\ Answered(u) = Answered(a)
  <2>1. CallsIn(b) = {} /\ Answered(b) = {}
    BY <1>2, PlainItems
  <2>2. CallsIn(u) = CallsIn(a) \cup CallsIn(b) /\ Answered(u) = Answered(a) \cup Answered(b)
    BY JoinedSets
  <2> QED BY <2>1, <2>2
<1>4. Plain(a) => Plain(u)
  BY JoinedItems DEF Plain
<1> QED BY <1>1, <1>3, <1>4, JoinedWellFormed DEF Unanswered

LEMMA CallsJoin ==
  ASSUME NEW u, NEW a, NEW S \in SUBSET Calls, IsFiniteSet(S), Joins(u, a, EachOf("call", S), Item),
         WellFormed(a), S \cap CallsIn(a) = {}, Unanswered(a) = {}, S \cap Answered(a) = {},
         a # <<>>
  PROVE  /\ WellFormed(u)
         /\ CallsIn(u) = CallsIn(a) \cup S /\ Answered(u) = Answered(a) /\ Unanswered(u) = S
<1> DEFINE b == EachOf("call", S)
<1>1. /\ b \in Seq(Item)
      /\ \A n \in DOMAIN b : \E c \in S : b[n] = Call(c)
      /\ \A c \in S : \E n \in DOMAIN b : b[n] = Call(c)
      /\ IsInjective(b)
  BY EachType DEF Call
<1> HIDE DEF b
<1>2. \A n \in DOMAIN b : IsCall(b[n]) /\ ~IsAnswer(b[n]) /\ b[n][2] \in S
  BY <1>1, CallShape
<1>3. Continues(a, b)
  BY <1>1, <1>2 DEF Continues, IsInjective
<1>4. CallsIn(b) = S /\ Answered(b) = {}
  <2>1. /\ \A c : c \in CallsIn(b) <=> c \in Calls /\ \E n \in DOMAIN b : b[n] = Call(c)
        /\ \A c : c \in Answered(b) <=>
             c \in Calls /\ \E n \in DOMAIN b : IsAnswer(b[n]) /\ b[n][2] = c
    BY <1>1, Members
  <2>2. \A c : c \in CallsIn(b) <=> c \in S
    BY <1>1, <1>2, <2>1, CallShape
  <2>3. \A c : c \notin Answered(b)
    BY <1>2, <2>1
  <2> QED BY <2>2, <2>3
<1>5. WellFormed(u) /\ CallsIn(u) = CallsIn(a) \cup S /\ Answered(u) = Answered(a)
  <2>1. Joins(u, a, b, Item)
    BY DEF b
  <2>2. CallsIn(u) = CallsIn(a) \cup CallsIn(b) /\ Answered(u) = Answered(a) \cup Answered(b)
    BY <2>1, JoinedSets
  <2>3. WellFormed(u)
    BY <1>3, <2>1, JoinedWellFormed
  <2> QED BY <1>4, <2>2, <2>3
<1> QED BY <1>5 DEF Unanswered

LEMMA AbortedJoin ==
  ASSUME NEW u, NEW a, NEW S, IsFiniteSet(S), S \subseteq Unanswered(a),
         Joins(u, a, EachOf("aborted", S), Item), WellFormed(a)
  PROVE  /\ WellFormed(u)
         /\ CallsIn(u) = CallsIn(a) /\ Answered(u) = Answered(a) \cup S
         /\ Unanswered(u) = Unanswered(a) \ S
<1> DEFINE b == EachOf("aborted", S)
<1>1. a \in Seq(Item) /\ S \in SUBSET Calls
  BY CallsAreFew DEF Joins
<1>2. /\ b \in Seq(Item)
      /\ \A n \in DOMAIN b : \E c \in S : b[n] = Aborted(c)
      /\ \A c \in S : \E n \in DOMAIN b : b[n] = Aborted(c)
      /\ IsInjective(b)
  BY <1>1, EachType DEF Aborted
<1> HIDE DEF b
<1>3. \A n \in DOMAIN b : IsAnswer(b[n]) /\ ~IsCall(b[n]) /\ b[n][2] \in S /\ b[n] = Aborted(b[n][2])
  BY <1>1, <1>2, CallShape
<1>4. Continues(a, b)
  BY <1>2, <1>3 DEF Continues, IsInjective
<1>5. CallsIn(b) = {} /\ Answered(b) = S
  <2>1. /\ \A c : c \in CallsIn(b) <=> c \in Calls /\ \E n \in DOMAIN b : b[n] = Call(c)
        /\ \A c : c \in Answered(b) <=>
             c \in Calls /\ \E n \in DOMAIN b : IsAnswer(b[n]) /\ b[n][2] = c
    BY <1>2, Members
  <2>2. \A c : c \notin CallsIn(b)
    BY <1>3, <2>1, CallShape
  <2>3. \A c : c \in Answered(b) <=> c \in S
    <3>1. \A c \in S : \E n \in DOMAIN b : b[n][2] = c
      BY <1>1, <1>2, CallShape
    <3> QED BY <1>1, <1>3, <2>1, <3>1
  <2> QED BY <2>2, <2>3
<1>6. WellFormed(u) /\ CallsIn(u) = CallsIn(a) /\ Answered(u) = Answered(a) \cup S
  <2>1. Joins(u, a, b, Item)
    BY DEF b
  <2>2. CallsIn(u) = CallsIn(a) \cup CallsIn(b) /\ Answered(u) = Answered(a) \cup Answered(b)
    BY <2>1, JoinedSets
  <2>3. WellFormed(u)
    BY <1>4, <2>1, JoinedWellFormed
  <2> QED BY <1>5, <2>2, <2>3
<1> QED BY <1>6 DEF Unanswered

LEMMA OutJoins ==
  ASSUME NEW u, NEW a, NEW c \in Unanswered(a), Joins(u, a, <<Out(c)>>, Item), WellFormed(a)
  PROVE  /\ WellFormed(u)
         /\ CallsIn(u) = CallsIn(a) /\ Answered(u) = Answered(a) \cup {c}
         /\ Unanswered(u) = Unanswered(a) \ {c}
<1>1. PICK b : b = <<Out(c)>>
  OBVIOUS
<1>2. a \in Seq(Item) /\ b \in Seq(Item) /\ c \in Calls
  BY <1>1, CallsAreFew DEF Joins
<1>3. DOMAIN b = {1} /\ b[1] = Out(c)
  BY <1>1
<1>4. IsAnswer(b[1]) /\ ~IsCall(b[1]) /\ b[1][2] = c
  BY <1>2, <1>3, CallShape
<1>5. Continues(a, b)
  BY <1>3, <1>4 DEF Continues
<1>6. CallsIn(b) = {} /\ Answered(b) = {c}
  BY <1>2, <1>3, <1>4, Members, CallShape
<1>7. WellFormed(u) /\ CallsIn(u) = CallsIn(a) /\ Answered(u) = Answered(a) \cup {c}
  BY <1>1, <1>5, <1>6, JoinedWellFormed, JoinedSets
<1> QED BY <1>7 DEF Unanswered

LEMMA PairedIs ==
  ASSUME NEW items \in Seq(Item), WellFormed(items), Unanswered(items) = {}
  PROVE  Paired(items)
<1>1. \A n \in DOMAIN items : items[n] \in Item /\ n \in Nat
  BY LenProperties, ElementOfSeq
<1>2. ASSUME NEW n \in DOMAIN items, items[n][1] = "call"
      PROVE  Cardinality({m \in DOMAIN items :
               items[m] \in {Out(items[n][2]), Aborted(items[n][2])} /\ m > n}) = 1
  <2>1. PICK c \in Calls : items[n] = Call(c) /\ items[n][2] = c
    BY <1>1, <1>2, ItemShape DEF IsCall
  <2>2. c \in Answered(items)
    BY <2>1, Members DEF Unanswered
  <2>3. PICK k \in DOMAIN items : IsAnswer(items[k]) /\ items[k][2] = c
    BY <2>2, Members
  <2>4. k > n
    <3>1. n < k
      BY <2>1, <2>3 DEF WellFormed
    <3> QED BY <1>1, <3>1
  <2>5. {m \in DOMAIN items : items[m] \in {Out(c), Aborted(c)} /\ m > n} = {k}
    <3>1. items[k] \in {Out(c), Aborted(c)}
      BY <1>1, <2>3, ItemShape
    <3>2. \A m \in DOMAIN items : items[m] \in {Out(c), Aborted(c)} => m = k
      BY <2>3, CallShape DEF WellFormed
    <3> QED BY <2>4, <3>1, <3>2
  <2> QED BY <2>1, <2>5, FS_Singleton
<1>3. ASSUME NEW m \in DOMAIN items, NEW n \in DOMAIN items, items[m][1] \in {"out", "aborted"}, m # n,
             items[n] \in {Call(items[m][2]), Out(items[m][2]), Aborted(items[m][2])}
      PROVE  items[n] = Call(items[m][2]) /\ n < m
  <2>1. IsAnswer(items[m]) /\ items[m][2] \in Calls
    BY <1>1, <1>3, ItemShape DEF IsAnswer
  <2>2. items[n] \notin {Out(items[m][2]), Aborted(items[m][2])}
    BY <1>3, <2>1, CallShape DEF WellFormed
  <2> QED BY <1>3, <2>1, <2>2 DEF WellFormed
<1> QED BY <1>2, <1>3 DEF Paired

(* What a trim leaves of a history                                         *)
Keeps(u, a) ==
  \A n \in DOMAIN u : IsCall(u[n]) \/ IsAnswer(u[n]) => \E m \in DOMAIN a : a[m] = u[n]

LEMMA ThinnedKeeps ==
  ASSUME NEW u, NEW a, Thins(u, a)
  PROVE  /\ u \in Seq(Item) /\ a \in Seq(Item) /\ u # <<>> /\ Keeps(u, a)
         /\ CallsIn(u) \subseteq CallsIn(a) /\ Answered(u) \subseteq Answered(a)
         /\ Plain(a) => Plain(u)
<1>1. u \in Seq(Item) /\ a \in Seq(Item) /\ 1 \in DOMAIN u
  BY DEF Thins
<1>2. \A n \in DOMAIN u : \E m \in DOMAIN a : a[m] = u[n]
  BY DEF Thins
<1>3. u # <<>>
  BY <1>1
<1>4. CallsIn(u) \subseteq CallsIn(a) /\ Answered(u) \subseteq Answered(a)
  BY <1>1, <1>2, Members
<1> QED BY <1>1, <1>2, <1>3, <1>4 DEF Keeps, Plain

LEMMA ThinnedWellFormed ==
  ASSUME NEW u, NEW a, Thins(u, a), WellFormed(a)
  PROVE  WellFormed(u) /\ (Unanswered(a) = {} => Unanswered(u) = {})
<1>1. PICK k \in Nat :
        /\ \A n \in DOMAIN u : n # 1 => n + k \in DOMAIN a /\ u[n] = a[n + k]
        /\ \A n \in DOMAIN a : n > k + 1 => n - k \in DOMAIN u
  BY DEF Thins
<1>2. /\ u \in Seq(Item) /\ a \in Seq(Item)
      /\ 1 \in DOMAIN u /\ 1 \in DOMAIN a /\ u[1] = a[1]
  BY DEF Thins
<1>3. (\A n \in DOMAIN u : n \in Nat \ {0}) /\ (\A n \in DOMAIN a : n \in Nat \ {0})
  BY <1>2, LenProperties
<1>4. PICK p : p = [n \in DOMAIN u |-> IF n = 1 THEN 1 ELSE n + k]
  OBVIOUS
<1>5. \A n \in DOMAIN u : p[n] \in DOMAIN a /\ u[n] = a[p[n]] /\ (p[n] = 1 => n = 1)
  BY <1>1, <1>2, <1>3, <1>4
<1>6. \A m, n \in DOMAIN u : (p[m] = p[n] => m = n) /\ (p[m] < p[n] => m < n)
  BY <1>1, <1>3, <1>4
<1>7. WellFormed(u)
  <2>1. \A m, n \in DOMAIN u : IsCall(u[m]) /\ u[m] = u[n] => m = n
    BY <1>5, <1>6 DEF WellFormed
  <2>2. \A m, n \in DOMAIN u : IsAnswer(u[m]) /\ IsAnswer(u[n]) /\ u[m][2] = u[n][2] => m = n
    BY <1>5, <1>6 DEF WellFormed
  <2>3. \A m, n \in DOMAIN u : IsAnswer(u[n]) /\ u[m] = Call(u[n][2]) => m < n
    BY <1>5, <1>6 DEF WellFormed
  <2>4. \A n \in DOMAIN u : IsCall(u[n]) => n # 1
    BY <1>2 DEF WellFormed
  <2> QED BY <2>1, <2>2, <2>3, <2>4 DEF WellFormed
<1>8. ASSUME Unanswered(a) = {}, NEW c \in CallsIn(u) PROVE c \in Answered(u)
  <2>1. PICK n \in DOMAIN u : u[n] = Call(c) /\ c \in Calls
    BY <1>2, <1>8, Members
  <2>2. n # 1 /\ n + k \in DOMAIN a /\ a[n + k] = Call(c)
    BY <1>1, <1>7, <2>1, CallShape DEF WellFormed
  <2>3. c \in Answered(a)
    BY <1>2, <1>8, <2>1, <2>2, Members DEF Unanswered
  <2>4. PICK m \in DOMAIN a : IsAnswer(a[m]) /\ a[m][2] = c
    BY <1>2, <2>3, Members
  <2>5. n + k < m
    BY <2>2, <2>4 DEF WellFormed
  <2>6. m - k \in DOMAIN u /\ m - k # 1 /\ (m - k) + k = m
    BY <1>1, <1>3, <2>2, <2>5
  <2>7. u[m - k] = a[m]
    BY <1>1, <2>6
  <2> QED BY <1>2, <2>1, <2>4, <2>6, <2>7, Members
<1> QED BY <1>7, <1>8 DEF Unanswered

(* A trim may still extend what was saved; what is added has none of its   *)
(* calls and outputs.                                                      *)
LEMMA KeptRestIsPlain ==
  ASSUME NEW u, NEW a, NEW b, Joins(u, a, b, Item), WellFormed(u), Keeps(u, a)
  PROVE  Plain(b)
<1> SUFFICES ASSUME NEW n \in DOMAIN b, IsCall(b[n]) \/ IsAnswer(b[n]) PROVE FALSE
  BY DEF Plain
<1>1. /\ Len(a) \in Nat /\ n \in Nat \ {0} /\ Len(a) + n \in DOMAIN u /\ u[Len(a) + n] = b[n]
      /\ \A m \in DOMAIN a : m \in DOMAIN u /\ u[m] = a[m] /\ m <= Len(a) /\ m \in Nat
  BY JoinedItems
<1>2. PICK m \in DOMAIN a : a[m] = b[n]
  BY <1>1 DEF Keeps
<1>3. m = Len(a) + n
  BY <1>1, <1>2 DEF WellFormed
<1> QED BY <1>1, <1>3
-----------------------------------------------------------------------------
(* The task, the file and the record on its way to it                      *)

Clean(items) == Unanswered(items) = {}

StateIsSound(S) ==
  /\ WellFormed(S.context) /\ WellFormed(S.committed) /\ Clean(S.committed)
  /\ S.last \/ ~S.begun => Clean(S.context)
  /\ S.begun => S.context # <<>>

Good(S, r) ==
  /\ r.kind = "updated" /\ r.status \in {"Completed", "Interrupted"} => Clean(S.context)
  /\ r.kind = "checkpoint" =>
       /\ WellFormed(NewContext(S, r)) /\ NewContext(S, r) # <<>>
       /\ r.last => Clean(NewContext(S, r))
       /\ r.replace \/ Orphans(NewContext(S, r)) \subseteq Orphans(S.context)

FilesAreSound == StateIsSound(Latest) /\ StateIsSound(Canonical)
CommitIsSound == Committing => Good(Latest, commit.record)

AtRest == {"reconcile", "repair", "top", "window", "compacting", "prompt"}
Upcoming == IF Committing THEN Read(Latest, commit.record) ELSE Latest

(* What the task works from is what the file says, or will when the record *)
(* it waits for is in it.                                                  *)
TaskFollowsFile ==
  pc \in Loop =>
    /\ Settled
    /\ pc \in AtRest => commit = Idle
    /\ Upcoming.turn = Turn /\ Upcoming.context = task.context

Adds(items, base) == \E rest : Joins(items, base, rest, Item) /\ Plain(rest)

HistoryIsSound ==
  pc \in Loop =>
    /\ WellFormed(history)
    /\ pc # "complete" /\ (pc = "begin" => task.resumed) => history # <<>>
    /\ pc \notin {"reconcile", "repair", "announce", "tools"} => Clean(history)
    /\ pc \in {"top", "window", "compacting"} => Adds(history, task.context)
    /\ pc = "prompt" => Plain(history) /\ Clean(task.context)
    /\ pc \notin {"top", "window", "compacting", "prompt"} => history = task.context
    /\ pc \notin {"reconcile", "repair", "begin", "complete"}
         => CallsIn(history) \cup Answered(history) \subseteq task.known

(* The calls in FuturesUnordered are those the history has no output of.   *)
ToolsInOrder ==
  \A c \in Calls :
    /\ pc \notin {"announce", "tools", "ending"} => tool[c] = "none"
    /\ pc = "announce" => tool[c] \in {"none", "queued"}
    /\ pc = "announce" /\ tool[c] = "queued" => c \in Unanswered(history)
    /\ pc = "tools" => (c \in Unanswered(history) <=> tool[c] \in {"queued", "running", "done"})

InterruptIsClean ==
  pc \in Leaving /\ task.verdict = "Interrupted" => Clean(Latest.context)

TaskIsSound == TaskFollowsFile /\ HistoryIsSound /\ ToolsInOrder /\ InterruptIsClean
Sound == Ordered /\ FilesAreSound /\ CommitIsSound /\ TaskIsSound

LEMMA NothingIsSound ==
  ASSUME NEW items \in Seq(Item), WellFormed(items), Clean(items)
  PROVE  StateIsSound(NoTurn(items))
<1>1. WellFormed(<<>>) /\ Clean(<<>>)
  <2>1. <<>> \in Seq(Item) /\ Plain(<<>>)
    BY EmptySeq DEF Plain
  <2> QED BY <2>1, PlainItems DEF Clean
<1> QED BY <1>1 DEF StateIsSound, NoTurn

LEMMA ReadKeepsSound ==
  ASSUME NEW S \in StateOf(Item), NEW r \in RecordOf(Item), StateIsSound(S), Good(S, r)
  PROVE  StateIsSound(Read(S, r))
<1>1. /\ r.kind \in {"created", "checkpoint", "updated"}
      /\ r.kind = "updated" => r.status \in {"Running"} \cup TerminalTurn
  BY KindsAre
<1>2. S.context \in Seq(Item) /\ S.committed \in Seq(Item)
  BY DEF StateOf
<1>3. CASE r.kind = "created"
  <2>1. PICK R : R = Read(S, r)
    OBVIOUS
  <2>2. R.committed = S.committed /\ R.context = S.committed /\ R.begun = FALSE
    BY <1>3, <2>1, ReadCreated
  <2> QED BY <2>1, <2>2 DEF StateIsSound
<1>4. CASE r.kind = "checkpoint"
  <2>1. PICK R : R = Read(S, r)
    OBVIOUS
  <2>2. R.committed = S.committed /\ R.context = NewContext(S, r) /\ R.begun = TRUE /\ R.last = r.last
    BY <1>4, <2>1, ReadCheckpoint
  <2> QED BY <1>4, <2>1, <2>2 DEF StateIsSound, Good
<1>5. CASE r.kind = "updated"
  <2>1. CASE r.status \in {"Completed", "Interrupted"}
    <3>1. Read(S, r) = NoTurn(S.context)
      BY <1>5, <2>1, ReadUpdated
    <3> QED BY <1>2, <1>5, <2>1, <3>1, NothingIsSound DEF StateIsSound, Good
  <2>2. CASE r.status \in {"Failed", "Cancelled"}
    <3>1. Read(S, r) = NoTurn(S.committed)
      BY <1>5, <2>2, ReadUpdated
    <3> QED BY <1>2, <3>1, NothingIsSound DEF StateIsSound
  <2>3. CASE r.status = "Running"
    BY <1>5, <2>3, ReadUpdated
  <2> QED BY <1>1, <1>5, <2>1, <2>2, <2>3 DEF TerminalTurn
<1> QED BY <1>1, <1>3, <1>4, <1>5

LEMMA FilesStep ==
  ASSUME Ordered, FilesAreSound, CommitIsSound, [Next]_vars
  PROVE  FilesAreSound'
<1>1. StoreAction(Item)
  BY StoreActs
<1>2. /\ Latest' = Latest \/ (Adding /\ Latest' = Read(Latest, commit.record))
      /\ Canonical' \in {Canonical, Latest'}
  BY <1>1, LatestStep DEF Ordered, TypeOK
<1>3. Latest \in StateOf(Item)
  BY LatestType DEF Ordered, TypeOK
<1>4. Adding => commit.record \in RecordOf(Item) /\ Committing
  BY CommitTypes DEF Ordered, TypeOK, Adding
<1>5. StateIsSound(Latest')
  BY <1>2, <1>3, <1>4, ReadKeepsSound DEF FilesAreSound, CommitIsSound
<1>6. StateIsSound(Latest') /\ StateIsSound(Canonical')
  BY <1>2, <1>5 DEF FilesAreSound
<1> QED BY <1>6 DEF FilesAreSound
-----------------------------------------------------------------------------
(* What the steps of the Store do to what the task knows of the file       *)

LEMMA WritesRows ==
  ASSUME Sound, StoreIdle, OnlyWrites
  PROVE  /\ commit' = Idle /\ CommitIsSound' /\ Latest' = Latest
         /\ Upcoming' = Upcoming /\ Upcoming = Latest /\ (Settled => Settled')
<1>1. commit = Idle /\ commit' = Idle /\ StandsStill
  BY OnlyWritesKeep DEF Sound, StoreIdle
<1>2. ~Committing /\ ~Committing' /\ ~Projecting /\ ~Projecting'
  BY <1>1 DEF Idle, Committing, Projecting
<1>3. Settled => Settled'
  BY <1>1, <1>2 DEF Settled, StandsStill
<1> QED BY <1>1, <1>2, <1>3 DEF CommitIsSound, Upcoming, StandsStill

LEMMA Commits ==
  ASSUME Sound, NEW r, Commit(r)
  PROVE  /\ commit = Idle /\ Latest' = Latest /\ Upcoming = Latest
         /\ commit'.record = r /\ Upcoming' = Read(Latest, r) /\ (Settled => Settled')
         /\ Good(Latest, r) => CommitIsSound'
<1>1. /\ StandsStill /\ commit = Idle /\ ~Projecting /\ ~Projecting'
      /\ commit' = [at |-> "append", record |-> r]
  BY CommitIs DEF Sound
<1>2. ~Committing /\ Committing' /\ commit'.record = r
  BY <1>1 DEF Idle, Committing
<1>3. Settled => Settled'
  BY <1>1 DEF Settled, StandsStill
<1>4. Latest' = Latest
  BY <1>1 DEF StandsStill
<1>5. Good(Latest, r) => Good(Latest', commit'.record)
  BY <1>2, <1>4
<1>6. Good(Latest, r) => CommitIsSound'
  BY <1>5 DEF CommitIsSound, Good, Clean, WellFormed, Unanswered, Orphans, CallsIn, Answered, Of, NewContext
<1> QED BY <1>1, <1>2, <1>3, <1>4, <1>6 DEF Upcoming

(* Saving a history                                                        *)
LEMMA SavesSound ==
  ASSUME Sound, pc \in Loop, NEW items \in Seq(Item), NEW total, NEW step, NEW last, NEW acks,
         WellFormed(items), last => Clean(items), items # <<>>,
         IsPrefix(task.context, items) => Orphans(items) \subseteq Orphans(task.context),
         Save(items, total, step, last, acks)
  PROVE  /\ commit = Idle /\ CommitIsSound' /\ Settled' /\ Latest' = Latest
         /\ task'.turn = task.turn /\ Upcoming'.turn = Turn
         /\ Upcoming'.context = items
         /\ task'.history = items /\ task'.context = items
         /\ task'.known = task.known /\ task'.verdict = task.verdict
<1>1. task \in TaskType
  BY DEF Sound, Ordered, TypeOK, LoopType
<1>2. PICK r : r = SavedRecord(items, total, step, last, acks)
  OBVIOUS
<1>3. Commit(r) /\ task' = SavedTask(items, total, last)
  BY <1>2, SaveIs
<1>4. /\ task'.turn = task.turn /\ task'.history = items /\ task'.context = items
      /\ task'.known = task.known /\ task'.verdict = task.verdict
  BY <1>1, <1>3 DEF SavedTask, TaskType
<1>5. /\ r.kind = "checkpoint" /\ r.replace = ~IsPrefix(task.context, items)
      /\ r.items = NewItems(items) /\ r.last = last
  BY <1>2 DEF SavedRecord, Checkpoint
<1>6. /\ commit = Idle /\ Latest' = Latest /\ Upcoming = Latest
      /\ Upcoming' = Read(Latest, r) /\ (Settled => Settled')
      /\ Good(Latest, r) => CommitIsSound'
  BY <1>3, Commits
<1>7. Settled /\ Latest.turn = Turn /\ Latest.context = task.context
  BY <1>6 DEF Sound, TaskIsSound, TaskFollowsFile
<1>8. NewContext(Latest, r) = items
  <2>1. task.context \in Seq(Item)
    BY <1>1, TaskIsARecord
  <2>2. IsPrefix(task.context, items) => task.context \o NewItems(items) = items
    BY <2>1, NewItemsType
  <2>3. ~IsPrefix(task.context, items) => NewItems(items) = items
    BY DEF NewItems
  <2> QED BY <1>5, <1>7, <2>2, <2>3 DEF NewContext
<1>9. Good(Latest, r)
  BY <1>5, <1>7, <1>8 DEF Good
<1>10. Latest \in StateOf(Item)
  BY LatestType DEF Sound, Ordered, TypeOK
<1>11. Upcoming'.turn = Latest.turn /\ Upcoming'.context = NewContext(Latest, r)
  <2>1. PICK R : R = Read(Latest, r)
    OBVIOUS
  <2>2. R.turn = Latest.turn /\ R.context = NewContext(Latest, r)
    BY <1>5, <1>10, <2>1, ReadCheckpoint
  <2> QED BY <1>6, <2>1, <2>2
<1> QED BY <1>4, <1>6, <1>7, <1>8, <1>9, <1>11

(* A step of the loop that commits nothing, and one that saves             *)
LEMMA WorksOn ==
  ASSUME Sound, pc \in Loop, StoreIdle, OnlyWrites, task'.turn = task.turn,
         task'.context = task.context
  PROVE  TaskFollowsFile' /\ CommitIsSound' /\ Latest' = Latest /\ Latest.context = task.context
<1>1. /\ commit' = Idle /\ CommitIsSound' /\ Latest' = Latest
      /\ Upcoming' = Upcoming /\ Upcoming = Latest /\ (Settled => Settled')
  BY WritesRows
<1>2. Settled /\ Upcoming.turn = Turn /\ Upcoming.context = task.context
  BY DEF Sound, TaskIsSound, TaskFollowsFile
<1> QED BY <1>1, <1>2 DEF TaskFollowsFile, Turn

LEMMA SavesOn ==
  ASSUME Sound, pc \in Loop, pc' \in Loop \ AtRest, NEW items \in Seq(Item), NEW total, NEW step,
         NEW last, NEW acks, WellFormed(items), last => Clean(items), items # <<>>,
         IsPrefix(task.context, items) => Orphans(items) \subseteq Orphans(task.context),
         Save(items, total, step, last, acks)
  PROVE  /\ TaskFollowsFile' /\ CommitIsSound'
         /\ task'.history = items /\ task'.context = items
         /\ task'.known = task.known
<1>1. /\ commit = Idle /\ CommitIsSound' /\ Settled' /\ Latest' = Latest
      /\ task'.turn = task.turn /\ Upcoming'.turn = Turn
      /\ Upcoming'.context = items
      /\ task'.history = items /\ task'.context = items
      /\ task'.known = task.known /\ task'.verdict = task.verdict
  BY SavesSound
<1> QED BY <1>1 DEF TaskFollowsFile, Turn

(* A step that leaves the loop, or is not in it                            *)
LEMMA Leaves ==
  ASSUME pc' \notin Loop,
         \A c \in Calls : pc' # "ending" => tool'[c] = "none",
         pc' \in Leaving /\ task'.verdict = "Interrupted" => Clean(Latest'.context)
  PROVE  TaskIsSound'
<1>1. TaskFollowsFile' /\ HistoryIsSound'
  BY DEF TaskFollowsFile, HistoryIsSound
<1>2. ToolsInOrder'
  BY DEF ToolsInOrder, Loop
<1>3. InterruptIsClean'
  BY DEF InterruptIsClean
<1> QED BY <1>1, <1>2, <1>3 DEF TaskIsSound

LEMMA InTheLoop ==
  ASSUME TaskFollowsFile', HistoryIsSound', ToolsInOrder', pc' \in Loop
  PROVE  TaskIsSound'
BY DEF InterruptIsClean, TaskIsSound, Loop, Leaving

(* The calls in flight, where the task has none                            *)
LEMMA NoneInFlight ==
  ASSUME ToolsInOrder, pc \notin {"announce", "tools", "ending"}, UNCHANGED tool,
         pc' \notin {"announce", "tools"}
  PROVE  ToolsInOrder'
BY DEF ToolsInOrder

LEMMA LeavesWith ==
  ASSUME Sound, StoreIdle, OnlyWrites, NEW verdict \in {"Failed", "Cancelled"}, Leave(verdict)
  PROVE  TaskIsSound' /\ CommitIsSound'
<1>1. task'.verdict = verdict /\ pc' = "ending"
  BY DEF Leave, Sound, Ordered, TypeOK, LoopType, TaskType
<1>2. pc' \notin Loop
  BY <1>1 DEF Loop
<1>3. CommitIsSound'
  BY WritesRows
<1> QED BY <1>1, <1>2, <1>3, Leaves
-----------------------------------------------------------------------------
(* Beginning                                                               *)

LEMMA ReconcileSound ==
  ASSUME Sound, Reconcile
  PROVE  TaskIsSound' /\ CommitIsSound'
<1>1. /\ pc = "reconcile" /\ StoreIdle /\ UNCHANGED <<rolloutVars, task, tool>>
      /\ pc' \in {"reconcile", "repair"}
  BY DEF Reconcile, At
<1>2. pc \in Loop /\ pc' \in Loop
  BY <1>1 DEF Loop
<1>3. TaskFollowsFile' /\ CommitIsSound'
  BY <1>1, <1>2, WorksOn DEF OnlyWrites
<1>4. HistoryIsSound'
  BY <1>1, <1>2 DEF Sound, TaskIsSound, HistoryIsSound, history
<1>5. ToolsInOrder'
  BY <1>1, NoneInFlight DEF Sound, TaskIsSound
<1> QED BY <1>2, <1>3, <1>4, <1>5, InTheLoop

LEMMA RepairSound ==
  ASSUME Sound, Repair
  PROVE  TaskIsSound' /\ CommitIsSound'
<1>1. pc = "repair" /\ pc' = "begin" /\ StoreIdle /\ UNCHANGED tool /\ pc \in Loop
      /\ pc' \in Loop \ AtRest
  BY DEF Repair, At, Loop, AtRest
<1>2. history \in Seq(Item) /\ WellFormed(history) /\ history = task.context /\ history # <<>>
  BY <1>1, TaskIsARecord DEF Sound, Ordered, TypeOK, LoopType, TaskIsSound, HistoryIsSound, history
<1>3. ToolsInOrder'
  BY <1>1, NoneInFlight DEF Sound, TaskIsSound
<1>4. CASE Clean(history)
  <2>1. UNCHANGED <<rolloutVars, task>>
    BY <1>4 DEF Repair, Clean
  <2>2. TaskFollowsFile' /\ CommitIsSound'
    BY <1>1, <2>1, WorksOn DEF OnlyWrites
  <2>3. HistoryIsSound'
    BY <1>1, <1>2, <1>4, <2>1 DEF HistoryIsSound, history
  <2> QED BY <1>1, <1>3, <2>2, <2>3, InTheLoop
<1>5. CASE ~Clean(history)
  <2>1. PICK items : items = history \o EachOf("aborted", Unanswered(history))
    OBVIOUS
  <2>2. IsFiniteSet(Unanswered(history)) /\ Unanswered(history) \in SUBSET Calls
    BY <1>2, CallsAreFew
  <2>3. EachOf("aborted", Unanswered(history)) \in Seq(Item)
    BY <2>2, EachType
  <2>4. items \in Seq(Item) /\ Joins(items, history, EachOf("aborted", Unanswered(history)), Item)
    BY <1>2, <2>1, <2>3, ConcatProperties DEF Joins
  <2>5. /\ WellFormed(items) /\ Unanswered(items) = Unanswered(history) \ Unanswered(history)
        /\ Orphans(items) \subseteq Orphans(history) /\ items # <<>>
    <3>1. /\ WellFormed(items) /\ CallsIn(items) = CallsIn(history)
          /\ Answered(items) = Answered(history) \cup Unanswered(history)
          /\ Unanswered(items) = Unanswered(history) \ Unanswered(history)
      BY <1>2, <2>2, <2>4, AbortedJoin
    <3>2. items # <<>>
      BY <1>2, <2>4, JoinedNonempty
    <3> QED BY <3>1, <3>2 DEF Orphans, Unanswered
  <2>6. Clean(items)
    BY <2>5 DEF Clean
  <2>7. Save(items, task.total, task.step, task.last, {})
    <3>1. Save(history \o Each(Aborted, Unanswered(history)), task.total, task.step, task.last, {})
      BY <1>5 DEF Repair, Clean
    <3> QED BY <2>1, <3>1, EachIs
  <2>8. /\ TaskFollowsFile' /\ CommitIsSound'
        /\ task'.history = items /\ task'.context = items /\ task'.known = task.known
    BY <1>1, <1>2, <2>4, <2>5, <2>6, <2>7, SavesOn
  <2>9. HistoryIsSound'
    BY <1>1, <2>5, <2>6, <2>8 DEF HistoryIsSound, history
  <2> QED BY <1>1, <1>3, <2>8, <2>9, InTheLoop
<1> QED BY <1>4, <1>5

LEMMA BeginSound ==
  ASSUME Sound, Begin
  PROVE  TaskIsSound' /\ CommitIsSound'
<1>1. pc = "begin" /\ StoreIdle /\ UNCHANGED <<tool, rolloutVars>> /\ pc \in Loop
      /\ pc' \in {"complete", "top"} /\ pc' \in Loop
  BY DEF Begin, At, Loop
<1>2. /\ history \in Seq(Item) /\ WellFormed(history) /\ history = task.context /\ Clean(history)
      /\ task \in TaskType /\ Turn \in Turns /\ (task.resumed => history # <<>>)
  BY <1>1, TaskIsARecord DEF Sound, Ordered, TypeOK, LoopType, TaskIsSound, HistoryIsSound, history
<1>3. ToolsInOrder'
  BY <1>1, NoneInFlight DEF Sound, TaskIsSound
<1>4. CASE UNCHANGED task /\ pc' = "complete"
  <2>1. TaskFollowsFile' /\ CommitIsSound'
    BY <1>1, <1>4, WorksOn DEF OnlyWrites
  <2>2. HistoryIsSound'
    BY <1>2, <1>4 DEF HistoryIsSound, history
  <2> QED BY <1>1, <1>3, <2>1, <2>2, InTheLoop
<1>5. CASE pc' = "top"
  <2>1. PICK items : items = IF task.resumed THEN history ELSE Append(history, Ask(Turn))
    OBVIOUS
  <2>2. PICK known : known = CallsIn(items) \cup Answered(items)
    OBVIOUS
  <2>3. task' = [task EXCEPT !.history = items, !.step = @ + 1, !.known = known]
    BY <1>5, <2>1, <2>2 DEF Begin
  <2>4. task'.history = items /\ task'.context = task.context /\ task'.turn = task.turn
        /\ task'.known = known
    BY <1>2, <2>3 DEF TaskType
  <2>5. \E rest : Joins(items, history, rest, Item) /\ Plain(rest)
                 /\ (history # <<>> \/ rest # <<>>)
    <3>1. CASE task.resumed
      <4>1. Joins(history, history, <<>>, Item) /\ Plain(<<>>)
        BY <1>2, EmptySeq, ConcatEmptySeq DEF Joins, Plain
      <4> QED BY <1>2, <2>1, <3>1, <4>1
    <3>2. CASE ~task.resumed
      <4>1. Joins(Append(history, Ask(Turn)), history, <<Ask(Turn)>>, Item)
        BY <1>2, ItemsAre, AppendsItem
      <4>2. Plain(<<Ask(Turn)>>) /\ <<Ask(Turn)>> # <<>>
        BY DEF Plain, IsCall, IsAnswer, Ask
      <4> QED BY <2>1, <3>2, <4>1, <4>2
    <3> QED BY <3>1, <3>2
  <2>6. PICK rest : Joins(items, history, rest, Item) /\ Plain(rest)
                    /\ (history # <<>> \/ rest # <<>>)
    BY <2>5
  <2>7. WellFormed(items) /\ Clean(items) /\ items # <<>>
    BY <1>2, <2>6, PlainJoins, JoinedNonempty DEF Clean
  <2>8. Adds(items, task.context)
    BY <1>2, <2>6 DEF Adds
  <2>9. TaskFollowsFile' /\ CommitIsSound'
    BY <1>1, <2>4, WorksOn DEF OnlyWrites
  <2>10. HistoryIsSound'
    BY <1>5, <2>2, <2>4, <2>7, <2>8 DEF HistoryIsSound, history
  <2> QED BY <1>1, <1>3, <2>9, <2>10, InTheLoop
<1>6. (UNCHANGED task /\ pc' = "complete") \/ pc' = "top"
  BY DEF Begin
<1> QED BY <1>4, <1>5, <1>6
-----------------------------------------------------------------------------
(* What the loop puts into a history beside calls and outputs              *)

LEMMA AddsOn ==
  ASSUME NEW u, NEW a, NEW b, NEW c, Joins(u, a, b, Item), Plain(b), Adds(a, c)
  PROVE  Adds(u, c)
<1>1. PICK rest : Joins(a, c, rest, Item) /\ Plain(rest)
  BY DEF Adds
<1>2. u = a \o b /\ a = c \o rest
      /\ a \in Seq(Item) /\ b \in Seq(Item) /\ c \in Seq(Item) /\ rest \in Seq(Item)
  BY <1>1 DEF Joins
<1>3. \A x, y, z \in Seq(Item) : (x \o y) \o z = x \o (y \o z)
  BY ConcatAssociative
<1>4. PICK more \in Seq(Item) : more = rest \o b
  BY <1>2, ConcatProperties
<1>5. Joins(u, c, more, Item)
  BY <1>2, <1>3, <1>4 DEF Joins
<1>6. Plain(more)
  <2>1. Joins(more, rest, b, Item)
    BY <1>2, <1>4 DEF Joins
  <2> QED BY <1>1, <2>1, PlainJoins
<1> QED BY <1>5, <1>6 DEF Adds

LEMMA AddsNothing == \A a \in Seq(Item) : Adds(a, a)
<1> TAKE a \in Seq(Item)
<1>1. <<>> \in Seq(Item) /\ Plain(<<>>)
  BY EmptySeq DEF Plain
<1>2. Joins(a, a, <<>>, Item)
  BY <1>1, ConcatEmptySeq DEF Joins
<1> QED BY <1>1, <1>2 DEF Adds

LEMMA AddsPlain ==
  ASSUME NEW u, NEW a, Adds(u, a)
  PROVE  /\ u \in Seq(Item) /\ a \in Seq(Item)
         /\ WellFormed(a) => WellFormed(u)
         /\ CallsIn(u) = CallsIn(a) /\ Answered(u) = Answered(a) /\ (Clean(u) <=> Clean(a))
         /\ Plain(a) => Plain(u)
         /\ Orphans(u) = Orphans(a) /\ (a # <<>> => u # <<>>)
<1>1. PICK rest : Joins(u, a, rest, Item) /\ Plain(rest)
  BY DEF Adds
<1>2. u \in Seq(Item) /\ a \in Seq(Item) /\ (a # <<>> => u # <<>>)
  BY <1>1, JoinedItems, JoinedNonempty
<1> QED BY <1>1, <1>2, PlainJoins DEF Clean, Orphans

LEMMA AddsKeep ==
  ASSUME NEW u, NEW a, Adds(u, a)
  PROVE  Keeps(u, a)
<1>1. PICK rest : Joins(u, a, rest, Item) /\ Plain(rest)
  BY DEF Adds
<1> QED BY <1>1, JoinedItems DEF Keeps, Plain

LEMMA AddsAnItem ==
  ASSUME NEW a \in Seq(Item), NEW x \in Item, ~IsCall(x), ~IsAnswer(x)
  PROVE  Adds(Append(a, x), a)
<1>1. Joins(Append(a, x), a, <<x>>, Item)
  BY AppendsItem
<1>2. Plain(<<x>>)
  BY DEF Plain
<1> QED BY <1>1, <1>2 DEF Adds

LEMMA PlainKinds ==
  /\ \A i \in Inputs : ~IsCall(Said(i)) /\ ~IsAnswer(Said(i))
  /\ \A t \in Turns : ~IsCall(Ask(t)) /\ ~IsAnswer(Ask(t)) /\ ~IsCall(Answer(t)) /\ ~IsAnswer(Answer(t))
  /\ ~IsCall(Summary) /\ ~IsAnswer(Summary) /\ ~IsCall(FinishNow) /\ ~IsAnswer(FinishNow)
  /\ \A x : IsAsk(x) => ~IsCall(x) /\ ~IsAnswer(x)
<1>1. \A i \in Inputs : Kind[i] \in {"message", "interrupt", "finish"}
  BY RolloutAssumption
<1>2. \A i \in Inputs : ~IsCall(Said(i)) /\ ~IsAnswer(Said(i))
  BY <1>1 DEF IsCall, IsAnswer, Said
<1> QED BY <1>2 DEF IsCall, IsAnswer, Ask, Answer, Summary, FinishNow, IsAsk, UserItems

LEMMA ShowingIsPlain ==
  ASSUME NEW got \in FewInputs, NEW h \in Seq(Item)
  PROVE  Adds(h \o Showing(got), h)
<1>1. PICK finish \in SUBSET Inputs : finish = {i \in got : Kind[i] = "finish"}
  BY DEF FewInputs
<1>2. PICK message \in SUBSET Inputs : message = {i \in got : Kind[i] = "message"}
  BY DEF FewInputs
<1>3. IsFiniteSet(finish) /\ IsFiniteSet(message)
  BY <1>1, <1>2, FS_Subset DEF FewInputs
<1>4. PICK first : first = IF finish = {} THEN <<>> ELSE <<Said(Max(finish))>>
  OBVIOUS
<1>5. PICK second : second = SaidOf(message)
  OBVIOUS
<1>6. first \in Seq(Item) /\ Plain(first)
  <2>1. CASE finish = {}
    <3>1. <<>> \in Seq(Item) /\ Plain(<<>>)
      BY EmptySeq DEF Plain
    <3> QED BY <1>4, <2>1, <3>1
  <2>2. CASE finish # {}
    <3>1. Max(finish) \in Inputs
      BY <1>3, <2>2, RolloutAssumption, MaxIs
    <3>2. PICK x \in Item : x = Said(Max(finish)) /\ ~IsCall(x) /\ ~IsAnswer(x)
      BY <3>1, ItemsAre, PlainKinds
    <3>3. <<x>> \in Seq(Item) /\ Plain(<<x>>)
      BY <3>2 DEF Plain
    <3> QED BY <1>4, <2>2, <3>2, <3>3
  <2> QED BY <2>1, <2>2
<1>7. second \in Seq(Item) /\ Plain(second)
  <2>1. /\ SaidOf(message) \in Seq(Item)
        /\ \A n \in DOMAIN SaidOf(message) :
             Nth(message, n) \in message /\ SaidOf(message)[n] = Said(Nth(message, n))
    BY <1>3, SaidType
  <2> QED BY <1>5, <2>1, PlainKinds DEF Plain
<1>8. Showing(got) = first \o second
  BY <1>1, <1>2, <1>4, <1>5 DEF Showing
<1>9. Showing(got) \in Seq(Item) /\ Plain(Showing(got))
  <2>1. Joins(Showing(got), first, second, Item)
    BY <1>6, <1>7, <1>8 DEF Joins
  <2> QED BY <1>6, <1>7, <2>1, PlainJoins, JoinedItems
<1>10. Joins(h \o Showing(got), h, Showing(got), Item)
  BY <1>9 DEF Joins
<1> QED BY <1>9, <1>10 DEF Adds

LEMMA CompactedIsPlain ==
  ASSUME NEW items \in Seq(Item)
  PROVE  Plain(Compacted(items)) /\ Compacted(items) \in Seq(Item) /\ Compacted(items) # <<>>
<1>1. PICK kept \in Seq(Item) : kept = ItemsAt(items, Newest(items))
  BY CompactedIs
<1>2. Compacted(items) = Append(kept, Summary) /\ Summary \in Item
      /\ \A n \in DOMAIN kept : IsAsk(kept[n])
  BY <1>1, CompactedIs
<1>3. Plain(kept)
  BY <1>2, PlainKinds DEF Plain
<1>4. Adds(Append(kept, Summary), kept)
  BY <1>2, AddsAnItem, PlainKinds
<1>5. Append(kept, Summary) # <<>>
  BY <1>2, AppendProperties
<1> QED BY <1>2, <1>3, <1>4, <1>5, AddsPlain
-----------------------------------------------------------------------------
(* The loop up to a sample                                                 *)

LEMMA TopSound ==
  ASSUME Sound, Top
  PROVE  TaskIsSound' /\ CommitIsSound'
<1>1. pc = "top" /\ StoreIdle /\ UNCHANGED tool /\ pc \in Loop
      /\ Turn \in Turns /\ task \in TaskType /\ history \in Seq(Item)
  BY TaskIsARecord DEF Top, At, Loop, Sound, Ordered, TypeOK, LoopType, history
<1>2. /\ WellFormed(history) /\ Clean(history) /\ Adds(history, task.context)
      /\ CallsIn(history) \cup Answered(history) \subseteq task.known /\ history # <<>>
  BY <1>1 DEF Sound, TaskIsSound, HistoryIsSound
<1>3. CASE cancelled
  <2>1. Leave("Cancelled") /\ OnlyWrites
    BY <1>3 DEF Top, OnlyWrites
  <2> QED BY <1>1, <2>1, LeavesWith
<1>4. CASE ~cancelled
  <2>1. PICK got \in FewInputs : got = Claimable(Turn)
    BY <1>1, ClaimableIsFew DEF Sound, Ordered, TypeOK, StoreType, StoreIsInOrder
  <2>2. OnlyWrites
    BY <1>1, <1>4, RowsWork DEF Top
  <2>3. PICK all : all = history \o Showing(got)
    OBVIOUS
  <2>4. Adds(all, history)
    BY <1>1, <2>3, ShowingIsPlain
  <2>5. \/ /\ pc' = "ending"
           /\ task' = [task EXCEPT !.verdict = "Interrupted", !.acks = got]
        \/ /\ pc' = "window"
           /\ task' = [task EXCEPT !.acks = got,
                        !.final = @ \/ {i \in got : Kind[i] = "finish"} # {}, !.history = all]
    <3>1. InOrder(Said, {i \in got : Kind[i] = "message"}) = SaidOf({i \in got : Kind[i] = "message"})
      BY ShowingType
    <3>2. (history \o (IF {i \in got : Kind[i] = "finish"} = {} THEN <<>>
                       ELSE <<Said(Max({i \in got : Kind[i] = "finish"}))>>))
                      \o SaidOf({i \in got : Kind[i] = "message"}) = all
      BY <1>1, <2>3, ShowingType
    <3> QED BY <1>4, <2>1, <3>1, <3>2 DEF Top, history
  <2>6. CASE task' = [task EXCEPT !.verdict = "Interrupted", !.acks = got] /\ pc' = "ending"
    <3>1. task'.turn = task.turn /\ task'.context = task.context
      BY <1>1, <2>6 DEF TaskType
    <3>2. CommitIsSound' /\ Latest' = Latest /\ Latest.context = task.context
      BY <1>1, <2>2, <3>1, WorksOn
    <3>3. Clean(Latest'.context)
      BY <1>2, <3>2, AddsPlain
    <3>4. pc' \notin Loop
      BY <2>6 DEF Loop
    <3> QED BY <2>6, <3>2, <3>3, <3>4, Leaves
  <2>7. CASE pc' = "window" /\ task' = [task EXCEPT !.acks = got,
               !.final = @ \/ {i \in got : Kind[i] = "finish"} # {}, !.history = all]
    <3>1. /\ task'.turn = task.turn /\ task'.context = task.context
          /\ task'.history = all /\ task'.known = task.known
      BY <1>1, <2>7 DEF TaskType
    <3>2. TaskFollowsFile' /\ CommitIsSound'
      BY <1>1, <2>2, <3>1, WorksOn
    <3>3. Adds(all, task.context)
      <4>1. PICK more : Joins(all, history, more, Item) /\ Plain(more)
        BY <2>4 DEF Adds
      <4> QED BY <1>2, <4>1, AddsOn
    <3>4. /\ WellFormed(all) /\ Clean(all) /\ all # <<>>
          /\ CallsIn(all) \cup Answered(all) \subseteq task.known
      BY <1>2, <2>4, AddsPlain
    <3>5. HistoryIsSound'
      BY <2>7, <3>1, <3>3, <3>4 DEF HistoryIsSound, history
    <3>6. ToolsInOrder'
      BY <1>1, <2>7, NoneInFlight DEF Sound, TaskIsSound
    <3>7. pc' \in Loop
      BY <2>7 DEF Loop
    <3> QED BY <3>2, <3>5, <3>6, <3>7, InTheLoop
  <2> QED BY <2>5, <2>6, <2>7
<1> QED BY <1>3, <1>4

LEMMA CompactSound ==
  ASSUME Sound
  PROVE  /\ CompactStart => TaskIsSound' /\ CommitIsSound'
         /\ CompactDone => TaskIsSound' /\ CommitIsSound'
         /\ CompactFails \/ BeginFails => TaskIsSound' /\ CommitIsSound'
<1>1. task \in TaskType
  BY DEF Sound, Ordered, TypeOK, LoopType
<1>2. ASSUME CompactStart PROVE TaskIsSound' /\ CommitIsSound'
  <2>1. pc = "window" /\ pc' = "compacting" /\ StoreIdle /\ OnlyWrites /\ UNCHANGED tool
        /\ pc \in Loop /\ pc' \in Loop
    BY <1>2 DEF CompactStart, At, Loop, OnlyWrites
  <2>2. /\ task'.turn = task.turn /\ task'.context = task.context
        /\ task'.history = task.history /\ task'.known = task.known
    BY <1>1, <1>2 DEF CompactStart, TaskType
  <2>3. TaskFollowsFile' /\ CommitIsSound'
    BY <2>1, <2>2, WorksOn
  <2>4. HistoryIsSound'
    BY <2>1, <2>2 DEF Sound, TaskIsSound, HistoryIsSound, history
  <2>5. ToolsInOrder'
    BY <2>1, NoneInFlight DEF Sound, TaskIsSound
  <2> QED BY <2>1, <2>3, <2>4, <2>5, InTheLoop
<1>3. ASSUME CompactDone PROVE TaskIsSound' /\ CommitIsSound'
  <2>1. pc = "compacting" /\ pc' = "prompt" /\ StoreIdle /\ OnlyWrites /\ UNCHANGED tool
        /\ pc \in Loop /\ pc' \in Loop /\ history \in Seq(Item)
    BY <1>1, <1>3, TaskIsARecord DEF CompactDone, At, Loop, OnlyWrites, history
  <2>2. PICK h : h = Compacted(history)
    OBVIOUS
  <2>3. /\ task'.turn = task.turn /\ task'.context = task.context
        /\ task'.history = h /\ task'.known = task.known
    BY <1>1, <1>3, <2>2 DEF CompactDone, TaskType, history
  <2>4. TaskFollowsFile' /\ CommitIsSound'
    BY <2>1, <2>3, WorksOn
  <2>5. Plain(h) /\ WellFormed(h) /\ Clean(h) /\ CallsIn(h) = {} /\ Answered(h) = {} /\ h # <<>>
    BY <2>1, <2>2, CompactedIsPlain, PlainItems DEF Clean
  <2>6. Clean(task.context)
    BY <2>1, AddsPlain DEF Sound, TaskIsSound, HistoryIsSound
  <2>7. HistoryIsSound'
    BY <2>1, <2>3, <2>5, <2>6 DEF HistoryIsSound, history
  <2>8. ToolsInOrder'
    BY <2>1, NoneInFlight DEF Sound, TaskIsSound
  <2> QED BY <2>1, <2>4, <2>7, <2>8, InTheLoop
<1>4. CompactFails \/ BeginFails => TaskIsSound' /\ CommitIsSound'
  BY LeavesWith DEF CompactFails, BeginFails, At, OnlyWrites
<1> QED BY <1>2, <1>3, <1>4

(* What is saved before a sample adds to the saved context or, when it is  *)
(* trimmed or compacted, has no calls and outputs but those of it.         *)
LEMMA SampledIs ==
  ASSUME Sound, pc \in {"prompt", "window"}, ~Strays
  PROVE  /\ Sampled \in Seq(Item) /\ Sampled # <<>>
         /\ WellFormed(Sampled) /\ Clean(Sampled)
         /\ CallsIn(Sampled) \cup Answered(Sampled) \subseteq task.known
         /\ Keeps(Sampled, task.context)
         /\ IsPrefix(task.context, Sampled) => Adds(Sampled, task.context)
<1>1. history \in Seq(Item) /\ task \in TaskType /\ task.context \in Seq(Item) /\ pc \in Loop
  BY TaskIsARecord DEF Loop, Sound, Ordered, TypeOK, LoopType, history
<1>2. /\ WellFormed(history) /\ Clean(history) /\ history # <<>>
      /\ CallsIn(history) \cup Answered(history) \subseteq task.known
      /\ pc = "window" => Adds(history, task.context)
      /\ pc = "prompt" => Plain(history)
  BY <1>1 DEF Sound, TaskIsSound, HistoryIsSound
<1>3. PICK all : all = Prompted
  OBVIOUS
<1>4. Adds(all, history)
  <2>1. CASE all = history
    BY <1>1, <2>1, AddsNothing
  <2>2. CASE all = Append(history, FinishNow)
    BY <1>1, <2>2, AddsAnItem, PlainKinds, ItemsAre
  <2> QED BY <1>3, <2>1, <2>2 DEF Prompted
<1>5. /\ all \in Seq(Item) /\ WellFormed(all) /\ Clean(all) /\ all # <<>>
      /\ CallsIn(all) \cup Answered(all) \subseteq task.known
      /\ pc = "prompt" => Plain(all)
  BY <1>2, <1>4, AddsPlain
<1>6. PICK items : items = Sampled
  OBVIOUS
<1>7. Thins(items, all)
  BY <1>3, <1>5, <1>6, TrimThins DEF Sampled
<1>8. /\ items \in Seq(Item) /\ items # <<>> /\ WellFormed(items) /\ Clean(items)
      /\ CallsIn(items) \cup Answered(items) \subseteq task.known
      /\ Keeps(items, all) /\ (pc = "prompt" => Plain(items))
  BY <1>5, <1>7, ThinnedKeeps, ThinnedWellFormed DEF Clean
<1>9. Keeps(items, task.context)
  <2>1. CASE pc = "prompt"
    BY <1>8, <2>1 DEF Keeps, Plain
  <2>2. CASE pc = "window"
    <3>1. Keeps(all, history) /\ Keeps(history, task.context)
      BY <1>2, <1>4, <2>2, AddsKeep
    <3> QED BY <1>8, <3>1 DEF Keeps
  <2> QED BY <2>1, <2>2
<1>10. ASSUME IsPrefix(task.context, items) PROVE Adds(items, task.context)
  <2>1. PICK rest \in Seq(Item) : task.context \o rest = items
    BY <1>1, <1>8, <1>10, NewItemsType
  <2>2. Joins(items, task.context, rest, Item)
    BY <1>1, <2>1 DEF Joins
  <2> QED BY <1>8, <1>9, <2>2, KeptRestIsPlain DEF Adds
<1> QED BY <1>6, <1>8, <1>9, <1>10

LEMMA PromptSound ==
  ASSUME Sound, Prompt
  PROVE  TaskIsSound' /\ CommitIsSound'
<1>1. pc \in {"prompt", "window"} /\ StoreIdle /\ UNCHANGED tool /\ pc \in Loop
  BY PromptIs DEF At, Loop
<1>2. CASE Leave("Failed") /\ UNCHANGED rolloutVars
  BY <1>1, <1>2, LeavesWith DEF OnlyWrites
<1>3. CASE /\ Save(Sampled, task.total, task.step - 1, FALSE, task.acks)
           /\ pc' = "sample" /\ ~Strays
  <2>1. PICK items : items = Sampled
    OBVIOUS
  <2>2. /\ items \in Seq(Item) /\ WellFormed(items) /\ Clean(items) /\ items # <<>>
        /\ CallsIn(items) \cup Answered(items) \subseteq task.known
        /\ IsPrefix(task.context, items) => Orphans(items) \subseteq Orphans(task.context)
    BY <1>1, <1>3, <2>1, SampledIs, AddsPlain
  <2>3. pc' \in Loop \ AtRest
    BY <1>3 DEF Loop, AtRest
  <2>4. /\ TaskFollowsFile' /\ CommitIsSound'
        /\ task'.history = items /\ task'.context = items /\ task'.known = task.known
    BY <1>1, <1>3, <2>1, <2>2, <2>3, SavesOn
  <2>5. HistoryIsSound'
    BY <1>3, <2>2, <2>4 DEF HistoryIsSound, history
  <2>6. ToolsInOrder'
    BY <1>1, <1>3, NoneInFlight DEF Sound, TaskIsSound
  <2> QED BY <2>3, <2>4, <2>5, <2>6, InTheLoop
<1> QED BY <1>2, <1>3, PromptIs
-----------------------------------------------------------------------------
(* Samples                                                                 *)

LEMMA AnswerSound ==
  ASSUME Sound, SampleAnswer
  PROVE  TaskIsSound' /\ CommitIsSound'
<1>1. pc = "sample" /\ pc' = "complete" /\ UNCHANGED tool /\ pc \in Loop
      /\ history \in Seq(Item) /\ Turn \in Turns
  BY TaskIsARecord DEF SampleAnswer, At, Loop, Sound, Ordered, TypeOK, LoopType, history
<1>2. WellFormed(history) /\ Clean(history) /\ history # <<>> /\ history = task.context
  BY <1>1 DEF Sound, TaskIsSound, HistoryIsSound
<1>3. PICK items : items = Append(history, Answer(Turn))
  OBVIOUS
<1>4. Adds(items, history)
  BY <1>1, <1>3, AddsAnItem, PlainKinds, ItemsAre
<1>5. /\ items \in Seq(Item) /\ WellFormed(items) /\ Clean(items) /\ items # <<>>
      /\ Orphans(items) = Orphans(task.context)
  BY <1>2, <1>4, AddsPlain
<1>6. Save(items, task.total + task.wasted + 1, task.step, TRUE, {})
  BY <1>3 DEF SampleAnswer
<1>7. pc' \in Loop \ AtRest
  BY <1>1 DEF Loop, AtRest
<1>8. /\ TaskFollowsFile' /\ CommitIsSound'
      /\ task'.history = items /\ task'.context = items
  BY <1>1, <1>5, <1>6, <1>7, SavesOn
<1>9. HistoryIsSound'
  BY <1>1, <1>5, <1>8 DEF HistoryIsSound, history
<1>10. ToolsInOrder'
  BY <1>1, NoneInFlight DEF Sound, TaskIsSound
<1> QED BY <1>7, <1>8, <1>9, <1>10, InTheLoop

LEMMA CallsSound ==
  ASSUME Sound, NEW S \in Responses, SampleCalls(S)
  PROVE  TaskIsSound' /\ CommitIsSound'
<1>1. /\ pc = "sample" /\ pc' = "announce" /\ UNCHANGED tool /\ pc \in Loop
      /\ S \cap task.known = {} /\ Commit(CallRecord(S)) /\ task' = CallTask(S)
  BY SampleCallsIs DEF At, Loop
<1>2. history \in Seq(Item) /\ task \in TaskType
  BY TaskIsARecord DEF Sound, Ordered, TypeOK, LoopType, history
<1>3. /\ WellFormed(history) /\ Clean(history) /\ history = task.context /\ history # <<>>
      /\ CallsIn(history) \cup Answered(history) \subseteq task.known
  BY <1>1 DEF Sound, TaskIsSound, HistoryIsSound
<1>4. S \in SUBSET Calls /\ IsFiniteSet(S)
  BY ResponsesAre
<1>5. PICK items : items = history \o CallItems(S)
  OBVIOUS
<1>6. Joins(items, history, EachOf("call", S), Item)
  BY <1>2, <1>4, <1>5, EachType DEF Joins, CallItems
<1>7. /\ WellFormed(items) /\ CallsIn(items) = CallsIn(history) \cup S
      /\ Answered(items) = Answered(history) /\ items # <<>>
  <2>1. S \cap CallsIn(history) = {} /\ S \cap Answered(history) = {} /\ Unanswered(history) = {}
    BY <1>1, <1>3 DEF Clean
  <2> QED BY <1>3, <1>4, <1>6, <2>1, CallsJoin, JoinedNonempty
<1>8. /\ task'.turn = task.turn /\ task'.history = items /\ task'.context = items
      /\ task'.known = task.known \cup S
  BY <1>1, <1>2, <1>5 DEF CallTask, TaskType
<1>9. PICK r : r = CallRecord(S)
  OBVIOUS
<1>10. r.kind = "checkpoint" /\ r.replace = FALSE /\ r.items = CallItems(S) /\ r.last = FALSE
  BY <1>9 DEF CallRecord, Checkpoint
<1>11. /\ commit = Idle /\ Latest' = Latest /\ Upcoming = Latest
       /\ Upcoming' = Read(Latest, r) /\ (Settled => Settled')
       /\ Good(Latest, r) => CommitIsSound'
  BY <1>1, <1>9, Commits
<1>12. Settled /\ Latest.turn = Turn /\ Latest.context = history
  BY <1>1, <1>3, <1>11 DEF Sound, TaskIsSound, TaskFollowsFile
<1>13. NewContext(Latest, r) = items
  BY <1>5, <1>10, <1>12 DEF NewContext
<1>14. CommitIsSound'
  <2>1. Orphans(items) \subseteq Orphans(Latest.context)
    BY <1>7, <1>12 DEF Orphans
  <2> QED BY <1>7, <1>10, <1>11, <1>13, <2>1 DEF Good
<1>15. Upcoming'.turn = Latest.turn /\ Upcoming'.context = items
  <2>1. Latest \in StateOf(Item)
    BY LatestType DEF Sound, Ordered, TypeOK
  <2>2. PICK R : R = Read(Latest, r)
    OBVIOUS
  <2>3. R.turn = Latest.turn /\ R.context = items
    BY <1>10, <1>13, <2>1, <2>2, ReadCheckpoint
  <2> QED BY <1>11, <2>2, <2>3
<1>16. TaskFollowsFile'
  BY <1>1, <1>8, <1>11, <1>12, <1>15 DEF TaskFollowsFile, Turn, AtRest
<1>17. HistoryIsSound'
  BY <1>1, <1>3, <1>7, <1>8 DEF HistoryIsSound, history
<1>18. ToolsInOrder'
  BY <1>1 DEF Sound, TaskIsSound, ToolsInOrder
<1>19. pc' \in Loop
  BY <1>1 DEF Loop
<1> QED BY <1>14, <1>16, <1>17, <1>18, <1>19, InTheLoop

LEMMA OtherSamplesSound ==
  ASSUME Sound
  PROVE  /\ SampleDuplicate => TaskIsSound' /\ CommitIsSound'
         /\ SampleRetry => TaskIsSound' /\ CommitIsSound'
         /\ SampleFails => TaskIsSound' /\ CommitIsSound'
         /\ SampleCancelled => TaskIsSound' /\ CommitIsSound'
<1>1. task \in TaskType /\ task.wasted \in Nat /\ task.wasted + 1 \in Nat
  BY TaskIsARecord DEF Sound, Ordered, TypeOK, LoopType
<1>2. ASSUME SampleDuplicate \/ SampleFails PROVE TaskIsSound' /\ CommitIsSound'
  <2>1. StoreIdle /\ Leave("Failed")
    BY <1>2 DEF SampleDuplicate, SampleFails, At
  <2>2. OnlyWrites
    BY <1>1, <1>2, RowsWork DEF SampleDuplicate, SampleFails
  <2> QED BY <2>1, <2>2, LeavesWith
<1>3. ASSUME SampleRetry PROVE TaskIsSound' /\ CommitIsSound'
  <2>1. pc = "sample" /\ pc' = pc /\ StoreIdle /\ Retry /\ UNCHANGED tool /\ pc \in Loop
    BY <1>3 DEF SampleRetry, At, Loop, Retry
  <2>2. /\ task'.turn = task.turn /\ task'.context = task.context
        /\ task'.history = task.history /\ task'.known = task.known
    BY <1>1, <1>3 DEF SampleRetry, TaskType
  <2>3. TaskFollowsFile' /\ CommitIsSound'
    BY <2>1, <2>2, WorksOn DEF OnlyWrites
  <2>4. HistoryIsSound'
    BY <2>1, <2>2 DEF Sound, TaskIsSound, HistoryIsSound, history
  <2>5. ToolsInOrder'
    BY <2>1, NoneInFlight DEF Sound, TaskIsSound
  <2> QED BY <2>1, <2>3, <2>4, <2>5, InTheLoop
<1>4. SampleCancelled => TaskIsSound' /\ CommitIsSound'
  BY LeavesWith DEF SampleCancelled, At, OnlyWrites
<1> QED BY <1>2, <1>3, <1>4
-----------------------------------------------------------------------------
(* Tools                                                                   *)

(* Steps of others, and of a tool, which leave the task as it is           *)
LEMMA StandingBy ==
  ASSUME Sound, OnlyWrites, UNCHANGED <<pc, task>>
  PROVE  TaskFollowsFile' /\ CommitIsSound' /\ HistoryIsSound' /\ InterruptIsClean'
<1>1. commit' = commit /\ StandsStill
  BY OnlyWritesKeep DEF Sound
<1>2. Latest' = Latest /\ (Committing' <=> Committing) /\ (Projecting' <=> Projecting)
  BY <1>1 DEF StandsStill, Committing, Projecting
<1>3. Upcoming' = Upcoming
  BY <1>1, <1>2 DEF Upcoming
<1>4. Settled => Settled'
  BY <1>1, <1>2 DEF Settled, StandsStill
<1>5. TaskFollowsFile'
  BY <1>1, <1>3, <1>4 DEF Sound, TaskIsSound, TaskFollowsFile, Turn
<1>6. CommitIsSound'
  <2>1. Committing => Good(Latest, commit.record)
    BY DEF Sound, CommitIsSound
  <2>2. Committing' => Good(Latest', commit'.record)
    BY <1>1, <1>2, <2>1
  <2> QED BY <2>2 DEF CommitIsSound, Good, Clean, WellFormed, Unanswered, Orphans, CallsIn, Answered, Of, NewContext
<1>7. HistoryIsSound'
  BY DEF Sound, TaskIsSound, HistoryIsSound, history
<1>8. InterruptIsClean'
  BY <1>2 DEF Sound, TaskIsSound, InterruptIsClean
<1> QED BY <1>5, <1>6, <1>7, <1>8

LEMMA StandingByWith ==
  ASSUME Sound, OnlyWrites, UNCHANGED <<pc, task, tool>>
  PROVE  TaskIsSound' /\ CommitIsSound'
<1>1. ToolsInOrder'
  BY DEF Sound, TaskIsSound, ToolsInOrder, history
<1> QED BY <1>1, StandingBy DEF TaskIsSound

LEMMA AnnounceSound ==
  ASSUME Sound, Announce
  PROVE  TaskIsSound' /\ CommitIsSound'
<1>1. pc = "announce" /\ pc' \in {"announce", "tools"} /\ StoreIdle /\ OnlyWrites /\ UNCHANGED task
      /\ pc \in Loop /\ pc' \in Loop
  BY DEF Announce, At, Loop, OnlyWrites
<1>2. TaskFollowsFile' /\ CommitIsSound'
  BY <1>1, WorksOn
<1>3. HistoryIsSound'
  BY <1>1 DEF Sound, TaskIsSound, HistoryIsSound, history
<1>4. \A d \in Calls : /\ tool[d] \in {"none", "queued"}
                       /\ tool[d] = "queued" => d \in Unanswered(history)
  BY <1>1 DEF Sound, TaskIsSound, ToolsInOrder
<1>5. PICK waiting : waiting = {d \in Unanswered(history) : tool[d] = "none"}
  OBVIOUS
<1>6. ToolsInOrder'
  <2>1. CASE waiting = {}
    <3>1. pc' = "tools" /\ UNCHANGED tool
      BY <1>5, <2>1 DEF Announce
    <3> QED BY <1>1, <1>4, <1>5, <2>1, <3>1 DEF ToolsInOrder, history
  <2>2. CASE waiting # {}
    <3>1. PICK c : c = SetToSeq(waiting)[1]
      OBVIOUS
    <3>2. pc' = "announce" /\ tool' = [tool EXCEPT ![c] = "queued"]
      BY <1>1, <1>5, <2>2, <3>1 DEF Announce
    <3>3. c \in waiting
      BY <1>5, <2>2, <3>1, WaitingIs DEF Sound, Ordered
    <3>4. c \in Unanswered(history) /\ history' = history
      BY <1>1, <1>5, <3>3 DEF history
    <3>5. \A d \in Calls : tool'[d] = IF d = c THEN "queued" ELSE tool[d]
      BY <3>2 DEF Sound, Ordered, TypeOK, LoopType
    <3> QED BY <1>1, <1>4, <3>2, <3>4, <3>5 DEF ToolsInOrder
  <2> QED BY <2>1, <2>2
<1> QED BY <1>1, <1>2, <1>3, <1>6, InTheLoop

LEMMA RunsSound ==
  ASSUME Sound, NEW c \in Calls
  PROVE  /\ Dispatch(c) => TaskIsSound' /\ CommitIsSound'
         /\ Return(c) => TaskIsSound' /\ CommitIsSound'
<1>1. ToolsInOrder /\ tool \in [Calls -> {"none", "queued", "running", "done", "saved"}]
  BY DEF Sound, TaskIsSound, Ordered, TypeOK, LoopType
<1>2. ASSUME Dispatch(c) \/ Return(c) PROVE TaskIsSound' /\ CommitIsSound'
  <2>1. UNCHANGED <<pc, task>> /\ OnlyWrites /\ history' = history
    BY <1>2 DEF Dispatch, Return, OnlyWrites, history
  <2>2. PICK s \in {"running", "done"} :
          tool' = [tool EXCEPT ![c] = s] /\ tool[c] \in {"queued", "running"}
          /\ pc \in {"tools", "ending"}
    <3>1. CASE Dispatch(c)
      BY <3>1 DEF Dispatch
    <3>2. CASE Return(c)
      <4>1. tool[c] = "running" /\ tool' = [tool EXCEPT ![c] = "done"]
        BY <3>2 DEF Return
      <4>2. pc \in {"tools", "ending"}
        BY <1>1, <4>1 DEF ToolsInOrder
      <4> QED BY <4>1, <4>2
    <3> QED BY <1>2, <3>1, <3>2
  <2>3. \A d \in Calls : tool'[d] = IF d = c THEN s ELSE tool[d]
    BY <1>1, <2>2
  <2>4. ToolsInOrder'
    BY <1>1, <2>1, <2>2, <2>3 DEF ToolsInOrder
  <2> QED BY <2>1, <2>4, StandingBy DEF TaskIsSound
<1> QED BY <1>2

LEMMA CollectSound ==
  ASSUME Sound, NEW c \in Calls, Collect(c)
  PROVE  TaskIsSound' /\ CommitIsSound'
<1>1. pc = "tools" /\ pc' = pc /\ pc \in Loop /\ tool[c] = "done"
      /\ tool' = [tool EXCEPT ![c] = "saved"]
      /\ history \in Seq(Item) /\ task \in TaskType
  BY TaskIsARecord DEF Collect, At, Loop, Sound, Ordered, TypeOK, LoopType, history
<1>2. ToolsInOrder /\ tool \in [Calls -> {"none", "queued", "running", "done", "saved"}]
  BY DEF Sound, TaskIsSound, Ordered, TypeOK, LoopType
<1>3. /\ WellFormed(history) /\ CallsIn(history) \cup Answered(history) \subseteq task.known
      /\ history # <<>> /\ history = task.context
  BY <1>1 DEF Sound, TaskIsSound, HistoryIsSound
<1>4. \A d \in Calls : d \in Unanswered(history) <=> tool[d] \in {"queued", "running", "done"}
  BY <1>1, <1>2 DEF ToolsInOrder
<1>5. PICK items : items = Append(history, Out(c))
  OBVIOUS
<1>6. Joins(items, history, <<Out(c)>>, Item)
  BY <1>1, <1>5, ItemsAre, AppendsItem
<1>7. items \in Seq(Item) /\ c \in Unanswered(history)
  BY <1>1, <1>4, <1>6, JoinedItems
<1>8. /\ WellFormed(items)
      /\ CallsIn(items) = CallsIn(history) /\ Answered(items) = Answered(history) \cup {c}
      /\ Unanswered(items) = Unanswered(history) \ {c}
      /\ items # <<>>
  BY <1>3, <1>6, <1>7, OutJoins, JoinedNonempty
<1>9. pc' \in Loop \ AtRest
  BY <1>1 DEF Loop, AtRest
<1>10. Save(items, task.total, task.step, FALSE, {})
  BY <1>5 DEF Collect
<1>11. /\ TaskFollowsFile' /\ CommitIsSound'
       /\ task'.history = items /\ task'.context = items /\ task'.known = task.known
  <2>1. Orphans(items) \subseteq Orphans(task.context)
    BY <1>3, <1>7, <1>8 DEF Orphans, Unanswered
  <2> QED BY <1>1, <1>7, <1>8, <1>9, <1>10, <2>1, SavesOn
<1>12. c \in task.known
  BY <1>3, <1>7 DEF Unanswered
<1>13. HistoryIsSound'
  BY <1>1, <1>3, <1>8, <1>11, <1>12 DEF HistoryIsSound, history
<1>14. ToolsInOrder'
  <2>1. \A d \in Calls : tool'[d] = IF d = c THEN "saved" ELSE tool[d]
    BY <1>1, <1>2
  <2> QED BY <1>1, <1>4, <1>8, <1>11, <2>1 DEF ToolsInOrder, history
<1> QED BY <1>9, <1>11, <1>13, <1>14, InTheLoop

LEMMA FinishStepSound ==
  ASSUME Sound, NEW c \in Calls, FinishStep(c)
  PROVE  TaskIsSound' /\ CommitIsSound'
<1>1. pc = "tools" /\ pc' \in {"tools", "top"} /\ pc \in Loop /\ pc' \in Loop /\ StoreIdle
      /\ OnlyWrites /\ tool[c] = "saved" /\ tool' = [tool EXCEPT ![c] = "none"]
      /\ history \in Seq(Item) /\ task \in TaskType
  BY TaskIsARecord DEF FinishStep, At, Loop, OnlyWrites, Sound, Ordered, TypeOK, LoopType, history
<1>2. ToolsInOrder /\ tool \in [Calls -> {"none", "queued", "running", "done", "saved"}]
  BY DEF Sound, TaskIsSound, Ordered, TypeOK, LoopType
<1>3. \A d \in Calls : d \in Unanswered(history) <=> tool[d] \in {"queued", "running", "done"}
  BY <1>1, <1>2 DEF ToolsInOrder
<1>4. \A d \in Calls : tool'[d] = IF d = c THEN "none" ELSE tool[d]
  BY <1>1, <1>2
<1>5. /\ task'.turn = task.turn /\ task'.context = task.context
      /\ task'.history = task.history /\ task'.known = task.known
  BY <1>1 DEF FinishStep, TaskType
<1>6. TaskFollowsFile' /\ CommitIsSound'
  BY <1>1, <1>5, WorksOn
<1>7. pc' = "top" => \A d \in Calls : tool'[d] = "none"
  BY <1>1 DEF FinishStep
<1>8. WellFormed(history) /\ history = task.context /\ history # <<>>
      /\ CallsIn(history) \cup Answered(history) \subseteq task.known
  BY <1>1 DEF Sound, TaskIsSound, HistoryIsSound
<1>9. pc' = "top" => Clean(history)
  <2>1. Unanswered(history) \in SUBSET Calls
    BY <1>1, CallsAreFew
  <2> QED BY <1>1, <1>3, <1>4, <1>7, <2>1 DEF Clean
<1>10. HistoryIsSound'
  <2>1. Adds(history, task.context)
    BY <1>1, <1>8, AddsNothing
  <2> QED BY <1>1, <1>5, <1>8, <1>9, <2>1 DEF HistoryIsSound, history
<1>11. ToolsInOrder'
  <2>1. history' = history
    BY <1>5 DEF history
  <2> QED BY <1>1, <1>3, <1>4, <1>7, <2>1 DEF ToolsInOrder
<1> QED BY <1>1, <1>6, <1>10, <1>11, InTheLoop
-----------------------------------------------------------------------------
(* The end of a Turn                                                       *)

LEMMA EndingSound ==
  ASSUME Sound
  PROVE  /\ Complete => TaskIsSound' /\ CommitIsSound'
         /\ FinishPending => TaskIsSound' /\ CommitIsSound'
         /\ EndTurn => TaskIsSound' /\ CommitIsSound'
<1>1. ToolsInOrder
  BY DEF Sound, TaskIsSound
<1>2. ASSUME Complete PROVE TaskIsSound' /\ CommitIsSound'
  <2>1. pc = "complete" /\ pc' = "left" /\ StoreIdle /\ UNCHANGED tool /\ pc \in Loop /\ pc' \notin Loop
    BY <1>2 DEF Complete, At, Loop
  <2>2. \A c \in Calls : tool'[c] = "none"
    BY <1>1, <2>1 DEF ToolsInOrder
  <2>3. CommitIsSound'
    <3>1. CASE UNCHANGED rolloutVars
      BY <2>1, <3>1, WritesRows DEF OnlyWrites
    <3>2. CASE Commit(Updated(Turn, "Completed", {}))
      <4>1. Upcoming = Latest
        BY <3>2, Commits
      <4>2. Clean(Latest.context)
        BY <2>1, <4>1 DEF Sound, TaskIsSound, TaskFollowsFile, HistoryIsSound
      <4>3. Good(Latest, Updated(Turn, "Completed", {}))
        BY <4>2 DEF Good, Updated
      <4> QED BY <3>2, <4>3, Commits
    <3> QED BY <1>2, <3>1, <3>2 DEF Complete
  <2>4. pc' \notin Leaving
    BY <2>1 DEF Leaving
  <2> QED BY <2>1, <2>2, <2>3, <2>4, Leaves
<1>3. ASSUME FinishPending PROVE TaskIsSound' /\ CommitIsSound'
  <2>1. pc = "ending" /\ pc' = "end" /\ StoreIdle /\ UNCHANGED <<rolloutVars, task>> /\ tool' = NoTools
    BY <1>3 DEF FinishPending, At
  <2>2. CommitIsSound' /\ Latest' = Latest
    BY <2>1, WritesRows DEF OnlyWrites
  <2>3. task.verdict = "Interrupted" => Clean(Latest.context)
    BY <2>1 DEF Sound, TaskIsSound, InterruptIsClean, Leaving
  <2>4. \A c \in Calls : tool'[c] = "none"
    BY <2>1 DEF NoTools
  <2>5. pc' \notin Loop
    BY <2>1 DEF Loop
  <2> QED BY <2>1, <2>2, <2>3, <2>4, <2>5, Leaves
<1>4. ASSUME EndTurn PROVE TaskIsSound' /\ CommitIsSound'
  <2>1. pc = "end" /\ pc' = "left" /\ StoreIdle /\ UNCHANGED tool
        /\ pc' \notin Loop /\ pc' \notin Leaving
    BY <1>4 DEF EndTurn, At, Loop, Leaving
  <2>2. \A c \in Calls : tool'[c] = "none"
    BY <1>1, <2>1 DEF ToolsInOrder
  <2>3. CommitIsSound'
    <3>1. CASE UNCHANGED rolloutVars
      BY <2>1, <3>1, WritesRows DEF OnlyWrites
    <3>2. PICK acks : acks = IF task.verdict = "Interrupted" THEN task.acks ELSE {}
      OBVIOUS
    <3>3. CASE Commit(Updated(Turn, task.verdict, acks))
      <4>1. task.verdict = "Interrupted" => Clean(Latest.context)
        BY <2>1 DEF Sound, TaskIsSound, InterruptIsClean, Leaving
      <4>2. task.verdict # "Completed"
        BY TaskIsARecord DEF Sound, Ordered, TypeOK, LoopType
      <4>3. Good(Latest, Updated(Turn, task.verdict, acks))
        BY <4>1, <4>2 DEF Good, Updated
      <4> QED BY <3>3, <4>3, Commits
    <3> QED BY <1>4, <3>1, <3>2, <3>3 DEF EndTurn
  <2> QED BY <2>1, <2>2, <2>3, Leaves
<1> QED BY <1>2, <1>3, <1>4

(* Before and after the loop                                               *)
LEMMA OutsideSound ==
  ASSUME Sound, pc \in {"off", "left", "start", "load"}, pc' \in {"off", "left", "start", "load"},
         UNCHANGED tool \/ tool' = NoTools
  PROVE  TaskIsSound'
<1>1. \A c \in Calls : tool[c] = "none"
  BY DEF Sound, TaskIsSound, ToolsInOrder
<1>2. \A c \in Calls : tool'[c] = "none"
  BY <1>1 DEF NoTools
<1>3. pc' \notin Loop /\ pc' \notin Leaving
  BY DEF Loop, Leaving
<1> QED BY <1>2, <1>3, Leaves

LEMMA EdgesSound ==
  ASSUME Sound
  PROVE  /\ \A t \in Turns : Attach(t) => TaskIsSound' /\ CommitIsSound'
         /\ \A t \in Turns : TakeUp(t) => TaskIsSound' /\ CommitIsSound'
         /\ \A t \in Turns : ActionRecovers(t) => TaskIsSound' /\ CommitIsSound'
         /\ \A t \in Turns : CancelRow(t) => TaskIsSound' /\ CommitIsSound'
         /\ StartTurn => TaskIsSound' /\ CommitIsSound'
         /\ TaskEnds => TaskIsSound' /\ CommitIsSound'
<1>1. ASSUME NEW t \in Turns, Attach(t) PROVE TaskIsSound' /\ CommitIsSound'
  <2>1. Good(Latest, Created(t)) /\ Commit(Created(t))
    BY <1>1 DEF Good, Created, Attach
  <2>2. CommitIsSound'
    BY <2>1, Commits
  <2> QED BY <1>1, <2>2, OutsideSound DEF Attach, At
<1>2. ASSUME NEW t \in Turns, TakeUp(t) PROVE TaskIsSound' /\ CommitIsSound'
  <2>1. CommitIsSound'
    BY <1>2, WritesRows DEF TakeUp, At, OnlyWrites
  <2> QED BY <1>2, <2>1, OutsideSound DEF TakeUp, At
<1>3. ASSUME NEW t \in Turns, ActionRecovers(t) PROVE TaskIsSound' /\ CommitIsSound'
  <2>1. /\ pc = "off" /\ pc' = "off" /\ UNCHANGED tool /\ StoreIdle /\ OnlyWrites
    BY <1>3, RowsWork DEF ActionRecovers, At, volatile
  <2>2. CommitIsSound'
    BY <2>1, WritesRows
  <2> QED BY <2>1, <2>2, OutsideSound
<1>4. ASSUME NEW t \in Turns, CancelRow(t) PROVE TaskIsSound' /\ CommitIsSound'
  <2>1. /\ pc \in {"off", "left"} /\ pc' = pc /\ UNCHANGED tool
        /\ Commit(Updated(t, "Cancelled", {})) /\ Good(Latest, Updated(t, "Cancelled", {}))
    BY <1>4 DEF CancelRow, At, volatile, Good, Updated
  <2>2. CommitIsSound'
    BY <2>1, Commits
  <2> QED BY <2>1, <2>2, OutsideSound
<1>5. ASSUME StartTurn PROVE TaskIsSound' /\ CommitIsSound'
  <2>1. pc = "start" /\ pc' \in {"load", "left"} /\ UNCHANGED tool /\ StoreIdle
    BY <1>5 DEF StartTurn, At
  <2>2. CommitIsSound'
    <3>1. CASE UNCHANGED rolloutVars
      BY <2>1, <3>1, WritesRows DEF OnlyWrites
    <3>2. CASE Commit(Updated(Turn, "Running", {}))
      <4>1. Good(Latest, Updated(Turn, "Running", {}))
        BY DEF Good, Updated
      <4> QED BY <3>2, <4>1, Commits
    <3> QED BY <1>5, <3>1, <3>2 DEF StartTurn
  <2> QED BY <2>1, <2>2, OutsideSound
<1>6. ASSUME TaskEnds PROVE TaskIsSound' /\ CommitIsSound'
  <2>1. pc = "left" /\ pc' = "off" /\ tool' = NoTools /\ StoreIdle /\ Turn \in Turns /\ EndAction(Turn)
    BY <1>6 DEF TaskEnds, At, Sound, Ordered, TypeOK, LoopType
  <2>2. CommitIsSound'
    BY <2>1, WritesRows, RowsWork
  <2> QED BY <2>1, <2>2, OutsideSound
<1> QED BY <1>1, <1>2, <1>3, <1>4, <1>5, <1>6

LEMMA LoadSound ==
  ASSUME Sound, Load
  PROVE  TaskIsSound' /\ CommitIsSound'
<1>1. /\ pc = "load" /\ commit = Idle /\ commit' = Idle /\ UNCHANGED <<damaged, projected, tool>>
      /\ Turn \in Turns \ ended /\ Turn # 0 /\ task \in TaskType
      /\ pc' \in {"left", "reconcile", "begin"}
  BY RolloutAssumption
     DEF Load, At, StoreIdle, Scan, rolloutVars, Sound, Ordered, TypeOK, LoopType, Control,
         TaskInOrder, HasItsTurn
<1>2. /\ ~Projecting /\ ~Committing /\ ~Projecting' /\ ~Committing'
  BY <1>1 DEF Idle, Projecting, Committing
<1>3. CommitIsSound'
  BY <1>2 DEF CommitIsSound
<1>4. CASE pc' = "left"
  BY <1>1, <1>3, <1>4, OutsideSound
<1>5. CASE pc' # "left"
  <2>1. /\ ~damaged /\ Scan /\ Canonical'.turn = Turn
        /\ pc' = IF Canonical'.begun THEN "reconcile" ELSE "begin"
        /\ task' = [task EXCEPT
             !.resumed = Canonical'.begun, !.history = Canonical'.context,
             !.context = Canonical'.context, !.step = Canonical'.steps,
             !.total = Canonical'.used, !.last = Canonical'.last]
    BY <1>5 DEF Load
  <2>2. Latest' = Latest /\ Canonical' = Latest /\ file' = Records /\ trailing' = <<>>
    <3>0. Next
      BY DEF Next, TaskStep
    <3>1. Records' = Records
      BY <2>1, ConcatEmptySeq, StoreTypeStep, WholeTypeNext, StoreActs, <3>0
         DEF Scan, Records, Whole, Sound, Ordered, TypeOK
    <3> QED BY <2>1, <3>1 DEF Latest, Canonical, Scan
  <2>3. Latest.turn = Turn
    BY <2>1, <2>2
  <2>4. projected = Len(file) /\ Whole = <<>>
    BY <1>1, <1>2, <2>1, <2>3
       DEF Sound, Ordered, Control, TaskInOrder, LagsWhenOver, Lagging, LeftoversAreEnded, Early
  <2>5. file' = file
    BY <2>2, <2>4, ConcatEmptySeq DEF Records, Sound, Ordered, TypeOK, StoreType
  <2>6. Settled'
    BY <1>1, <1>2, <2>1, <2>2, <2>4, <2>5 DEF Settled
  <2>7. PICK S : S = Latest
    OBVIOUS
  <2>8. /\ task'.turn = task.turn /\ task'.history = S.context /\ task'.context = S.context
        /\ task'.resumed = S.begun
    BY <1>1, <2>1, <2>2, <2>7 DEF TaskType
  <2>9. Upcoming' = S
    BY <1>2, <2>2, <2>7 DEF Upcoming
  <2>10. TaskFollowsFile'
    BY <1>1, <2>3, <2>6, <2>7, <2>8, <2>9 DEF TaskFollowsFile, Turn
  <2>11. StateIsSound(S)
    BY <2>7 DEF Sound, FilesAreSound
  <2>12. HistoryIsSound'
    <3>1. pc' = IF S.begun THEN "reconcile" ELSE "begin"
      BY <2>1, <2>2, <2>7
    <3>2. /\ WellFormed(S.context) /\ (pc' = "begin" => Clean(S.context))
          /\ pc' # "complete" /\ (pc' = "begin" => task'.resumed) => S.context # <<>>
      BY <2>8, <2>11, <3>1 DEF StateIsSound
    <3> QED BY <1>1, <1>5, <2>8, <3>2 DEF HistoryIsSound, history
  <2>13. ToolsInOrder'
    BY <1>1, NoneInFlight DEF Sound, TaskIsSound
  <2>14. pc' \in Loop
    BY <1>1, <1>5 DEF Loop
  <2> QED BY <1>3, <2>10, <2>12, <2>13, <2>14, InTheLoop
<1> QED BY <1>4, <1>5
-----------------------------------------------------------------------------
(* The Store thread, crashes and failed writes                             *)

LEMMA CommitStepSound ==
  ASSUME Sound, CommitStep
  PROVE  TaskIsSound' /\ CommitIsSound'
<1>1. /\ UNCHANGED <<pc, task, tool>> /\ commit # Idle
      /\ AppendRecord \/ ProjectRecord
  <2>1. AppendRecord \/ ProjectRecord
    BY DEF CommitStep
  <2>2. commit # Idle
    BY <2>1 DEF AppendRecord, ProjectRecord, Idle
  <2> QED BY <2>1, <2>2 DEF CommitStep, volatile
<1>2. ~Committing'
  <2>1. Projecting' \/ commit' = Idle
    BY <1>1, CommitStepIs DEF Sound, Ordered, TypeOK
  <2> QED BY <2>1 DEF Projecting, Committing, Idle
<1>3. CommitIsSound'
  BY <1>2 DEF CommitIsSound
<1>4. pc \notin AtRest \/ pc \notin Loop
  BY <1>1 DEF Sound, TaskIsSound, TaskFollowsFile
<1>5. ASSUME pc \in Loop PROVE Settled' /\ Upcoming' = Upcoming
  <2>1. Settled
    BY <1>5 DEF Sound, TaskIsSound, TaskFollowsFile
  <2>2. CASE AppendRecord
    <3>1. Committing /\ ~Projecting
      BY <2>2 DEF AppendRecord, Committing, Projecting
    <3>2. trailing = <<>> /\ ~damaged /\ projected = Len(file)
      BY <2>1, <3>1 DEF Settled
    <3>3. UNCHANGED damaged
      BY <2>2, <3>2 DEF AppendRecord
    <3>4. Joined /\ Projecting' /\ ~damaged'
      BY <2>2, <3>1, <3>2, <3>3, CommitStepIs DEF Sound, Ordered, TypeOK
    <3>5. StoreIsInOrder'
      <4>1. StoreAction(Item)
        BY <2>2 DEF StoreAction
      <4> QED BY <4>1, StoreOrderStep DEF Sound, Ordered, TypeOK
    <3>6. StoreType(Item)'
      BY <2>2, StoreTypeStep DEF StoreAction, Sound, Ordered, TypeOK
    <3>7. trailing' = <<>> /\ projected' + 1 = Len(file')
      BY <3>4, <3>5 DEF StoreIsInOrder
    <3>8. projected' = Len(file') - 1
      <4>1. projected' \in Nat /\ Len(file') \in Nat
        BY <3>6, LenProperties DEF StoreType
      <4> QED BY <3>7, <4>1
    <3> QED BY <1>2, <3>1, <3>4, <3>7, <3>8 DEF Settled, Upcoming, Joined
  <2>3. CASE ProjectRecord
    <3>1. Projecting /\ ~Committing /\ UNCHANGED <<trailing, damaged>> /\ commit' = Idle
      BY <2>3 DEF ProjectRecord, Projecting, Committing
    <3>2. trailing = <<>> /\ ~damaged
      BY <2>1 DEF Settled
    <3>3. Unmoved /\ projected' = Len(file')
      BY <2>3, <3>1, <3>2, CommitStepIs DEF Sound, Ordered, TypeOK
    <3>4. ~Projecting'
      BY <3>1 DEF Projecting, Idle
    <3> QED BY <1>2, <3>1, <3>2, <3>3, <3>4 DEF Settled, Upcoming, Unmoved
  <2> QED BY <1>1, <2>2, <2>3
<1>6. TaskFollowsFile'
  BY <1>1, <1>4, <1>5 DEF Sound, TaskIsSound, TaskFollowsFile, Turn
<1>7. HistoryIsSound' /\ ToolsInOrder'
  BY <1>1 DEF Sound, TaskIsSound, HistoryIsSound, ToolsInOrder, history
<1>8. InterruptIsClean'
  <2>1. PICK r \in RecordOf(Item) : r = commit.record
    BY <1>1, CommitTypes DEF Sound, Ordered, TypeOK
  <2>2. r.kind \in {"created", "checkpoint", "updated"}
    BY <2>1, KindsAre
  <2>3. Fitting(r)
    BY <1>1, <2>1 DEF Sound, Ordered, Control, TaskInOrder, CommitFits
  <2>4. pc \notin Leaving
    BY <2>2, <2>3 DEF Fitting, Leaving, Loop
  <2> QED BY <1>1, <2>4 DEF InterruptIsClean
<1> QED BY <1>3, <1>6, <1>7, <1>8 DEF TaskIsSound

LEMMA FaultsSound ==
  ASSUME Sound
  PROVE  /\ CommitFails => TaskIsSound' /\ CommitIsSound'
         /\ \A survives \in BOOLEAN : Crash(survives) => TaskIsSound' /\ CommitIsSound'
<1>1. ToolsInOrder /\ task \in TaskType
  BY DEF Sound, TaskIsSound, Ordered, TypeOK, LoopType
<1>2. ASSUME CommitFails PROVE TaskIsSound' /\ CommitIsSound'
  <2>1. AppendFails /\ UNCHANGED tool
    BY <1>2 DEF CommitFails
  <2>2. commit # Idle /\ commit' = Idle
    BY <2>1, AppendFailsIs DEF Sound, Ordered, TypeOK
  <2>3. CommitIsSound'
    BY <2>2 DEF CommitIsSound, Committing, Idle
  <2>4. PICK r \in RecordOf(Item) : r = commit.record
    BY <2>2, CommitTypes DEF Sound, Ordered, TypeOK
  <2>5. r.kind \in {"created", "checkpoint", "updated"}
    BY <2>4, KindsAre
  <2>6. Fitting(r)
    BY <2>2, <2>4 DEF Sound, Ordered, Control, TaskInOrder, CommitFits
  <2>7. CASE pc \in {"off", "left"} /\ UNCHANGED <<pc, task>>
    BY <2>1, <2>3, <2>7, OutsideSound
  <2>8. CASE Leave("Failed")
    <3>1. pc' = "ending" /\ task'.verdict = "Failed"
      BY <1>1, <2>8 DEF Leave, TaskType
    <3>2. pc' \notin Loop
      BY <3>1 DEF Loop
    <3> QED BY <2>3, <3>1, <3>2, Leaves
  <2>9. CASE pc' = "left" /\ (r.kind # "checkpoint" \/ pc = "begin")
    <3>1. pc \notin {"announce", "tools", "ending"}
      BY <2>5, <2>6, <2>9 DEF Fitting
    <3>2. \A c \in Calls : tool'[c] = "none"
      BY <1>1, <2>1, <3>1 DEF ToolsInOrder
    <3>3. pc' \notin Loop /\ pc' \notin Leaving
      BY <2>9 DEF Loop, Leaving
    <3> QED BY <2>3, <3>2, <3>3, Leaves
  <2>10. \/ pc \in {"off", "left"} /\ UNCHANGED <<pc, task>>
         \/ Leave("Failed")
         \/ pc' = "left" /\ (r.kind # "checkpoint" \/ pc = "begin")
    BY <1>2, <2>4 DEF CommitFails
  <2> QED BY <2>7, <2>8, <2>9, <2>10
<1>3. ASSUME NEW survives \in BOOLEAN, Crash(survives) PROVE TaskIsSound' /\ CommitIsSound'
  <2>1. pc' = "off" /\ tool' = NoTools /\ commit' = Idle
    BY <1>3 DEF Crash, Reopen
  <2>2. CommitIsSound'
    BY <2>1 DEF CommitIsSound, Committing, Idle
  <2>3. \A c \in Calls : tool'[c] = "none"
    BY <2>1 DEF NoTools
  <2>4. pc' \notin Loop /\ pc' \notin Leaving
    BY <2>1 DEF Loop, Leaving
  <2> QED BY <2>2, <2>3, <2>4, Leaves
<1> QED BY <1>2, <1>3

LEMMA StillSound ==
  ASSUME Sound
  PROVE  /\ Cancel => TaskIsSound' /\ CommitIsSound'
         /\ \A i \in Inputs : Send(i) => TaskIsSound' /\ CommitIsSound'
         /\ UNCHANGED vars => TaskIsSound' /\ CommitIsSound'
<1>1. Cancel => TaskIsSound' /\ CommitIsSound'
  BY StandingByWith DEF Cancel, OnlyWrites
<1>2. ASSUME NEW i \in Inputs, Send(i) PROVE TaskIsSound' /\ CommitIsSound'
  <2>1. OnlyWrites /\ UNCHANGED <<pc, task, tool>>
    BY <1>2, RowsWork DEF Send, volatile
  <2> QED BY <2>1, StandingByWith
<1>3. ASSUME UNCHANGED vars PROVE TaskIsSound' /\ CommitIsSound'
  <2>1. OnlyWrites /\ UNCHANGED <<pc, task, tool>>
    BY <1>3 DEF vars, volatile, OnlyWrites
  <2> QED BY <2>1, StandingByWith
<1> QED BY <1>1, <1>2, <1>3
-----------------------------------------------------------------------------
LEMMA SoundInit == Init => Sound
<1> SUFFICES ASSUME Init PROVE Sound
  OBVIOUS
<1>1. Ordered
  BY OrderedInit
<1>2. /\ file = <<>> /\ trailing = <<>> /\ commit = Idle /\ pc = "off" /\ tool = NoTools
  BY DEF Init, RolloutInit
<1>3. Latest = NoTurn(<<>>) /\ Canonical = NoTurn(<<>>)
  <2>1. NoTurn(<<>>) \in StateOf(Item)
    BY EmptySeq, NoTurnType
  <2>2. Records = <<>>
    BY <1>2, ConcatEmptySeq, EmptySeq DEF Records, Whole, Torn
  <2> QED BY <1>2, <2>1, <2>2, ReadsNothing DEF Latest, Canonical
<1>4. FilesAreSound
  <2>1. <<>> \in Seq(Item) /\ Plain(<<>>)
    BY EmptySeq DEF Plain
  <2>2. WellFormed(<<>>) /\ Clean(<<>>)
    BY <2>1, PlainItems DEF Clean
  <2> QED BY <1>3, <2>1, <2>2, NothingIsSound DEF FilesAreSound
<1>5. CommitIsSound
  BY <1>2 DEF CommitIsSound, Committing, Idle
<1>6. TaskIsSound
  BY <1>2 DEF TaskIsSound, TaskFollowsFile, HistoryIsSound, ToolsInOrder, InterruptIsClean,
     Loop, Leaving, NoTools
<1> QED BY <1>1, <1>4, <1>5, <1>6 DEF Sound

LEMMA SoundStep == Sound /\ [Next]_vars => Sound'
<1> SUFFICES ASSUME Sound, [Next]_vars PROVE Sound'
  OBVIOUS
<1>1. Ordered' /\ FilesAreSound'
  BY OrderedStep, FilesStep DEF Sound
<1>2. TaskIsSound' /\ CommitIsSound'
  <2>1. CASE TaskStep
    <3>1. CASE (\E t \in Turns : Attach(t) \/ TakeUp(t) \/ ActionRecovers(t))
               \/ StartTurn \/ Load \/ TaskEnds
      BY <3>1, EdgesSound, LoadSound
    <3>2. CASE Reconcile \/ Repair \/ Begin \/ Top \/ CompactStart \/ CompactDone
               \/ CompactFails \/ BeginFails \/ Prompt
      BY <3>2, ReconcileSound, RepairSound, BeginSound, TopSound, CompactSound, PromptSound
    <3>3. CASE SampleAnswer \/ (\E S \in Responses : SampleCalls(S)) \/ SampleDuplicate
               \/ SampleRetry \/ SampleFails \/ SampleCancelled
      BY <3>3, AnswerSound, CallsSound, OtherSamplesSound
    <3>4. CASE Announce \/ (\E c \in Calls : Dispatch(c) \/ Collect(c) \/ FinishStep(c))
               \/ Complete \/ FinishPending \/ EndTurn
      BY <3>4, AnnounceSound, RunsSound, CollectSound, FinishStepSound, EndingSound
    <3> QED BY <2>1, <3>1, <3>2, <3>3, <3>4 DEF TaskStep
  <2>2. CASE UNCHANGED vars
    BY <2>2, StillSound
  <2>3. CASE ~TaskStep /\ Next
    BY <2>3, CommitStepSound, FaultsSound, StillSound, RunsSound, EdgesSound DEF Next
  <2> QED BY <2>1, <2>2, <2>3
<1> QED BY <1>1, <1>2 DEF Sound

(* What the task works from is what the file says, or will say once the    *)
(* record being committed is in it; the calls in flight are those the      *)
(* history has no output of; and every history, saved or in memory, has    *)
(* each call once and each output once, after its call.                    *)
THEOREM TurnSound == Spec => []Sound
  BY SoundInit, SoundStep, PTL DEF Spec

LEMMA AtItsFile ==
  ASSUME Sound, pc \in Loop, StoreIdle
  PROVE  Latest.context = task.context /\ Latest.turn = Turn /\ Settled
<1>1. Upcoming = Latest
  BY DEF StoreIdle, Idle, Committing, Upcoming
<1> QED BY <1>1 DEF Sound, TaskIsSound, TaskFollowsFile

(* Outputs without their call are those a trim has left.                   *)
LeftBy(r) ==
  IF r.kind = "checkpoint" THEN IF r.replace THEN Answered(r.items) ELSE {} ELSE {}
LeftIn(s) == {c \in Calls : \E n \in DOMAIN s : c \in LeftBy(s[n])}

LEMMA TrimmedIs == Trimmed = LeftIn(Records)
BY DEF Trimmed, LeftIn, LeftBy, Range

LEMMA LeftByOneMore ==
  ASSUME NEW s, NEW r, NEW t, Follows(t, s, r, RecordOf(Item))
  PROVE  LeftIn(s) \subseteq LeftIn(t) /\ LeftBy(r) \subseteq LeftIn(t)
<1>1. /\ s \in Seq(RecordOf(Item)) /\ r \in RecordOf(Item) /\ t = Append(s, r)
  BY DEF Follows
<1>2. Len(s) \in Nat /\ DOMAIN s = 1..Len(s)
  BY <1>1, LenProperties
<1>3. /\ t \in Seq(RecordOf(Item)) /\ Len(t) = Len(s) + 1
      /\ \A i \in 1..Len(s) : t[i] = s[i]
      /\ t[Len(s) + 1] = r
  BY <1>1, AppendProperties
<1>4. DOMAIN t = 1..(Len(s) + 1)
  BY <1>3, LenProperties
<1>5. (\A n \in DOMAIN s : n \in DOMAIN t /\ t[n] = s[n]) /\ Len(s) + 1 \in DOMAIN t
  BY <1>2, <1>3, <1>4
<1>6. LeftBy(r) \subseteq Calls
  BY DEF LeftBy, Answered, Of
<1> QED BY <1>3, <1>5, <1>6 DEF LeftIn

OrphansIn(S, left) == Orphans(S.context) \subseteq left /\ Orphans(S.committed) \subseteq left

LEMMA ReadLeaves ==
  ASSUME NEW S \in StateOf(Item), NEW r \in RecordOf(Item), Good(S, r),
         NEW before, NEW after, before \subseteq after, LeftBy(r) \subseteq after,
         OrphansIn(S, before)
  PROVE  OrphansIn(Read(S, r), after)
<1>1. /\ r.kind \in {"created", "checkpoint", "updated"}
      /\ r.kind = "updated" => r.status \in {"Running"} \cup TerminalTurn
  BY KindsAre
<1>2. PICK R : R = Read(S, r)
  OBVIOUS
<1>3. Orphans(<<>>) = {}
  BY EmptySeq DEF Orphans, Answered, Of
<1>4. CASE r.kind = "created"
  <2>1. R.committed = S.committed /\ R.context = S.committed
    BY <1>2, <1>4, ReadCreated
  <2> QED BY <1>2, <2>1 DEF OrphansIn
<1>5. CASE r.kind = "checkpoint"
  <2>1. R.committed = S.committed /\ R.context = NewContext(S, r)
    BY <1>2, <1>5, ReadCheckpoint
  <2>2. CASE r.replace
    <3>1. Orphans(R.context) \subseteq LeftBy(r)
      BY <1>5, <2>1, <2>2 DEF NewContext, LeftBy, Orphans
    <3> QED BY <1>2, <2>1, <3>1 DEF OrphansIn
  <2>3. CASE ~r.replace
    <3>1. Orphans(R.context) \subseteq Orphans(S.context)
      BY <1>5, <2>1, <2>3 DEF Good
    <3> QED BY <1>2, <2>1, <3>1 DEF OrphansIn
  <2> QED BY <2>2, <2>3
<1>6. CASE r.kind = "updated"
  <2>1. CASE r.status \in {"Completed", "Interrupted"}
    <3>1. R.committed = S.context /\ R.context = <<>>
      BY <1>2, <1>6, <2>1, ReadUpdated DEF NoTurn
    <3> QED BY <1>2, <1>3, <3>1 DEF OrphansIn
  <2>2. CASE r.status \in {"Failed", "Cancelled"}
    <3>1. R.committed = S.committed /\ R.context = <<>>
      BY <1>2, <1>6, <2>2, ReadUpdated DEF NoTurn
    <3> QED BY <1>2, <1>3, <3>1 DEF OrphansIn
  <2>3. CASE r.status = "Running"
    <3>1. R = S
      BY <1>2, <1>6, <2>3, ReadUpdated
    <3> QED BY <1>2, <3>1 DEF OrphansIn
  <2> QED BY <1>1, <1>6, <2>1, <2>2, <2>3 DEF TerminalTurn
<1> QED BY <1>1, <1>4, <1>5, <1>6

OrphansAreTrimmed == OrphansIn(Latest, Trimmed) /\ OrphansIn(Canonical, Trimmed)

LEMMA OrphansStep ==
  ASSUME Sound, OrphansAreTrimmed, [Next]_vars
  PROVE  OrphansAreTrimmed'
<1>1. StoreType(Item) /\ StoreIsInOrder /\ StoreAction(Item)
  BY StoreActs DEF Sound, Ordered, TypeOK
<1>2. \/ /\ Records' = Records /\ Latest' = Latest /\ Told' = Told
      \/ /\ Adding /\ ~Committing' /\ commit.record \in RecordOf(Item)
         /\ Records' = Append(Records, commit.record)
         /\ Latest' = Read(Latest, commit.record) /\ Told' = Project(Told, commit.record)
  BY <1>1, ToldStep
<1>3. Canonical' \in {Canonical, Latest'}
  BY <1>1, LatestStep
<1>4. Trimmed \subseteq Trimmed' /\ OrphansIn(Latest', Trimmed')
  <2>1. CASE Records' = Records /\ Latest' = Latest /\ Told' = Told
    <3>1. Trimmed' = Trimmed
      BY <2>1 DEF Trimmed
    <3> QED BY <2>1, <3>1 DEF OrphansAreTrimmed
  <2>2. CASE /\ Adding /\ ~Committing' /\ commit.record \in RecordOf(Item)
             /\ Records' = Append(Records, commit.record)
             /\ Latest' = Read(Latest, commit.record) /\ Told' = Project(Told, commit.record)
    <3>1. PICK s, t, r : s = Records /\ t = Records' /\ r = commit.record
      OBVIOUS
    <3>2. Follows(t, s, r, RecordOf(Item))
      BY <1>1, <2>2, <3>1, WholeType DEF Follows
    <3>3. LeftIn(s) \subseteq LeftIn(t) /\ LeftBy(r) \subseteq LeftIn(t)
      BY <3>2, LeftByOneMore
    <3>4. Trimmed = LeftIn(s) /\ Trimmed' = LeftIn(t)
      <4>1. Trimmed' = LeftIn(Records')
        BY DEF Trimmed, LeftIn, LeftBy, Range
      <4> QED BY <3>1, <4>1, TrimmedIs
    <3>5. Latest \in StateOf(Item) /\ Good(Latest, r) /\ OrphansIn(Latest, Trimmed)
      BY <1>1, <2>2, <3>1, LatestType
         DEF Sound, CommitIsSound, Adding, Committing, OrphansAreTrimmed
    <3>6. OrphansIn(Read(Latest, r), LeftIn(t))
      BY <2>2, <3>1, <3>3, <3>4, <3>5, ReadLeaves
    <3> QED BY <2>2, <3>1, <3>3, <3>4, <3>6
  <2> QED BY <1>2, <2>1, <2>2
<1>5. OrphansIn(Canonical, Trimmed')
  BY <1>4 DEF OrphansAreTrimmed, OrphansIn
<1>6. OrphansIn(Canonical', Trimmed')
  BY <1>3, <1>4, <1>5
<1> QED BY <1>4, <1>6 DEF OrphansAreTrimmed

LEMMA OrphansInit == Init => OrphansAreTrimmed
<1> SUFFICES ASSUME Init PROVE OrphansAreTrimmed
  OBVIOUS
<1>1. /\ file = <<>> /\ trailing = <<>>
  BY DEF Init, RolloutInit
<1>2. NoTurn(<<>>) \in StateOf(Item) /\ Records = <<>>
  BY <1>1, EmptySeq, NoTurnType, ConcatEmptySeq DEF Records, Whole, Torn
<1>3. Latest = NoTurn(<<>>) /\ Canonical = NoTurn(<<>>)
  BY <1>1, <1>2, ReadsNothing DEF Latest, Canonical
<1>4. Orphans(<<>>) = {}
  BY EmptySeq DEF Orphans, Answered, Of
<1> QED BY <1>3, <1>4 DEF OrphansAreTrimmed, OrphansIn, NoTurn

LEMMA SoundIsPaired ==
  ASSUME Sound, OrphansAreTrimmed
  PROVE  PairedContext
<1>1. history \in Seq(Item) /\ Canonical.committed \in Seq(Item)
  <2>1. history \in Seq(Item)
    BY TaskIsARecord DEF Sound, Ordered, TypeOK, LoopType, history
  <2>2. Canonical \in StateOf(Item)
    BY LatestType DEF Sound, Ordered, TypeOK
  <2> QED BY <2>1, <2>2 DEF StateOf
<1>2. pc \in {"sample", "compacting"} => /\ WellFormed(history) /\ Clean(history)
                                         /\ history # <<>>
  BY DEF Sound, TaskIsSound, HistoryIsSound, Loop
<1>3. Paired(Canonical.committed) /\ Orphans(Canonical.committed) \subseteq Trimmed
  <2>1. WellFormed(Canonical.committed) /\ Clean(Canonical.committed)
    BY DEF Sound, FilesAreSound, StateIsSound
  <2> QED BY <1>1, <2>1, PairedIs DEF Clean, OrphansAreTrimmed, OrphansIn
<1>4. ASSUME pc = "sample", commit = Idle
      PROVE  Paired(history) /\ Orphans(history) \subseteq Trimmed
  <2>1. history = task.context /\ Latest.context = task.context
    BY <1>4, AtItsFile DEF Sound, TaskIsSound, HistoryIsSound, Loop, StoreIdle
  <2> QED BY <1>1, <1>2, <1>4, <2>1, PairedIs DEF Clean, OrphansAreTrimmed, OrphansIn
<1>5. ASSUME pc = "compacting" PROVE Paired(CompactionRequest)
  <2>1. PICK items, tokens : items = CompactionRequest /\ items = Trim(history, tokens)
    BY DEF CompactionRequest
  <2>2. Thins(items, history)
    BY <1>1, <1>2, <1>5, <2>1, TrimThins
  <2>3. items \in Seq(Item) /\ WellFormed(items) /\ Unanswered(items) = {}
    BY <1>2, <1>5, <2>2, ThinnedKeeps, ThinnedWellFormed DEF Clean
  <2> QED BY <2>1, <2>3, PairedIs
<1> QED BY <1>3, <1>4, <1>5 DEF PairedContext

(* Whatever crashed, was cancelled, compacted, trimmed or failed to be     *)
(* written, no history a provider is sent, to sample or to compact, and no *)
(* context the next Turn begins with, has a call without its output, an    *)
(* output twice or before its call (repair_interrupted_tool_calls,         *)
(* build_compacted_history, trim_history, apply_record); an output without *)
(* its call is in what is sampled and in what is kept only when a trim has *)
(* cut between the two.                                                    *)
THEOREM TurnContextIsPaired == Spec => []PairedContext
<1>1. Init => Sound /\ OrphansAreTrimmed
  BY SoundInit, OrphansInit
<1>2. Sound /\ OrphansAreTrimmed /\ [Next]_vars => Sound' /\ OrphansAreTrimmed'
  BY SoundStep, OrphansStep
<1>3. Sound /\ OrphansAreTrimmed => PairedContext
  BY SoundIsPaired
<1> QED BY <1>1, <1>2, <1>3, PTL DEF Spec
-----------------------------------------------------------------------------
(* What the records say of calls, and what a record adds to it             *)

AllSaved == Saved(Turns)
Brought(r) == IF r.kind = "checkpoint" THEN Range(r.items) ELSE {}
BroughtBy(s) == UNION {Brought(s[n]) : n \in DOMAIN s}

LEMMA ItemsBrought == \A s, x : x \in BroughtBy(s) <=> \E n \in DOMAIN s : x \in Brought(s[n])
  BY DEF BroughtBy

LEMMA SavedIs ==
  ASSUME StoreType(Item)
  PROVE  AllSaved = BroughtBy(Records)
<1>1. \A n \in DOMAIN Records : Records[n] \in RecordOf(Item)
  BY WholeType, LenProperties, ElementOfSeq
<1>2. \A n \in DOMAIN Records : Records[n].turn \in Turns
  BY <1>1, KindsAre
<1>3. ASSUME NEW x PROVE x \in AllSaved <=> \E n \in DOMAIN Records : x \in Brought(Records[n])
  BY <1>2 DEF AllSaved, Saved, Brought, Range
<1> QED BY <1>3, ItemsBrought

LEMMA BroughtByOneMore ==
  ASSUME NEW s, NEW r, NEW t, Follows(t, s, r, RecordOf(Item))
  PROVE  BroughtBy(t) = BroughtBy(s) \cup Brought(r)
<1>1. /\ s \in Seq(RecordOf(Item)) /\ r \in RecordOf(Item) /\ t = Append(s, r)
  BY DEF Follows
<1>2. Len(s) \in Nat /\ DOMAIN s = 1..Len(s)
  BY <1>1, LenProperties
<1>3. /\ t \in Seq(RecordOf(Item)) /\ Len(t) = Len(s) + 1
      /\ \A i \in 1..Len(s) : t[i] = s[i]
      /\ t[Len(s) + 1] = r
  BY <1>1, AppendProperties
<1>4. DOMAIN t = 1..(Len(s) + 1)
  BY <1>3, LenProperties
<1>5. \A n : n \in DOMAIN t <=> n \in DOMAIN s \/ n = Len(s) + 1
  BY <1>2, <1>4, SMT
<1>6. ASSUME NEW x
      PROVE  (\E n \in DOMAIN t : x \in Brought(t[n]))
               <=> (\E n \in DOMAIN s : x \in Brought(s[n])) \/ x \in Brought(r)
  BY <1>2, <1>3, <1>5
<1>7. \A x : x \in BroughtBy(t) <=> x \in BroughtBy(s) \/ x \in Brought(r)
  BY <1>6, ItemsBrought
<1> QED BY <1>7

LEMMA SavedStep ==
  ASSUME StoreType(Item), StoreIsInOrder, StoreAction(Item)
  PROVE  \/ Unmoved /\ AllSaved' = AllSaved
         \/ Joined /\ ~Committing' /\ AllSaved' = AllSaved \cup Brought(commit.record)
<1>1. \/ /\ Records' = Records /\ Latest' = Latest /\ Told' = Told
      \/ /\ Adding /\ ~Committing' /\ commit.record \in RecordOf(Item)
         /\ Records' = Append(Records, commit.record)
         /\ Latest' = Read(Latest, commit.record) /\ Told' = Project(Told, commit.record)
  BY ToldStep
<1>2. CASE Records' = Records /\ Latest' = Latest /\ Told' = Told
  BY <1>2 DEF Unmoved, AllSaved, Saved
<1>3. CASE /\ Adding /\ ~Committing' /\ commit.record \in RecordOf(Item)
           /\ Records' = Append(Records, commit.record)
           /\ Latest' = Read(Latest, commit.record) /\ Told' = Project(Told, commit.record)
  <2>1. StoreType(Item)'
    BY StoreTypeStep
  <2>2. Records \in Seq(RecordOf(Item))
    BY WholeType
  <2>3. AllSaved = BroughtBy(Records)
    BY SavedIs
  <2>4. AllSaved' = BroughtBy(Records')
    <3>1. Records' \in Seq(RecordOf(Item))
      BY <2>1, WholeTypeNext
    <3>2. \A n \in DOMAIN Records' : Records'[n] \in RecordOf(Item)
      BY <3>1, LenProperties, ElementOfSeq
    <3>3. \A n \in DOMAIN Records' : Records'[n].turn \in Turns
      BY <3>2, KindsAre
    <3>4. ASSUME NEW x
          PROVE  x \in AllSaved' <=> \E n \in DOMAIN Records' : x \in Brought(Records'[n])
      BY <3>3 DEF AllSaved, Saved, Brought, Range
    <3> QED BY <3>4, ItemsBrought
  <2>5. PICK s, t : s = Records /\ t = Records'
    OBVIOUS
  <2>6. Follows(t, s, commit.record, RecordOf(Item))
    BY <1>3, <2>2, <2>5 DEF Follows
  <2>7. AllSaved' = AllSaved \cup Brought(commit.record)
    BY <2>3, <2>4, <2>5, <2>6, BroughtByOneMore
  <2> QED BY <1>3, <2>7 DEF Joined
<1> QED BY <1>1, <1>2, <1>3

(* A record brings calls that no record has, or outputs of open ones.      *)
Brings(k, S, items) == Range(items) = {<<k, c>> : c \in S}
Fresh(items, saved, open, made) ==
  \/ Plain(items)
  \/ \E S \in SUBSET Calls : S # {} /\ Brings("call", S, items) /\ \A c \in S : Call(c) \notin saved
  \/ \E S \in SUBSET open : S # {} /\ Brings("aborted", S, items)
  \/ \E c \in open \cap made : Brings("out", {c}, items)

(* What is there of calls and outputs has been saved.                      *)
Repeats(items, saved) ==
  \A n \in DOMAIN items : IsCall(items[n]) \/ IsAnswer(items[n]) => items[n] \in saved

(* A record that replaces the context brings none.                         *)
Tells(r, saved, open, made) ==
  r.kind = "checkpoint" =>
    IF r.replace THEN Repeats(r.items, saved) /\ Clean(r.items)
                 ELSE Fresh(r.items, saved, open, made)

CallsAreSaved(saved, S) ==
  /\ Repeats(S.context, saved) /\ Repeats(S.committed, saved)
  /\ \A c \in Calls : Out(c) \in saved \/ Aborted(c) \in saved => Call(c) \in saved
  /\ \A c \in Unanswered(S.context) : Out(c) \notin saved /\ Aborted(c) \notin saved

LEMMA BringsIs ==
  ASSUME NEW items \in Seq(Item), NEW S \in SUBSET Calls
  PROVE  /\ Brings("call", S, items) =>
              CallsIn(items) = S /\ Answered(items) = {} /\ \A c \in Calls :
                /\ Call(c) \in Range(items) <=> c \in S
                /\ Out(c) \notin Range(items) /\ Aborted(c) \notin Range(items)
         /\ Brings("aborted", S, items) =>
              CallsIn(items) = {} /\ Answered(items) = S /\ \A c \in Calls :
                /\ Aborted(c) \in Range(items) <=> c \in S
                /\ Call(c) \notin Range(items) /\ Out(c) \notin Range(items)
         /\ Brings("out", S, items) =>
              CallsIn(items) = {} /\ Answered(items) = S /\ \A c \in Calls :
                /\ Out(c) \in Range(items) <=> c \in S
                /\ Call(c) \notin Range(items) /\ Aborted(c) \notin Range(items)
<1>1. /\ \A c : c \in CallsIn(items) <=> c \in Calls /\ Call(c) \in Range(items)
      /\ \A c : c \in Answered(items) <=>
           c \in Calls /\ (Out(c) \in Range(items) \/ Aborted(c) \in Range(items))
  BY DEF CallsIn, Answered, Of, Range, Call, Out, Aborted
<1>2. ASSUME Brings("call", S, items)
      PROVE  \A c \in Calls : /\ Call(c) \in Range(items) <=> c \in S
                              /\ Out(c) \notin Range(items) /\ Aborted(c) \notin Range(items)
  BY <1>2 DEF Brings, Call, Out, Aborted
<1>3. ASSUME Brings("aborted", S, items)
      PROVE  \A c \in Calls : /\ Aborted(c) \in Range(items) <=> c \in S
                              /\ Call(c) \notin Range(items) /\ Out(c) \notin Range(items)
  BY <1>3 DEF Brings, Call, Out, Aborted
<1>4. ASSUME Brings("out", S, items)
      PROVE  \A c \in Calls : /\ Out(c) \in Range(items) <=> c \in S
                              /\ Call(c) \notin Range(items) /\ Aborted(c) \notin Range(items)
  BY <1>4 DEF Brings, Call, Out, Aborted
<1>5. ASSUME Brings("call", S, items) PROVE CallsIn(items) = S /\ Answered(items) = {}
  <2>1. \A c : c \in CallsIn(items) <=> c \in S
    BY <1>1, <1>2, <1>5
  <2>2. \A c : c \notin Answered(items)
    BY <1>1, <1>2, <1>5
  <2> QED BY <2>1, <2>2
<1>6. ASSUME Brings("aborted", S, items) PROVE CallsIn(items) = {} /\ Answered(items) = S
  <2>1. \A c : c \in Answered(items) <=> c \in S
    BY <1>1, <1>3, <1>6
  <2>2. \A c : c \notin CallsIn(items)
    BY <1>1, <1>3, <1>6
  <2> QED BY <2>1, <2>2
<1>7. ASSUME Brings("out", S, items) PROVE CallsIn(items) = {} /\ Answered(items) = S
  <2>1. \A c : c \in Answered(items) <=> c \in S
    BY <1>1, <1>4, <1>7
  <2>2. \A c : c \notin CallsIn(items)
    BY <1>1, <1>4, <1>7
  <2> QED BY <2>1, <2>2
<1> QED BY <1>2, <1>3, <1>4, <1>5, <1>6, <1>7

LEMMA PlainBringsNone ==
  ASSUME NEW items, Plain(items)
  PROVE  \A c \in Calls : /\ Call(c) \notin Range(items) /\ Out(c) \notin Range(items)
                          /\ Aborted(c) \notin Range(items)
BY CallShape DEF Plain, Range

LEMMA RepeatsIs ==
  ASSUME NEW items \in Seq(Item), NEW saved, Repeats(items, saved)
  PROVE  /\ \A c \in CallsIn(items) : Call(c) \in saved
         /\ \A c \in Calls : /\ Call(c) \in Range(items) => Call(c) \in saved
                             /\ Out(c) \in Range(items) => Out(c) \in saved
                             /\ Aborted(c) \in Range(items) => Aborted(c) \in saved
<1>1. \A c \in Calls : IsCall(Call(c)) /\ IsAnswer(Out(c)) /\ IsAnswer(Aborted(c))
  BY CallShape
<1>2. \A c \in Calls : /\ Call(c) \in Range(items) => Call(c) \in saved
                       /\ Out(c) \in Range(items) => Out(c) \in saved
                       /\ Aborted(c) \in Range(items) => Aborted(c) \in saved
  BY <1>1 DEF Range, Repeats
<1>3. \A c \in CallsIn(items) : c \in Calls /\ Call(c) \in Range(items)
  BY Members DEF Range
<1> QED BY <1>2, <1>3

LEMMA RecordKeepsSaved ==
  ASSUME NEW S \in StateOf(Item), NEW r \in RecordOf(Item), NEW saved, NEW made,
         StateIsSound(S), CallsAreSaved(saved, S),
         Tells(r, saved, Unanswered(S.context), made)
  PROVE  CallsAreSaved(saved \cup Brought(r), Read(S, r))
<1>1. /\ r.kind \in {"created", "checkpoint", "updated"}
      /\ r.kind = "updated" => r.status \in {"Running"} \cup TerminalTurn
  BY KindsAre
<1>2. S.context \in Seq(Item) /\ S.committed \in Seq(Item)
  BY DEF StateOf
<1>3. /\ Unanswered(S.committed) = {} /\ Repeats(<<>>, saved) /\ Unanswered(<<>>) = {}
      /\ Repeats(S.context, saved) /\ Repeats(S.committed, saved)
  <2>1. <<>> \in Seq(Item) /\ Plain(<<>>)
    BY EmptySeq DEF Plain
  <2>2. Repeats(<<>>, saved)
    BY <2>1 DEF Plain, Repeats
  <2> QED BY <2>1, <2>2, PlainItems DEF StateIsSound, Clean, CallsAreSaved
<1>4. PICK R : R = Read(S, r)
  OBVIOUS
<1>5. CASE r.kind = "created"
  <2>1. R.committed = S.committed /\ R.context = S.committed /\ Brought(r) = {}
    BY <1>4, <1>5, ReadCreated DEF Brought
  <2> QED BY <1>3, <1>4, <2>1 DEF CallsAreSaved
<1>6. CASE r.kind = "updated"
  <2>1. Brought(r) = {}
    BY <1>6 DEF Brought
  <2>2. CASE r.status \in {"Completed", "Interrupted"}
    <3>1. R.committed = S.context /\ R.context = <<>>
      BY <1>4, <1>6, <2>2, ReadUpdated DEF NoTurn
    <3> QED BY <1>3, <1>4, <2>1, <3>1 DEF CallsAreSaved
  <2>3. CASE r.status \in {"Failed", "Cancelled"}
    <3>1. R.committed = S.committed /\ R.context = <<>>
      BY <1>4, <1>6, <2>3, ReadUpdated DEF NoTurn
    <3> QED BY <1>3, <1>4, <2>1, <3>1 DEF CallsAreSaved
  <2>4. CASE r.status = "Running"
    <3>1. R = S
      BY <1>4, <1>6, <2>4, ReadUpdated
    <3> QED BY <1>4, <2>1, <3>1 DEF CallsAreSaved
  <2> QED BY <1>1, <1>6, <2>2, <2>3, <2>4 DEF TerminalTurn
<1>7. CASE r.kind = "checkpoint"
  <2>1. PICK items \in Seq(Item) : items = r.items
    BY <1>7, KindsAre DEF CheckpointRecord
  <2>2. PICK open : open = Unanswered(S.context)
    OBVIOUS
  <2>3. open \in SUBSET CallsIn(S.context) /\ CallsIn(S.context) \in SUBSET Calls
    BY <1>2, <2>2, CallsAreFew DEF Unanswered
  <2>4. /\ R.committed = S.committed /\ Brought(r) = Range(items)
        /\ R.context = IF r.replace THEN items ELSE S.context \o items
    <3>1. R.committed = S.committed /\ R.context = NewContext(S, r)
      BY <1>4, <1>7, ReadCheckpoint
    <3>2. Brought(r) = Range(items)
      BY <1>7, <2>1 DEF Brought
    <3> QED BY <2>1, <3>1, <3>2 DEF NewContext
  <2>5. /\ \A c \in CallsIn(S.context) : Call(c) \in saved
        /\ \A c \in Calls : Out(c) \in saved \/ Aborted(c) \in saved => Call(c) \in saved
        /\ \A c \in open : Out(c) \notin saved /\ Aborted(c) \notin saved
    BY <1>2, <2>2, RepeatsIs DEF CallsAreSaved
  <2>5a. Repeats(S.committed, saved \cup Range(items)) /\ Repeats(S.context, saved \cup Range(items))
    BY <1>3 DEF Repeats
  <2>6. CASE r.replace
    <3>1. Repeats(items, saved) /\ Unanswered(items) = {} /\ R.context = items
      BY <1>7, <2>1, <2>4, <2>6 DEF Tells, Clean
    <3>2. Repeats(items, saved \cup Range(items))
      BY <3>1 DEF Repeats
    <3>3. \A c \in Calls : Out(c) \in Range(items) \/ Aborted(c) \in Range(items)
                             => Call(c) \in saved
      BY <2>5, <3>1, RepeatsIs
    <3> QED BY <1>4, <2>4, <2>5, <2>5a, <3>1, <3>2, <3>3 DEF CallsAreSaved
  <2>7. CASE ~r.replace
    <3>1. PICK u : u = S.context \o items
      OBVIOUS
    <3>2. Joins(u, S.context, items, Item) /\ R.context = u
      BY <1>2, <2>4, <2>7, <3>1 DEF Joins
    <3>3. CallsIn(u) = CallsIn(S.context) \cup CallsIn(items)
          /\ Answered(u) = Answered(S.context) \cup Answered(items)
      BY <3>2, JoinedSets
    <3>4. Unanswered(u) = (open \ Answered(items)) \cup ((CallsIn(items) \ Answered(S.context)) \ Answered(items))
      BY <2>2, <3>3 DEF Unanswered
    <3>5. Repeats(u, saved \cup Range(items))
      <4>1. \A n \in DOMAIN items : items[n] \in Range(items)
        BY DEF Range
      <4>2. \A k \in DOMAIN u : \/ k \in DOMAIN S.context /\ u[k] = S.context[k]
                                \/ \E n \in DOMAIN items : u[k] = items[n]
        BY <3>2, JoinedItems
      <4> QED BY <2>5a, <4>1, <4>2 DEF Repeats
    <3>5a. CallsIn(items) \in SUBSET Calls
      BY <1>2, CallsAreFew
    <3>6. SUFFICES
            /\ \A c \in Calls : Out(c) \in Range(items) \/ Aborted(c) \in Range(items)
                 => Call(c) \in saved \cup Range(items)
            /\ \A c \in Unanswered(u) : /\ Out(c) \notin saved \cup Range(items)
                                        /\ Aborted(c) \notin saved \cup Range(items)
      BY <1>4, <2>4, <2>5a, <3>2, <3>5 DEF CallsAreSaved
    <3>7. CASE Plain(items)
      <4>1. CallsIn(items) = {} /\ Answered(items) = {}
        BY <3>7, PlainItems
      <4>2. \A c \in Calls : /\ Call(c) \notin Range(items) /\ Out(c) \notin Range(items)
                             /\ Aborted(c) \notin Range(items)
        BY <3>7, PlainBringsNone
      <4> QED BY <2>3, <2>5, <3>4, <4>1, <4>2
    <3>8. ASSUME NEW T \in SUBSET Calls, Brings("call", T, items), \A c \in T : Call(c) \notin saved
          PROVE  /\ \A c \in Calls : Out(c) \in Range(items) \/ Aborted(c) \in Range(items)
                      => Call(c) \in saved \cup Range(items)
                 /\ \A c \in Unanswered(u) : /\ Out(c) \notin saved \cup Range(items)
                                             /\ Aborted(c) \notin saved \cup Range(items)
      <4>1. CallsIn(items) = T /\ Answered(items) = {} /\ \A c \in Calls :
              /\ Call(c) \in Range(items) <=> c \in T
              /\ Out(c) \notin Range(items) /\ Aborted(c) \notin Range(items)
        BY <3>8, BringsIs
      <4> QED BY <2>3, <2>5, <3>4, <3>8, <4>1
    <3>9. ASSUME NEW T \in SUBSET open, Brings("aborted", T, items) \/ Brings("out", T, items)
          PROVE  /\ \A c \in Calls : Out(c) \in Range(items) \/ Aborted(c) \in Range(items)
                      => Call(c) \in saved \cup Range(items)
                 /\ \A c \in Unanswered(u) : /\ Out(c) \notin saved \cup Range(items)
                                             /\ Aborted(c) \notin saved \cup Range(items)
      <4>1. T \in SUBSET Calls
        BY <2>3
      <4>2. CallsIn(items) = {} /\ Answered(items) = T /\ \A c \in Calls :
              Out(c) \in Range(items) \/ Aborted(c) \in Range(items) => c \in T
        BY <3>9, <4>1, BringsIs
      <4> QED BY <2>3, <2>5, <3>4, <4>1, <4>2
    <3> QED
      <4>1. Fresh(items, saved, open, made)
        BY <1>7, <2>1, <2>2, <2>7 DEF Tells
      <4>2. \A c \in open \cap made : {c} \in SUBSET open
        OBVIOUS
      <4> QED BY <3>7, <3>8, <3>9, <4>1, <4>2 DEF Fresh
  <2> QED BY <2>6, <2>7
<1> QED BY <1>1, <1>5, <1>6, <1>7
-----------------------------------------------------------------------------
(* What is being saved, what runs, and what the rollout says of both       *)

SavedCalls == CallsAreSaved(AllSaved, Latest)

CommitIsFresh ==
  Committing => Tells(commit.record, AllSaved, Unanswered(Latest.context), produced)

RunsAreSound ==
  \A c \in Calls :
    /\ ran[c] \in {0, 1}
    /\ ran[c] = 1 => Call(c) \in AllSaved
    /\ tool[c] \in {"running", "done", "saved"} => ran[c] = 1
    /\ tool[c] \in {"done", "saved"} => c \in produced
    /\ pc = "announce" /\ c \in Unanswered(history) => ran[c] = 0
    /\ pc = "tools" /\ tool[c] = "queued" => ran[c] = 0

OpenInFile == pc = "tools" => Unanswered(history) \subseteq Unanswered(Latest.context)

Traced == Sound /\ SavedCalls /\ CommitIsFresh /\ RunsAreSound /\ OpenInFile

LEMMA SavedCallsStep ==
  ASSUME Traced, [Next]_vars
  PROVE  /\ SavedCalls' /\ AllSaved \subseteq AllSaved'
         /\ \/ Unmoved /\ AllSaved' = AllSaved
            \/ Joined /\ ~Committing' /\ AllSaved' = AllSaved \cup Brought(commit.record)
<1>1. StoreType(Item) /\ StoreIsInOrder /\ StoreAction(Item)
  BY StoreActs DEF Traced, Sound, Ordered, TypeOK
<1>2. \/ Unmoved /\ AllSaved' = AllSaved
      \/ Joined /\ ~Committing' /\ AllSaved' = AllSaved \cup Brought(commit.record)
  BY <1>1, SavedStep
<1>3. CASE Unmoved /\ AllSaved' = AllSaved
  <2>1. CallsAreSaved(AllSaved', Latest')
    BY <1>3 DEF Traced, SavedCalls, Unmoved
  <2> QED BY <1>3, <2>1 DEF SavedCalls
<1>4. CASE Joined /\ ~Committing' /\ AllSaved' = AllSaved \cup Brought(commit.record)
  <2>1. Committing /\ commit # Idle /\ Latest' = Read(Latest, commit.record)
    BY <1>4 DEF Joined, Adding, Committing, Idle
  <2>2. PICK r \in RecordOf(Item) : r = commit.record
    BY <1>1, <2>1, CommitTypes
  <2>3. Latest \in StateOf(Item) /\ StateIsSound(Latest)
    BY <1>1, LatestType DEF Traced, Sound, FilesAreSound
  <2>4. Tells(r, AllSaved, Unanswered(Latest.context), produced)
    BY <2>1, <2>2 DEF Traced, CommitIsFresh
  <2>5. CallsAreSaved(AllSaved, Latest)
    BY DEF Traced, SavedCalls
  <2>6. CallsAreSaved(AllSaved \cup Brought(r), Read(Latest, r))
    BY <2>3, <2>4, <2>5, RecordKeepsSaved
  <2>7. CallsAreSaved(AllSaved', Latest')
    BY <1>4, <2>1, <2>2, <2>6
  <2> QED BY <1>4, <2>7 DEF SavedCalls
<1> QED BY <1>2, <1>3, <1>4

(* A step after which no record is on its way to the file                  *)
LEMMA QuietTraced ==
  ASSUME Traced, [Next]_vars, ~Committing', RunsAreSound'
  PROVE  Traced'
<1>1. Sound'
  BY SoundStep DEF Traced
<1>2. SavedCalls'
  BY SavedCallsStep
<1>3. CommitIsFresh'
  BY DEF CommitIsFresh
<1>4. OpenInFile'
  <2>1. pc' = "tools" => Latest'.context = task'.context /\ history' = task'.context
    BY <1>1 DEF Sound, TaskIsSound, TaskFollowsFile, HistoryIsSound, Upcoming, Loop
  <2>2. pc' = "tools" => Unanswered(history') \subseteq Unanswered(Latest'.context)
    BY <2>1
  <2> QED BY <2>2 DEF OpenInFile
<1> QED BY <1>1, <1>2, <1>3, <1>4 DEF Traced

(* A step that hands a record to the Store                                 *)
LEMMA CommitTraced ==
  ASSUME Traced, [Next]_vars, NEW r, Commit(r), UNCHANGED produced, RunsAreSound',
         Tells(r, AllSaved, Unanswered(Latest.context), produced),
         pc' = "tools" => Unanswered(history') \subseteq Unanswered(Latest.context)
  PROVE  Traced'
<1>1. Sound'
  BY SoundStep DEF Traced
<1>2. SavedCalls'
  BY SavedCallsStep
<1>3. Latest' = Latest /\ commit'.record = r
  BY Commits DEF Traced
<1>4. AllSaved' = AllSaved
  <2>1. StandsStill
    BY QuietTask DEF Traced, Sound
  <2> QED BY <2>1 DEF StandsStill, AllSaved, Saved
<1>5. CommitIsFresh'
  <2>1. Tells(commit'.record, AllSaved', Unanswered(Latest'.context), produced')
    BY <1>3, <1>4
  <2> QED BY <2>1 DEF CommitIsFresh, Tells
<1>6. OpenInFile'
  <2>1. pc' = "tools" => Unanswered(history') \subseteq Unanswered(Latest'.context)
    BY <1>3
  <2> QED BY <2>1 DEF OpenInFile
<1> QED BY <1>1, <1>2, <1>5, <1>6 DEF Traced

(* Tools are left as they are, or given up.                                *)
LEMMA RunsStay ==
  ASSUME Traced, [Next]_vars, UNCHANGED <<ran, produced>>,
         \A c \in Calls : tool'[c] \in {tool[c], "none"},
         pc' \in {"announce", "tools"} => pc' = pc /\ history' = history
  PROVE  RunsAreSound'
<1>1. AllSaved \subseteq AllSaved'
  BY SavedCallsStep
<1>2. RunsAreSound
  BY DEF Traced
<1>3. ASSUME NEW c \in Calls
      PROVE  /\ ran'[c] \in {0, 1}
             /\ ran'[c] = 1 => Call(c) \in AllSaved'
             /\ tool'[c] \in {"running", "done", "saved"} => ran'[c] = 1
             /\ tool'[c] \in {"done", "saved"} => c \in produced'
             /\ pc' = "announce" /\ c \in Unanswered(history') => ran'[c] = 0
             /\ pc' = "tools" /\ tool'[c] = "queued" => ran'[c] = 0
  BY <1>1, <1>2 DEF RunsAreSound
<1> QED BY <1>3 DEF RunsAreSound

LEMMA GivesUp ==
  ASSUME Traced, UNCHANGED tool \/ tool' = NoTools
  PROVE  \A c \in Calls : tool'[c] \in {tool[c], "none"}
BY DEF NoTools

(* Steps that bring no record with calls or outputs, nor start a tool      *)
LEMMA QuietSteps ==
  ASSUME Traced, [Next]_vars
  PROVE  /\ \A t \in Turns : TakeUp(t) \/ ActionRecovers(t) => Traced'
         /\ Load \/ Reconcile \/ Begin \/ Top => Traced'
         /\ CompactStart \/ CompactDone \/ CompactFails \/ BeginFails => Traced'
         /\ SampleDuplicate \/ SampleRetry \/ SampleFails \/ SampleCancelled => Traced'
         /\ \A c \in Calls : FinishStep(c) => Traced'
         /\ FinishPending \/ TaskEnds => Traced'
         /\ CommitStep \/ CommitFails => Traced'
         /\ \A i \in Inputs : Send(i) => Traced'
         /\ \A survives \in BOOLEAN : Crash(survives) => Traced'
<1>1. /\ Ordered /\ task \in TaskType /\ task.wasted \in Nat /\ task.wasted + 1 \in Nat
      /\ StoreType(Item) /\ StoreIsInOrder
  BY TaskIsARecord DEF Traced, Sound, Ordered, TypeOK, LoopType
<1>2. ASSUME commit' = Idle, UNCHANGED <<ran, produced>>, UNCHANGED tool \/ tool' = NoTools,
             pc' \in {"announce", "tools"} => pc' = pc /\ history' = history
      PROVE  Traced'
  <2>1. ~Committing'
    BY <1>2 DEF Committing, Idle
  <2>2. RunsAreSound'
    BY <1>2, GivesUp, RunsStay
  <2> QED BY <2>1, <2>2, QuietTraced
<1>3. ASSUME NEW t \in Turns, TakeUp(t) \/ ActionRecovers(t) PROVE Traced'
  <2>1. /\ commit' = Idle /\ UNCHANGED <<ran, produced, tool>> /\ pc' \in {"start", "off"}
    BY <1>3 DEF TakeUp, ActionRecovers, EndAction, At, StoreIdle, rolloutVars, volatile
  <2> QED BY <1>2, <2>1
<1>4. ASSUME Load \/ Reconcile \/ Begin PROVE Traced'
  <2>1. /\ commit' = Idle /\ UNCHANGED <<ran, produced, tool>>
        /\ pc' \notin {"announce", "tools"}
    BY <1>4 DEF Load, Reconcile, Begin, Scan, At, StoreIdle, rolloutVars
  <2> QED BY <1>2, <2>1
<1>5. ASSUME Top PROVE Traced'
  <2>1. /\ commit' = Idle /\ UNCHANGED <<ran, produced, tool>>
        /\ pc' \notin {"announce", "tools"}
    BY <1>5 DEF Top, Leave, ClaimInputs, At, StoreIdle, rolloutVars
  <2> QED BY <1>2, <2>1
<1>6. ASSUME CompactStart \/ CompactDone \/ CompactFails \/ BeginFails PROVE Traced'
  <2>1. /\ commit' = Idle /\ UNCHANGED <<ran, produced, tool>>
        /\ pc' \notin {"announce", "tools"}
    BY <1>6 DEF CompactStart, CompactDone, CompactFails, BeginFails, Leave, At, StoreIdle, rolloutVars
  <2> QED BY <1>2, <2>1
<1>7. ASSUME SampleDuplicate \/ SampleRetry \/ SampleFails \/ SampleCancelled PROVE Traced'
  <2>1. /\ commit' = Idle /\ UNCHANGED <<ran, produced, tool>>
        /\ pc' \notin {"announce", "tools"}
    BY <1>7 DEF SampleDuplicate, SampleRetry, SampleFails, SampleCancelled, ChargeTokens,
         Leave, At, StoreIdle, rolloutVars
  <2> QED BY <1>2, <2>1
<1>8. ASSUME NEW c \in Calls, FinishStep(c) PROVE Traced'
  <2>1. commit' = Idle /\ UNCHANGED <<ran, produced>> /\ tool' = [tool EXCEPT ![c] = "none"]
        /\ pc = "tools" /\ pc' \in {"tools", "top"}
    BY <1>8 DEF FinishStep, At, StoreIdle, rolloutVars
  <2>2. history' = history
    BY <1>1, <1>8 DEF FinishStep, TaskType, history
  <2>3. \A d \in Calls : tool'[d] \in {tool[d], "none"}
    BY <1>1, <2>1 DEF Ordered, TypeOK, LoopType
  <2>4. ~Committing'
    BY <2>1 DEF Committing, Idle
  <2>5. RunsAreSound'
    BY <2>1, <2>2, <2>3, RunsStay
  <2> QED BY <2>4, <2>5, QuietTraced
<1>9. ASSUME FinishPending \/ TaskEnds PROVE Traced'
  <2>1. /\ commit' = Idle /\ UNCHANGED <<ran, produced>> /\ tool' = NoTools
        /\ pc' \notin {"announce", "tools"}
    BY <1>9 DEF FinishPending, TaskEnds, EndAction, At, StoreIdle, rolloutVars
  <2> QED BY <1>2, <2>1
<1>10. ASSUME CommitStep PROVE Traced'
  <2>1. /\ UNCHANGED <<ran, produced, tool, pc, task>> /\ (AppendRecord \/ ProjectRecord)
    BY <1>10 DEF CommitStep, volatile
  <2>2. ~Committing'
    <3>1. Projecting' \/ commit' = Idle
      BY <1>1, <2>1, CommitStepIs
    <3> QED BY <3>1 DEF Projecting, Committing, Idle
  <2>3. history' = history
    BY <2>1 DEF history
  <2>4. RunsAreSound'
    BY <2>1, <2>3, GivesUp, RunsStay
  <2> QED BY <2>2, <2>4, QuietTraced
<1>11. ASSUME CommitFails PROVE Traced'
  <2>1. /\ UNCHANGED <<ran, produced, tool>> /\ AppendFails
        /\ UNCHANGED <<pc, task>> \/ pc' \in {"ending", "left"}
    BY <1>11 DEF CommitFails, Leave
  <2>2. commit' = Idle
    BY <2>1 DEF AppendFails
  <2>3. pc' \in {"announce", "tools"} => pc' = pc /\ history' = history
    BY <2>1 DEF history
  <2> QED BY <1>2, <2>1, <2>2, <2>3
<1>12. ASSUME NEW i \in Inputs, Send(i) PROVE Traced'
  <2>1. commit' = Idle /\ UNCHANGED <<ran, produced, tool, pc, task>>
    BY <1>12 DEF Send, SendInput, StoreIdle, volatile
  <2>2. history' = history
    BY <2>1 DEF history
  <2> QED BY <1>2, <2>1, <2>2
<1>13. ASSUME NEW survives \in BOOLEAN, Crash(survives) PROVE Traced'
  <2>1. /\ commit' = Idle /\ UNCHANGED <<ran, produced>> /\ tool' = NoTools /\ pc' = "off"
    BY <1>13 DEF Crash, Reopen
  <2> QED BY <1>2, <2>1
<1> QED BY <1>3, <1>4, <1>5, <1>6, <1>7, <1>8, <1>9, <1>10, <1>11, <1>12, <1>13

(* Records of a Turn's beginning and end                                   *)
LEMMA EdgesTraced ==
  ASSUME Traced, [Next]_vars
  PROVE  /\ \A t \in Turns : Attach(t) \/ CancelRow(t) => Traced'
         /\ StartTurn \/ Complete \/ EndTurn => Traced'
<1>1. ASSUME NEW r, Commit(r), r.kind # "checkpoint", UNCHANGED <<ran, produced, tool>>,
             pc' \notin {"announce", "tools"}
      PROVE  Traced'
  <2>1. RunsAreSound'
    BY <1>1, GivesUp, RunsStay
  <2>2. Tells(r, AllSaved, Unanswered(Latest.context), produced)
    BY <1>1 DEF Tells
  <2> QED BY <1>1, <2>1, <2>2, CommitTraced
<1>2. ASSUME UNCHANGED rolloutVars, commit = Idle, UNCHANGED <<ran, produced, tool>>,
             pc' \notin {"announce", "tools"}
      PROVE  Traced'
  <2>1. RunsAreSound'
    BY <1>2, GivesUp, RunsStay
  <2>2. ~Committing'
    BY <1>2 DEF Committing, Idle, rolloutVars
  <2> QED BY <2>1, <2>2, QuietTraced
<1>3. ASSUME NEW t \in Turns, Attach(t) PROVE Traced'
  <2>1. Commit(Created(t)) /\ Created(t).kind # "checkpoint" /\ UNCHANGED <<ran, produced, tool>>
        /\ pc' = "start"
    BY <1>3 DEF Attach, Created
  <2> QED BY <1>1, <2>1
<1>4. ASSUME NEW t \in Turns, CancelRow(t) PROVE Traced'
  <2>1. Commit(Updated(t, "Cancelled", {})) /\ Updated(t, "Cancelled", {}).kind # "checkpoint"
        /\ UNCHANGED <<ran, produced, tool>> /\ pc' \in {"off", "left"}
    BY <1>4 DEF CancelRow, Updated, At, volatile
  <2> QED BY <1>1, <2>1
<1>5. \A t, status, acks : Updated(t, status, acks).kind # "checkpoint"
  BY DEF Updated
<1>6. ASSUME StartTurn \/ Complete \/ EndTurn PROVE Traced'
  <2>1. /\ commit = Idle /\ UNCHANGED <<ran, produced, tool>> /\ pc' \in {"load", "left"}
        /\ UNCHANGED rolloutVars \/ \E t, status, acks : Commit(Updated(t, status, acks))
    BY <1>6 DEF StartTurn, Complete, EndTurn, At, StoreIdle
  <2>2. CASE UNCHANGED rolloutVars
    BY <1>2, <2>1, <2>2
  <2>3. CASE \E t, status, acks : Commit(Updated(t, status, acks))
    <3>1. PICK r : Commit(r) /\ r.kind # "checkpoint"
      BY <1>5, <2>3
    <3> QED BY <1>1, <2>1, <3>1
  <2> QED BY <2>1, <2>2, <2>3
<1> QED BY <1>3, <1>4, <1>6

-----------------------------------------------------------------------------
(* The records of the loop                                                 *)

LEMMA RestIs ==
  ASSUME NEW items, NEW rest, Joins(items, task.context, rest, Item)
  PROVE  IsPrefix(task.context, items) /\ NewItems(items) = rest
<1>1. PICK a : a = task.context
  OBVIOUS
<1>2. /\ items \in Seq(Item) /\ a \in Seq(Item) /\ rest \in Seq(Item) /\ items = a \o rest
  BY <1>1, JoinedItems DEF Joins
<1>3. /\ Len(a) \in Nat /\ DOMAIN a = 1..Len(a) /\ Len(rest) \in Nat
      /\ Len(items) = Len(a) + Len(rest)
      /\ \A i \in 1..(Len(a) + Len(rest)) : items[i] = IF i <= Len(a) THEN a[i] ELSE rest[i - Len(a)]
  BY <1>2, LenProperties, ConcatProperties
<1>4. \A i \in 1..Len(a) : items[i] = a[i]
  BY <1>3
<1>5. SubSeq(items, 1, Len(a)) = SubSeq(a, 1, Len(a))
  <2>1. Len(a) <= Len(items) /\ Len(a) \in 0..Len(a)
    BY <1>3
  <2> QED BY <1>2, <1>4, <2>1, SamePrefix
<1>6. IsPrefix(a, items)
  BY <1>3, <1>5 DEF IsPrefix
<1>7. SubSeq(items, Len(a) + 1, Len(items)) = rest
  <2>1. PICK v : v = SubSeq(items, Len(a) + 1, Len(items))
    OBVIOUS
  <2>2. Len(a) + 1 \in Int /\ Len(items) \in Int
    BY <1>3
  <2>3. \A i \in (Len(a) + 1)..Len(items) : items[i] \in Item
    BY <1>2, <1>3, ElementOfSeq
  <2>4. /\ v \in Seq(Item)
        /\ Len(v) = IF Len(a) + 1 <= Len(items) THEN Len(items) - (Len(a) + 1) + 1 ELSE 0
        /\ \A i \in 1..(Len(items) - (Len(a) + 1) + 1) : v[i] = items[Len(a) + 1 + i - 1]
    BY <2>1, <2>2, <2>3, SubSeqProperties
  <2>5. Len(v) = Len(rest) /\ Len(items) - (Len(a) + 1) + 1 = Len(rest)
    BY <1>3, <2>4
  <2>6. ASSUME NEW i \in 1..Len(rest) PROVE v[i] = rest[i]
    <3>1. Len(a) + 1 + i - 1 = Len(a) + i /\ Len(a) + i \in 1..(Len(a) + Len(rest))
          /\ ~(Len(a) + i <= Len(a)) /\ (Len(a) + i) - Len(a) = i
      BY <1>3
    <3> QED BY <1>3, <2>4, <2>5, <3>1
  <2> QED BY <1>2, <2>1, <2>4, <2>5, <2>6, SeqEqual
<1> QED BY <1>1, <1>6, <1>7 DEF NewItems


(* Saving a history with what it is to bring                               *)
LEMMA SaveTraced ==
  ASSUME Traced, [Next]_vars, NEW items, NEW total, NEW step, NEW last, NEW acks,
         Save(items, total, step, last, acks), UNCHANGED produced, RunsAreSound',
         IF IsPrefix(task.context, items)
           THEN Fresh(NewItems(items), AllSaved, Unanswered(Latest.context), produced)
           ELSE Repeats(items, AllSaved) /\ Clean(items),
         pc' = "tools" => Unanswered(history') \subseteq Unanswered(Latest.context)
  PROVE  Traced'
<1>1. PICK r : r = SavedRecord(items, total, step, last, acks)
  OBVIOUS
<1>2. Commit(r)
  BY <1>1, SaveIs
<1>3. r.items = NewItems(items) /\ r.replace = ~IsPrefix(task.context, items)
  BY <1>1 DEF SavedRecord, Checkpoint
<1>4. Tells(r, AllSaved, Unanswered(Latest.context), produced)
  BY <1>3 DEF Tells, NewItems
<1> QED BY <1>2, <1>4, CommitTraced

(* What has only the calls and outputs of the saved context                *)
LEMMA KeepsRepeats ==
  ASSUME Traced, pc \in Loop, StoreIdle, NEW items, Keeps(items, task.context)
  PROVE  Repeats(items, AllSaved)
<1>1. Repeats(task.context, AllSaved)
  BY AtItsFile DEF Traced, SavedCalls, CallsAreSaved
<1> QED BY <1>1 DEF Repeats, Keeps

LEMMA EachBrings ==
  ASSUME NEW S \in SUBSET Calls, IsFiniteSet(S), NEW k \in {"call", "aborted"}
  PROVE  Brings(k, S, EachOf(k, S))
<1>1. /\ \A n \in DOMAIN EachOf(k, S) : \E c \in S : EachOf(k, S)[n] = <<k, c>>
      /\ \A c \in S : \E n \in DOMAIN EachOf(k, S) : EachOf(k, S)[n] = <<k, c>>
  BY EachType
<1> QED BY <1>1 DEF Brings, Range

LEMMA AtTask ==
  ASSUME Traced
  PROVE  /\ history \in Seq(Item) /\ task \in TaskType /\ Ordered
         /\ tool \in [Calls -> {"none", "queued", "running", "done", "saved"}]
         /\ ran \in [Calls -> Nat]
         /\ pc \in {"repair", "sample", "announce", "tools"} => history = task.context /\ WellFormed(history)
BY TaskIsARecord DEF Traced, Sound, Ordered, TypeOK, LoopType, history, TaskIsSound, HistoryIsSound, Loop

LEMMA RepairTraced ==
  ASSUME Traced, [Next]_vars, Repair
  PROVE  Traced'
<1>1. pc = "repair" /\ pc' = "begin" /\ StoreIdle /\ UNCHANGED <<tool, ran, produced>> /\ pc \in Loop
  BY DEF Repair, At, Loop
<1>2. RunsAreSound'
  BY <1>1, GivesUp, RunsStay
<1>3. history \in Seq(Item) /\ WellFormed(history) /\ history = task.context
  BY <1>1, AtTask
<1>4. CASE Clean(history)
  <2>1. UNCHANGED commit /\ commit = Idle
    BY <1>1, <1>4 DEF Repair, Clean, rolloutVars, StoreIdle
  <2>2. ~Committing'
    BY <2>1 DEF Committing, Idle
  <2> QED BY <1>2, <2>2, QuietTraced
<1>5. CASE ~Clean(history)
  <2>1. PICK open : open = Unanswered(history)
    OBVIOUS
  <2>2. open # {} /\ IsFiniteSet(open) /\ open \in SUBSET Calls
    BY <1>3, <1>5, <2>1, CallsAreFew DEF Clean
  <2>3. PICK items : items = history \o EachOf("aborted", open)
    OBVIOUS
  <2>4. Joins(items, history, EachOf("aborted", open), Item)
    BY <1>3, <2>2, <2>3, EachType DEF Joins
  <2>5. IsPrefix(task.context, items) /\ NewItems(items) = EachOf("aborted", open)
    BY <1>3, <2>4, RestIs
  <2>6. Latest.context = task.context
    BY <1>1, AtItsFile DEF Traced
  <2>7. Fresh(NewItems(items), AllSaved, Unanswered(Latest.context), produced)
    <3>1. Brings("aborted", open, NewItems(items))
      BY <2>2, <2>5, EachBrings
    <3>2. open \in SUBSET Unanswered(Latest.context)
      BY <1>3, <2>1, <2>6
    <3> QED BY <2>2, <3>1, <3>2 DEF Fresh
  <2>8. Save(items, task.total, task.step, task.last, {})
    <3>1. Save(history \o Each(Aborted, open), task.total, task.step, task.last, {})
      BY <1>5, <2>1 DEF Repair, Clean
    <3> QED BY <2>3, <3>1, EachIs
  <2> QED BY <1>1, <1>2, <2>5, <2>7, <2>8, SaveTraced
<1> QED BY <1>4, <1>5

LEMMA PlainIsFresh == \A items, saved, open, made : Plain(items) => Fresh(items, saved, open, made)
  BY DEF Fresh

LEMMA PromptTraced ==
  ASSUME Traced, [Next]_vars, Prompt
  PROVE  Traced'
<1>1. pc \in {"prompt", "window"} /\ StoreIdle /\ UNCHANGED <<tool, ran, produced>> /\ pc \in Loop
      /\ pc' \in {"sample", "ending"} /\ history \in Seq(Item) /\ task.context \in Seq(Item)
  BY PromptIs, AtTask, TaskIsARecord DEF At, Loop, Leave
<1>2. RunsAreSound'
  BY <1>1, GivesUp, RunsStay
<1>3. CASE Leave("Failed") /\ UNCHANGED rolloutVars
  <2>1. ~Committing'
    BY <1>1, <1>3 DEF rolloutVars, StoreIdle, Committing, Idle
  <2> QED BY <1>2, <2>1, QuietTraced
<1>4. CASE /\ Save(Sampled, task.total, task.step - 1, FALSE, task.acks)
           /\ pc' = "sample" /\ ~Strays
  <2>1. PICK items : items = Sampled
    OBVIOUS
  <2>2. /\ Clean(items) /\ Keeps(items, task.context)
        /\ IsPrefix(task.context, items) => Adds(items, task.context)
    BY <1>1, <1>4, <2>1, SampledIs DEF Traced
  <2>3. ASSUME IsPrefix(task.context, items)
        PROVE  Fresh(NewItems(items), AllSaved, Unanswered(Latest.context), produced)
    <3>1. PICK rest : Joins(items, task.context, rest, Item) /\ Plain(rest)
      BY <2>2, <2>3 DEF Adds
    <3> QED BY <3>1, RestIs, PlainIsFresh
  <2>4. Repeats(items, AllSaved)
    BY <1>1, <2>2, KeepsRepeats
  <2>5. Save(items, task.total, task.step - 1, FALSE, task.acks)
    BY <1>4, <2>1
  <2>6. IF IsPrefix(task.context, items)
          THEN Fresh(NewItems(items), AllSaved, Unanswered(Latest.context), produced)
          ELSE Repeats(items, AllSaved) /\ Clean(items)
    BY <2>2, <2>3, <2>4
  <2> QED BY <1>1, <1>2, <1>4, <2>5, <2>6, SaveTraced
<1> QED BY <1>3, <1>4, PromptIs

LEMMA AnswerTraced ==
  ASSUME Traced, [Next]_vars, SampleAnswer
  PROVE  Traced'
<1>1. pc = "sample" /\ pc' = "complete" /\ StoreIdle /\ UNCHANGED <<tool, ran, produced>>
      /\ history \in Seq(Item) /\ Turn \in Turns
  BY AtTask DEF SampleAnswer, At, Traced, Sound, Ordered, TypeOK, LoopType
<1>2. RunsAreSound'
  BY <1>1, GivesUp, RunsStay
<1>3. PICK items : items = Append(history, Answer(Turn))
  OBVIOUS
<1>4. Joins(items, history, <<Answer(Turn)>>, Item)
  BY <1>1, <1>3, AppendsItem, ItemsAre
<1>5. Plain(<<Answer(Turn)>>)
  BY DEF Plain, IsCall, IsAnswer, Answer
<1>6. NewItems(items) = <<Answer(Turn)>> /\ IsPrefix(task.context, items)
  BY <1>1, <1>4, AtTask, RestIs
<1>7. Plain(NewItems(items))
  BY <1>5, <1>6
<1>8. Fresh(NewItems(items), AllSaved, Unanswered(Latest.context), produced)
  BY <1>7, PlainIsFresh
<1>9. Save(items, task.total + task.wasted + 1, task.step, TRUE, {})
  BY <1>3 DEF SampleAnswer
<1> QED BY <1>1, <1>2, <1>6, <1>8, <1>9, SaveTraced

LEMMA CallsTraced ==
  ASSUME Traced, [Next]_vars, NEW S \in Responses, SampleCalls(S)
  PROVE  Traced'
<1>1. /\ pc = "sample" /\ pc' = "announce" /\ StoreIdle /\ UNCHANGED <<tool, ran, produced>>
      /\ S \cap task.known = {} /\ S \cap Recorded = {}
      /\ Commit(CallRecord(S)) /\ task' = CallTask(S)
  BY SampleCallsIs DEF At
<1>2. S \in SUBSET Calls /\ IsFiniteSet(S) /\ S # {}
  BY ResponsesAre
<1>3. history \in Seq(Item) /\ task \in TaskType /\ WellFormed(history)
  BY <1>1, AtTask
<1>4. /\ Clean(history) /\ CallsIn(history) \cup Answered(history) \subseteq task.known
      /\ history # <<>>
  BY <1>1 DEF Traced, Sound, TaskIsSound, HistoryIsSound, Loop
<1>5. PICK items : items = history \o CallItems(S)
  OBVIOUS
<1>6. Joins(items, history, EachOf("call", S), Item)
  BY <1>2, <1>3, <1>5, EachType DEF Joins, CallItems
<1>7. Unanswered(items) = S
  <2>1. S \cap CallsIn(history) = {} /\ S \cap Answered(history) = {} /\ Unanswered(history) = {}
    BY <1>1, <1>4 DEF Clean
  <2> QED BY <1>2, <1>3, <1>4, <1>6, <2>1, CallsJoin
<1>8. history' = items
  BY <1>1, <1>3, <1>5 DEF CallTask, TaskType, history
<1>9. \A c \in S : Call(c) \notin AllSaved
  BY <1>1, <1>2 DEF Recorded, AllSaved
<1>10. RunsAreSound'
  <2>1. AllSaved \subseteq AllSaved'
    BY SavedCallsStep
  <2>2. ASSUME NEW c \in Calls
        PROVE  /\ ran'[c] \in {0, 1}
               /\ ran'[c] = 1 => Call(c) \in AllSaved'
               /\ tool'[c] \in {"running", "done", "saved"} => ran'[c] = 1
               /\ tool'[c] \in {"done", "saved"} => c \in produced'
               /\ pc' = "announce" /\ c \in Unanswered(history') => ran'[c] = 0
               /\ pc' = "tools" /\ tool'[c] = "queued" => ran'[c] = 0
    BY <1>1, <1>7, <1>8, <1>9, <2>1 DEF Traced, RunsAreSound
  <2> QED BY <2>2 DEF RunsAreSound
<1>11. PICK r : r = CallRecord(S)
  OBVIOUS
<1>12. r.replace = FALSE /\ r.items = EachOf("call", S)
  BY <1>11 DEF CallRecord, Checkpoint, CallItems
<1>13. Brings("call", S, r.items)
  BY <1>2, <1>12, EachBrings
<1>14. Fresh(r.items, AllSaved, Unanswered(Latest.context), produced)
  BY <1>2, <1>9, <1>13 DEF Fresh
<1>15. Tells(r, AllSaved, Unanswered(Latest.context), produced)
  BY <1>12, <1>14 DEF Tells
<1> QED BY <1>1, <1>10, <1>11, <1>15, CommitTraced

LEMMA CollectTraced ==
  ASSUME Traced, [Next]_vars, NEW c \in Calls, Collect(c)
  PROVE  Traced'
<1>1. pc = "tools" /\ pc' = pc /\ pc \in Loop /\ StoreIdle /\ tool[c] = "done"
      /\ tool' = [tool EXCEPT ![c] = "saved"] /\ UNCHANGED <<ran, produced>>
  BY DEF Collect, At, Loop
<1>2. /\ history \in Seq(Item) /\ task \in TaskType /\ WellFormed(history) /\ history = task.context
      /\ tool \in [Calls -> {"none", "queued", "running", "done", "saved"}]
  BY <1>1, AtTask
<1>3. c \in Unanswered(history)
  BY <1>1 DEF Traced, Sound, TaskIsSound, ToolsInOrder
<1>4. PICK items : items = Append(history, Out(c))
  OBVIOUS
<1>5. Joins(items, history, <<Out(c)>>, Item)
  BY <1>2, <1>4, ItemsAre, AppendsItem
<1>6. Unanswered(items) = Unanswered(history) \ {c}
  BY <1>2, <1>3, <1>5, OutJoins
<1>7. NewItems(items) = <<Out(c)>> /\ IsPrefix(task.context, items)
  BY <1>2, <1>5, RestIs
<1>8. Latest.context = history
  BY <1>1, <1>2, AtItsFile DEF Traced
<1>9. Fresh(NewItems(items), AllSaved, Unanswered(Latest.context), produced)
  <2>1. Brings("out", {c}, NewItems(items))
    <3>1. PICK one : one = NewItems(items)
      OBVIOUS
    <3>2. DOMAIN one = {1} /\ one[1] = <<"out", c>>
      BY <1>7, <3>1 DEF Out
    <3> QED BY <3>1, <3>2 DEF Brings, Range
  <2>2. c \in produced
    BY <1>1 DEF Traced, RunsAreSound
  <2> QED BY <1>3, <1>8, <2>1, <2>2 DEF Fresh
<1>10. Save(items, task.total, task.step, FALSE, {})
  BY <1>4 DEF Collect
<1>11. history' = items
  <2>1. task' = SavedTask(items, task.total, FALSE)
    BY <1>10, SaveIs
  <2> QED BY <1>2, <2>1 DEF SavedTask, TaskType, history
<1>12. RunsAreSound'
  <2>1. AllSaved \subseteq AllSaved'
    BY SavedCallsStep
  <2>2. \A d \in Calls : tool'[d] = IF d = c THEN "saved" ELSE tool[d]
    BY <1>1, <1>2
  <2>3. ASSUME NEW d \in Calls
        PROVE  /\ ran'[d] \in {0, 1}
               /\ ran'[d] = 1 => Call(d) \in AllSaved'
               /\ tool'[d] \in {"running", "done", "saved"} => ran'[d] = 1
               /\ tool'[d] \in {"done", "saved"} => d \in produced'
               /\ pc' = "announce" /\ d \in Unanswered(history') => ran'[d] = 0
               /\ pc' = "tools" /\ tool'[d] = "queued" => ran'[d] = 0
    BY <1>1, <2>1, <2>2 DEF Traced, RunsAreSound
  <2> QED BY <2>3 DEF RunsAreSound
<1>13. Unanswered(history') \subseteq Unanswered(Latest.context)
  BY <1>6, <1>8, <1>11
<1> QED BY <1>1, <1>7, <1>9, <1>10, <1>12, <1>13, SaveTraced

(* The tools themselves, and steps that touch none of this                 *)
LEMMA SteadyTraced ==
  ASSUME Traced, [Next]_vars, UNCHANGED <<rolloutVars, pc, task>>, produced \subseteq produced',
         RunsAreSound'
  PROVE  Traced'
<1>1. Sound' /\ SavedCalls'
  BY SoundStep, SavedCallsStep DEF Traced
<1>2. Latest' = Latest /\ AllSaved' = AllSaved /\ commit' = commit
  <2>1. StandsStill /\ commit' = commit
    BY QuietTask DEF Traced, Sound, OnlyWrites, rolloutVars
  <2> QED BY <2>1 DEF StandsStill, AllSaved, Saved
<1>3. CommitIsFresh'
  <2>1. Committing' => Committing
    BY <1>2 DEF Committing
  <2>2. \A items, saved, open :
          Fresh(items, saved, open, produced) => Fresh(items, saved, open, produced')
    BY DEF Fresh
  <2>3. Committing => Tells(commit.record, AllSaved, Unanswered(Latest.context), produced')
    BY <2>2 DEF Traced, CommitIsFresh, Tells
  <2>4. Committing' =>
          Tells(commit'.record, AllSaved', Unanswered(Latest'.context), produced')
    BY <1>2, <2>1, <2>3
  <2> QED BY <2>4 DEF CommitIsFresh, Tells
<1>4. OpenInFile'
  <2>1. pc' = "tools" => Unanswered(history') \subseteq Unanswered(Latest'.context)
    BY <1>2 DEF Traced, OpenInFile, history
  <2> QED BY <2>1 DEF OpenInFile
<1> QED BY <1>1, <1>3, <1>4 DEF Traced

LEMMA AnnounceTraced ==
  ASSUME Traced, [Next]_vars, Announce
  PROVE  Traced'
<1>1. /\ pc = "announce" /\ pc' \in {"announce", "tools"} /\ ~Committing' /\ history' = history
      /\ UNCHANGED <<ran, produced>>
  BY DEF Announce, At, StoreIdle, rolloutVars, Committing, Idle, history
<1>2. \A d \in Calls : /\ tool[d] \in {"none", "queued"}
                       /\ tool[d] = "queued" => d \in Unanswered(history)
  BY <1>1 DEF Traced, Sound, TaskIsSound, ToolsInOrder
<1>3. \A d \in Calls : tool'[d] \in {tool[d], "queued"}
  BY AtTask DEF Announce
<1>4. pc' = "tools" => tool' = tool
  BY <1>1 DEF Announce
<1>5. AllSaved \subseteq AllSaved'
  BY SavedCallsStep
<1>6. ASSUME NEW d \in Calls
      PROVE  /\ ran'[d] \in {0, 1}
             /\ ran'[d] = 1 => Call(d) \in AllSaved'
             /\ tool'[d] \in {"running", "done", "saved"} => ran'[d] = 1
             /\ tool'[d] \in {"done", "saved"} => d \in produced'
             /\ pc' = "announce" /\ d \in Unanswered(history') => ran'[d] = 0
             /\ pc' = "tools" /\ tool'[d] = "queued" => ran'[d] = 0
  BY <1>1, <1>2, <1>3, <1>4, <1>5 DEF Traced, RunsAreSound
<1>7. RunsAreSound'
  BY <1>6 DEF RunsAreSound
<1> QED BY <1>1, <1>7, QuietTraced

LEMMA DispatchTraced ==
  ASSUME Traced, [Next]_vars, NEW c \in Calls, Dispatch(c)
  PROVE  /\ Traced'
         /\ Call(c) \in AllSaved /\ Out(c) \notin AllSaved /\ Aborted(c) \notin AllSaved
         /\ ran[c] = 0 /\ ran' = [ran EXCEPT ![c] = 1] /\ UNCHANGED produced
<1>1. /\ pc = "tools" /\ tool[c] = "queued" /\ tool' = [tool EXCEPT ![c] = "running"]
      /\ ran' = [ran EXCEPT ![c] = ran[c] + 1] /\ UNCHANGED <<rolloutVars, pc, task, produced>>
  BY DEF Dispatch
<1>2. ran[c] = 0
  BY <1>1 DEF Traced, RunsAreSound
<1>3. Call(c) \in AllSaved /\ Out(c) \notin AllSaved /\ Aborted(c) \notin AllSaved
  <2>1. c \in Unanswered(history)
    BY <1>1 DEF Traced, Sound, TaskIsSound, ToolsInOrder
  <2>2. c \in Unanswered(Latest.context)
    BY <1>1, <2>1 DEF Traced, OpenInFile
  <2>3. c \in CallsIn(Latest.context)
    BY <2>2 DEF Unanswered
  <2>4. Latest.context \in Seq(Item)
    BY LatestType DEF StateOf, Traced, Sound, Ordered, TypeOK
  <2>5. Call(c) \in AllSaved
    BY <2>3, <2>4, RepeatsIs DEF Traced, SavedCalls, CallsAreSaved
  <2> QED BY <2>2, <2>5 DEF Traced, SavedCalls, CallsAreSaved
<1>4. ran' = [ran EXCEPT ![c] = 1]
  BY <1>1, <1>2, SMT
<1>5. RunsAreSound'
  <2>1. AllSaved \subseteq AllSaved'
    BY SavedCallsStep
  <2>2. \A d \in Calls : /\ tool'[d] = IF d = c THEN "running" ELSE tool[d]
                         /\ ran'[d] = IF d = c THEN 1 ELSE ran[d]
    BY <1>1, <1>4, AtTask
  <2>3. ASSUME NEW d \in Calls
        PROVE  /\ ran'[d] \in {0, 1}
               /\ ran'[d] = 1 => Call(d) \in AllSaved'
               /\ tool'[d] \in {"running", "done", "saved"} => ran'[d] = 1
               /\ tool'[d] \in {"done", "saved"} => d \in produced'
               /\ pc' = "announce" /\ d \in Unanswered(history') => ran'[d] = 0
               /\ pc' = "tools" /\ tool'[d] = "queued" => ran'[d] = 0
    BY <1>1, <1>3, <2>1, <2>2 DEF Traced, RunsAreSound
  <2> QED BY <2>3 DEF RunsAreSound
<1> QED BY <1>1, <1>2, <1>3, <1>4, <1>5, SteadyTraced

LEMMA ReturnTraced ==
  ASSUME Traced, [Next]_vars, NEW c \in Calls, Return(c)
  PROVE  /\ Traced'
         /\ ran[c] = 1 /\ UNCHANGED ran /\ produced' = produced \cup {c}
<1>1. /\ tool[c] = "running" /\ tool' = [tool EXCEPT ![c] = "done"]
      /\ UNCHANGED <<rolloutVars, pc, task, ran>> /\ produced' = produced \cup {c}
  BY DEF Return
<1>2. ran[c] = 1 /\ history' = history
  BY <1>1 DEF Traced, RunsAreSound, history
<1>3. RunsAreSound'
  <2>1. AllSaved \subseteq AllSaved'
    BY SavedCallsStep
  <2>2. \A d \in Calls : tool'[d] = IF d = c THEN "done" ELSE tool[d]
    BY <1>1, AtTask
  <2>3. ASSUME NEW d \in Calls
        PROVE  /\ ran'[d] \in {0, 1}
               /\ ran'[d] = 1 => Call(d) \in AllSaved'
               /\ tool'[d] \in {"running", "done", "saved"} => ran'[d] = 1
               /\ tool'[d] \in {"done", "saved"} => d \in produced'
               /\ pc' = "announce" /\ d \in Unanswered(history') => ran'[d] = 0
               /\ pc' = "tools" /\ tool'[d] = "queued" => ran'[d] = 0
    BY <1>1, <1>2, <2>1, <2>2 DEF Traced, RunsAreSound
  <2> QED BY <2>3 DEF RunsAreSound
<1> QED BY <1>1, <1>2, <1>3, SteadyTraced

LEMMA IdleTraced ==
  ASSUME Traced, [Next]_vars, Cancel \/ UNCHANGED vars
  PROVE  Traced'
<1>1. UNCHANGED <<rolloutVars, pc, task, tool, ran, produced>>
  BY DEF Cancel, vars, volatile
<1>2. history' = history
  BY <1>1 DEF history
<1>3. RunsAreSound'
  BY <1>1, <1>2, GivesUp, RunsStay
<1> QED BY <1>1, <1>3, SteadyTraced
-----------------------------------------------------------------------------
LEMMA NothingSaved == Init => AllSaved = {}
<1> SUFFICES ASSUME Init PROVE AllSaved = {}
  OBVIOUS
<1>1. file = <<>> /\ trailing = <<>>
  BY DEF Init, RolloutInit
<1>2. Records = <<>>
  BY <1>1, ConcatEmptySeq, EmptySeq DEF Records, Whole, Torn
<1>3. \A x : x \notin AllSaved
  BY <1>2 DEF AllSaved, Saved, Range
<1> QED BY <1>3

LEMMA TracedInit == Init => Traced
<1> SUFFICES ASSUME Init PROVE Traced
  OBVIOUS
<1>1. Sound
  BY SoundInit
<1>2. /\ file = <<>> /\ trailing = <<>> /\ commit = Idle /\ pc = "off" /\ tool = NoTools
      /\ ran = [c \in Calls |-> 0]
  BY DEF Init, RolloutInit
<1>3. Records = <<>>
  BY <1>2, ConcatEmptySeq, EmptySeq DEF Records, Whole, Torn
<1>4. AllSaved = {}
  BY NothingSaved
<1>5. SavedCalls
  <2>1. NoTurn(<<>>) \in StateOf(Item)
    BY EmptySeq, NoTurnType
  <2>2. PICK S : S = Latest
    OBVIOUS
  <2>3. S.context = <<>> /\ S.committed = <<>>
    BY <1>3, <2>1, <2>2, ReadsNothing DEF Latest, NoTurn
  <2>4. <<>> \in Seq(Item) /\ Plain(<<>>)
    BY EmptySeq DEF Plain
  <2>5. Repeats(<<>>, {}) /\ Unanswered(<<>>) = {}
    BY <2>4, PlainItems DEF Repeats, Plain
  <2> QED BY <1>4, <2>2, <2>3, <2>5 DEF SavedCalls, CallsAreSaved
<1>6. CommitIsFresh
  BY <1>2 DEF CommitIsFresh, Committing, Idle
<1>7. RunsAreSound /\ OpenInFile
  BY <1>2 DEF RunsAreSound, OpenInFile, NoTools
<1> QED BY <1>1, <1>5, <1>6, <1>7 DEF Traced

LEMMA TracedStep == Traced /\ [Next]_vars => Traced'
<1> SUFFICES ASSUME Traced, [Next]_vars PROVE Traced'
  OBVIOUS
<1>1. CASE TaskStep
  <2>1. CASE (\E t \in Turns : Attach(t) \/ TakeUp(t) \/ ActionRecovers(t))
             \/ StartTurn \/ Load \/ TaskEnds
    BY <2>1, EdgesTraced, QuietSteps
  <2>2. CASE Reconcile \/ Repair \/ Begin \/ Top \/ CompactStart \/ CompactDone
             \/ CompactFails \/ BeginFails \/ Prompt
    BY <2>2, QuietSteps, RepairTraced, PromptTraced
  <2>3. CASE SampleAnswer \/ (\E S \in Responses : SampleCalls(S)) \/ SampleDuplicate
             \/ SampleRetry \/ SampleFails \/ SampleCancelled
    BY <2>3, QuietSteps, AnswerTraced, CallsTraced
  <2>4. CASE Announce \/ (\E c \in Calls : Dispatch(c) \/ Collect(c) \/ FinishStep(c))
             \/ Complete \/ FinishPending \/ EndTurn
    BY <2>4, QuietSteps, EdgesTraced, AnnounceTraced, DispatchTraced, CollectTraced
  <2> QED BY <1>1, <2>1, <2>2, <2>3, <2>4 DEF TaskStep
<1>2. CASE UNCHANGED vars
  BY <1>2, IdleTraced
<1>3. CASE ~TaskStep /\ Next
  BY <1>3, QuietSteps, EdgesTraced, ReturnTraced, IdleTraced DEF Next
<1> QED BY <1>1, <1>2, <1>3

(* The records say of every call what the task and its tools did: a call   *)
(* that ran is durable, one without an output in the context has none in   *)
(* any record, and a record on its way brings new calls, or outputs of     *)
(* open ones that their tools returned.                                    *)
THEOREM TurnTraced == Spec => []Traced
  BY TracedInit, TracedStep, PTL DEF Spec
-----------------------------------------------------------------------------
(* The calls as the records tell them                                      *)

Answers == [c \in Calls |-> DurableAnswer(c)]
AnswerIn(saved, c) ==
  IF Out(c) \in saved THEN "result" ELSE IF Aborted(c) \in saved THEN "aborted" ELSE "none"

LEMMA AsRecorded ==
  /\ Recorded = {c \in Calls : Call(c) \in AllSaved}
  /\ Answers = [c \in Calls |-> AnswerIn(AllSaved, c)]
BY DEF Recorded, Answers, DurableAnswer, AnswerIn, AllSaved

LEMMA AsRecordedNext ==
  /\ Recorded' = {c \in Calls : Call(c) \in AllSaved'}
  /\ Answers' = [c \in Calls |-> AnswerIn(AllSaved', c)]
BY DEF Recorded, Answers, DurableAnswer, AnswerIn, AllSaved

(* A record changes what is told of the calls as one step of the contract. *)
LEMMA RecordRefines ==
  ASSUME Traced, UNCHANGED <<ran, produced>>, Committing,
         AllSaved' = AllSaved \cup Brought(commit.record)
  PROVE  [ToolCalls!Next]_(ToolCalls!vars)
<1>1. PICK r \in RecordOf(Item) : r = commit.record
  BY CommitTypes DEF Traced, Sound, Ordered, TypeOK, Committing, Idle
<1>2. PICK saved, next : saved = AllSaved /\ next = AllSaved'
  OBVIOUS
<1>3. next = saved \cup Brought(r)
  BY <1>1, <1>2
<1>4. /\ Recorded = {c \in Calls : Call(c) \in saved} /\ Recorded' = {c \in Calls : Call(c) \in next}
      /\ Answers = [c \in Calls |-> AnswerIn(saved, c)]
      /\ Answers' = [c \in Calls |-> AnswerIn(next, c)]
  BY <1>2, AsRecorded, AsRecordedNext
<1>5. CallsAreSaved(saved, Latest)
  BY <1>2 DEF Traced, SavedCalls
<1>6. ASSUME \A c \in Calls : /\ Call(c) \in next <=> Call(c) \in saved
                              /\ Out(c) \in next <=> Out(c) \in saved
                              /\ Aborted(c) \in next <=> Aborted(c) \in saved
      PROVE  UNCHANGED ToolCalls!vars
  <2>1. Recorded' = Recorded
    BY <1>4, <1>6
  <2>2. \A c \in Calls : AnswerIn(next, c) = AnswerIn(saved, c)
    BY <1>6 DEF AnswerIn
  <2>3. Answers' = Answers
    BY <1>4, <2>2
  <2> QED BY <2>1, <2>3 DEF ToolCalls!vars, Answers
<1>7. CASE r.kind # "checkpoint"
  <2>1. next = saved
    BY <1>3, <1>7 DEF Brought
  <2> QED BY <1>6, <2>1
<1>8. CASE r.kind = "checkpoint"
  <2>1. PICK items, open, made : /\ items \in Seq(Item) /\ items = r.items
                               /\ open = Unanswered(Latest.context) /\ made = produced
    <3>1. r \in CheckpointRecord(Item)
      BY <1>8, KindsAre
    <3>2. r.items \in Seq(Item)
      BY <3>1 DEF CheckpointRecord
    <3> QED BY <3>2
  <2>1a. items \in Seq(Item)
    BY <2>1
  <2>2. next = saved \cup Range(items)
    BY <1>3, <1>8, <2>1 DEF Brought
  <2>3. IF r.replace THEN Repeats(items, saved) ELSE Fresh(items, saved, open, made)
    BY <1>1, <1>2, <1>8, <2>1 DEF Traced, CommitIsFresh, Tells
  <2>4. open \in SUBSET Calls
    BY <2>1 DEF Unanswered, CallsIn, Of
  <2>5. \A c \in open : Call(c) \in saved /\ Out(c) \notin saved /\ Aborted(c) \notin saved
    <3>1. Latest \in StateOf(Item)
      BY LatestType DEF Traced, Sound, Ordered, TypeOK
    <3>2. \A c \in CallsIn(Latest.context) : Call(c) \in saved
      BY <1>5, <3>1, RepeatsIs DEF StateOf, CallsAreSaved
    <3> QED BY <1>5, <2>1, <3>2 DEF CallsAreSaved, Unanswered
  <2>5a. CASE Repeats(items, saved)
    BY <1>6, <2>1a, <2>2, <2>5a, RepeatsIs
  <2>6. CASE Plain(items)
    BY <1>6, <2>1a, <2>2, <2>6, PlainBringsNone
  <2>7. ASSUME NEW S \in SUBSET Calls, S # {}, Brings("call", S, items),
               \A c \in S : Call(c) \notin saved
        PROVE  ToolCalls!Record(S)
    <3>1. \A c \in Calls : /\ Call(c) \in Range(items) <=> c \in S
                           /\ Out(c) \notin Range(items) /\ Aborted(c) \notin Range(items)
      BY <2>1a, <2>7, BringsIs
    <3>2. \A c \in Calls : AnswerIn(next, c) = AnswerIn(saved, c)
      BY <2>2, <3>1 DEF AnswerIn
    <3>3. Answers' = Answers
      BY <1>4, <3>2
    <3>4. Recorded' = Recorded \cup S /\ S \cap Recorded = {}
      BY <1>4, <2>2, <2>7, <3>1
    <3> QED BY <2>7, <3>3, <3>4 DEF ToolCalls!Record, Answers
  <2>8. ASSUME NEW S \in SUBSET open, S # {}, Brings("aborted", S, items)
        PROVE  ToolCalls!Abort(S)
    <3>1. S \in SUBSET Calls
      BY <2>4
    <3>2. \A c \in Calls : /\ Aborted(c) \in Range(items) <=> c \in S
                           /\ Call(c) \notin Range(items) /\ Out(c) \notin Range(items)
      BY <2>1a, <2>8, <3>1, BringsIs
    <3>3. Recorded' = Recorded
      BY <1>4, <2>2, <3>2
    <3>4. \A c \in Calls : AnswerIn(next, c) = IF c \in S THEN "aborted" ELSE AnswerIn(saved, c)
      BY <2>2, <2>5, <3>2 DEF AnswerIn
    <3>5. Answers' = [c \in Calls |-> IF c \in S THEN "aborted" ELSE Answers[c]]
      BY <1>4, <3>4
    <3>6. S \subseteq {c \in Recorded : Answers[c] = "none"}
      BY <1>4, <2>5, <3>1 DEF AnswerIn
    <3> QED BY <2>8, <3>3, <3>5, <3>6 DEF ToolCalls!Abort, Answers
  <2>9. ASSUME NEW c \in open \cap made, Brings("out", {c}, items)
        PROVE  ToolCalls!Answer(c)
    <3>1. c \in Calls /\ {c} \in SUBSET Calls /\ c \in produced
      BY <2>1, <2>4
    <3>2. \A d \in Calls : /\ Out(d) \in Range(items) <=> d = c
                           /\ Call(d) \notin Range(items) /\ Aborted(d) \notin Range(items)
      BY <2>1a, <2>9, <3>1, BringsIs
    <3>3. Recorded' = Recorded
      BY <1>4, <2>2, <3>2
    <3>4. \A d \in Calls : AnswerIn(next, d) = IF d = c THEN "result" ELSE AnswerIn(saved, d)
      BY <2>2, <3>2 DEF AnswerIn
    <3>5. Answers' = [Answers EXCEPT ![c] = "result"]
      BY <1>4, <3>4
    <3>6. Answers[c] = "none"
      BY <1>4, <2>5, <3>1 DEF AnswerIn
    <3> QED BY <3>1, <3>3, <3>5, <3>6 DEF ToolCalls!Answer, Answers
  <2>10. CASE \E S \in SUBSET Calls :
                S # {} /\ Brings("call", S, items) /\ \A c \in S : Call(c) \notin saved
    BY <2>7, <2>10 DEF ToolCalls!Next
  <2>11. CASE \E S \in SUBSET open : S # {} /\ Brings("aborted", S, items)
    BY <2>4, <2>8, <2>11 DEF ToolCalls!Next
  <2>12. CASE \E c \in open \cap made : Brings("out", {c}, items)
    BY <2>4, <2>9, <2>12 DEF ToolCalls!Next
  <2> QED BY <2>3, <2>5a, <2>6, <2>10, <2>11, <2>12 DEF Fresh
<1> QED BY <1>7, <1>8

LEMMA OthersLeaveTools ==
  ASSUME [Next]_vars, \A c \in Calls : ~Dispatch(c) /\ ~Return(c)
  PROVE  UNCHANGED <<ran, produced>>
<1>1. CASE TaskStep
  BY <1>1 DEF TaskStep, Attach, TakeUp, ActionRecovers, StartTurn, Load, Reconcile, Repair, Begin,
       BeginFails, Top, CompactStart, CompactDone, CompactFails, Prompt, SampleAnswer, SampleCalls,
       SampleDuplicate, SampleRetry, SampleFails, SampleCancelled, Announce, Collect, FinishStep,
       Complete, FinishPending, EndTurn, TaskEnds
<1>2. CASE UNCHANGED vars
  BY <1>2 DEF vars
<1>3. CASE ~TaskStep /\ Next
  BY <1>3 DEF Next, CommitStep, CommitFails, Cancel, Send, CancelRow, Crash
<1> QED BY <1>1, <1>2, <1>3

LEMMA ToolCallsInit == Init => ToolCalls!Init
<1> SUFFICES ASSUME Init PROVE ToolCalls!Init
  OBVIOUS
<1>1. AllSaved = {} /\ ran = [c \in Calls |-> 0] /\ produced = {}
  BY NothingSaved DEF Init
<1>2. Recorded = {}
  BY <1>1, AsRecorded
<1>3. \A c \in Calls : AnswerIn({}, c) = "none"
  BY DEF AnswerIn
<1>4. Answers = [c \in Calls |-> "none"]
  BY <1>1, <1>3, AsRecorded
<1> QED BY <1>1, <1>2, <1>4 DEF ToolCalls!Init, Answers

LEMMA ToolCallsStep == Traced /\ [Next]_vars => [ToolCalls!Next]_(ToolCalls!vars)
<1> SUFFICES ASSUME Traced, [Next]_vars PROVE [ToolCalls!Next]_(ToolCalls!vars)
  OBVIOUS
<1>1. ASSUME AllSaved' = AllSaved PROVE Recorded' = Recorded /\ Answers' = Answers
  BY <1>1, AsRecorded, AsRecordedNext
<1>2. ASSUME UNCHANGED rolloutVars PROVE Recorded' = Recorded /\ Answers' = Answers
  <2>1. Records' = Records
    BY <1>2 DEF rolloutVars, Records, Whole, Torn
  <2>2. AllSaved' = AllSaved
    BY <2>1 DEF AllSaved, Saved
  <2> QED BY <1>1, <2>2
<1>3. ASSUME NEW c \in Calls, Dispatch(c) PROVE ToolCalls!Dispatch(c)
  <2>1. /\ Call(c) \in AllSaved /\ Out(c) \notin AllSaved /\ Aborted(c) \notin AllSaved
        /\ ran[c] = 0 /\ ran' = [ran EXCEPT ![c] = 1] /\ UNCHANGED produced
    BY <1>3, DispatchTraced
  <2>2. Recorded' = Recorded /\ Answers' = Answers
    BY <1>2, <1>3 DEF Dispatch
  <2>3. c \in Recorded /\ Answers[c] = "none"
    BY <2>1, AsRecorded DEF AnswerIn
  <2> QED BY <2>1, <2>2, <2>3 DEF ToolCalls!Dispatch, Answers
<1>4. ASSUME NEW c \in Calls, Return(c) PROVE ToolCalls!Return(c)
  <2>1. ran[c] = 1 /\ UNCHANGED ran /\ produced' = produced \cup {c}
    BY <1>4, ReturnTraced
  <2>2. Recorded' = Recorded /\ Answers' = Answers
    BY <1>2, <1>4 DEF Return
  <2> QED BY <2>1, <2>2 DEF ToolCalls!Return, Answers
<1>5. CASE \E c \in Calls : Dispatch(c) \/ Return(c)
  BY <1>3, <1>4, <1>5 DEF ToolCalls!Next
<1>6. CASE \A c \in Calls : ~Dispatch(c) /\ ~Return(c)
  <2>1. UNCHANGED <<ran, produced>>
    BY <1>6, OthersLeaveTools
  <2>2. CASE AllSaved' = AllSaved
    BY <1>1, <2>1, <2>2 DEF ToolCalls!vars, Answers
  <2>3. CASE Joined /\ AllSaved' = AllSaved \cup Brought(commit.record)
    <3>1. Committing
      BY <2>3 DEF Joined, Adding
    <3> QED BY <2>1, <2>3, <3>1, RecordRefines
  <2> QED BY <2>2, <2>3, SavedCallsStep
<1> QED BY <1>5, <1>6

(* What docs/runtime-kernel.md promises of tool calls is kept by the agent *)
(* loop, its rollout and the Store through crashes and failed writes: a    *)
(* call is durable before it is dispatched, dispatched at most once, and   *)
(* answered once, by what its tool returned or by `aborted`.               *)
THEOREM TurnImplementsToolCalls == Spec => ImplementsToolCalls
<1>1. Spec => []Traced /\ Init /\ [][Next]_vars
  BY TurnTraced, PTL DEF Spec
<1> QED BY <1>1, ToolCallsInit, ToolCallsStep, PTL DEF ImplementsToolCalls, ToolCalls!Spec
=============================================================================
