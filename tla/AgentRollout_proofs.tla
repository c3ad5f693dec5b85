------------------------ MODULE AgentRollout_proofs ------------------------
(***************************************************************************)
(* What replaying a rollout computes, for rollouts of every length: the    *)
(* lemmas that TurnLoop_proofs needs about Replay, Read and Project.       *)
(*                                                                         *)
(* The provers cannot instantiate a theorem with an operator parameter, so *)
(* induction is by a smallest counterexample, which is a set (Smallest).   *)
(***************************************************************************)
EXTENDS AgentRollout, FiniteSetTheorems, SequenceTheorems, TLAPS

FewInputs == {S \in SUBSET Inputs : IsFiniteSet(S)}

CreatedRecord == [kind : {"created"}, turn : Turns, acks : {{}}]
CheckpointRecord(Item) ==
  [kind : {"checkpoint"}, turn : Turns, replace : BOOLEAN, items : Seq(Item),
   steps : Int, used : Nat, last : BOOLEAN, acks : FewInputs]
UpdatedRecord ==
  [kind : {"updated"}, turn : Turns, status : {"Running"} \cup TerminalTurn,
   acks : FewInputs]
RecordOf(Item) == CreatedRecord \cup CheckpointRecord(Item) \cup UpdatedRecord

StateOf(Item) ==
  [committed : Seq(Item), turn : Turns \cup {0}, context : Seq(Item), begun : BOOLEAN,
   steps : Int, used : Nat, last : BOOLEAN]

RowsType ==
  [status : [Turns -> {"none"} \cup OpenTurn \cup TerminalTurn], used : [Turns -> Nat],
   last : [Turns -> BOOLEAN], tokens : Nat,
   input : [Inputs -> {"none", "pending", "claimed", "applied"}],
   owner : [Inputs -> Turns \cup {0}]]
-----------------------------------------------------------------------------
(* Induction                                                               *)

LEMMA Smallest ==
  ASSUME NEW T, T \subseteq Nat, T # {}
  PROVE  \E n \in T : \A m \in T : n <= m
<1> DEFINE R == {ss \in Nat \X Nat : ss[1] < ss[2]}
<1>1. IsWellFoundedOn(R, Nat)
  BY NatLessThanWellFounded DEF OpToRel
<1>2. \E n \in T : \A m \in T : ~(<<m, n>> \in R)
  <2> HIDE DEF R
  <2> QED BY <1>1, WFMin
<1>3. PICK n \in T : \A m \in T : ~(<<m, n>> \in R)
  BY <1>2
<1>4. ASSUME NEW m \in T, ~(n <= m) PROVE FALSE
  <2>1. <<m, n>> \in Nat \X Nat /\ m < n
    BY <1>4, SMT
  <2>2. <<m, n>>[1] = m /\ <<m, n>>[2] = n
    OBVIOUS
  <2>3. <<m, n>> \in R
    BY <2>1, <2>2
  <2> HIDE DEF R
  <2> QED BY <1>3, <2>3
<1> QED BY <1>4

(* A set that holds 0 and n whenever it holds n - 1 holds all.             *)
LEMMA UpTo ==
  ASSUME NEW N \in Nat, NEW T, 0 \in T, \A n \in 1..N : n - 1 \in T => n \in T
  PROVE  \A n \in 0..N : n \in T
<1> SUFFICES ASSUME {n \in 0..N : n \notin T} # {} PROVE FALSE
  OBVIOUS
<1> DEFINE Out == {n \in 0..N : n \notin T}
<1>1. PICK n \in Out : \A m \in Out : n <= m
  <2>1. Out \subseteq Nat /\ Out # {}
    OBVIOUS
  <2> HIDE DEF Out
  <2> QED BY <2>1, Smallest
<1>2. n \in 1..N /\ n - 1 \notin Out
  BY <1>1, SMT
<1>3. n - 1 \in T
  BY <1>2, SMT
<1> QED BY <1>1, <1>2, <1>3

(* The states a replay of s goes through: base, then one step a record     *)
IsTable(f, A, B, F, base, s) ==
  /\ f \in [0..Len(s) -> A]
  /\ f[0] = base
  /\ \A n \in 1..Len(s) : f[n] = F[<<f[n - 1], s[n]>>]

(* They exist, ...                                                         *)
LEMMA Continued ==
  ASSUME NEW A, NEW B, NEW F \in [A \X B -> A], NEW base \in A, NEW s \in Seq(B)
  PROVE  \E f : IsTable(f, A, B, F, base, s)
<1> DEFINE T == {n \in 0..Len(s) : \E f \in [0..n -> A] :
                   f[0] = base /\ \A k \in 1..n : f[k] = F[<<f[k - 1], s[k]>>]}
<1>0. Len(s) \in Nat /\ \A k \in 1..Len(s) : s[k] \in B
  BY LenProperties, ElementOfSeq
<1>1. 0 \in T
  <2> DEFINE f == [k \in 0..0 |-> base]
  <2>1. f \in [0..0 -> A] /\ f[0] = base /\ \A k \in 1..0 : f[k] = F[<<f[k - 1], s[k]>>]
    OBVIOUS
  <2>2. 0 \in 0..Len(s)
    BY <1>0
  <2> QED BY <2>1, <2>2
<1>2. ASSUME NEW n \in 1..Len(s), n - 1 \in T PROVE n \in T
  <2>1. PICK f \in [0..(n - 1) -> A] :
           f[0] = base /\ \A k \in 1..(n - 1) : f[k] = F[<<f[k - 1], s[k]>>]
    BY <1>2
  <2> DEFINE next == F[<<f[n - 1], s[n]>>]
             g == [k \in 0..n |-> IF k = n THEN next ELSE f[k]]
  <2>2. next \in A
    BY <1>0, <2>1, SMT
  <2>3. g \in [0..n -> A]
    BY <2>1, <2>2, SMT
  <2>4. g[0] = base
    BY <2>1, SMT
  <2>5. ASSUME NEW k \in 1..n PROVE g[k] = F[<<g[k - 1], s[k]>>]
    <3>1. CASE k = n
      <4>1. g[k] = next
        BY <3>1
      <4>2. k - 1 \in 0..n /\ k - 1 # n
        BY <3>1, SMT
      <4>3. g[k - 1] = f[k - 1]
        BY <4>2
      <4> QED BY <4>1, <4>3, <3>1
    <3>2. CASE k # n
      <4>1. k \in 1..(n - 1) /\ k - 1 \in 0..n /\ k - 1 # n /\ k \in 0..n
        BY <3>2, SMT
      <4>2. g[k] = f[k] /\ g[k - 1] = f[k - 1]
        BY <4>1, <3>2
      <4> QED BY <4>1, <4>2, <2>1
    <3> QED BY <3>1, <3>2
  <2>6. n \in 0..Len(s)
    BY <1>0, SMT
  <2> HIDE DEF g
  <2> QED BY <2>3, <2>4, <2>5, <2>6
<1>3. \A n \in 0..Len(s) : n \in T
  <2> HIDE DEF T
  <2> QED BY <1>0, <1>1, <1>2, UpTo
<1>4. Len(s) \in T
  BY <1>0, <1>3, SMT
<1> QED BY <1>4 DEF IsTable

(* ... and two that begin alike and go on alike are alike.                 *)
Alike(f, g, N) ==
  f[0] = g[0] /\ \A n \in 1..N : f[n - 1] = g[n - 1] => f[n] = g[n]

LEMMA ContinuedAlike ==
  ASSUME NEW N \in Nat, NEW f, NEW g, Alike(f, g, N)
  PROVE  f[N] = g[N]
<1> DEFINE T == {n \in 0..N : f[n] = g[n]}
<1>1. 0 \in T /\ \A n \in 1..N : n - 1 \in T => n \in T
  BY DEF Alike
<1>2. \A n \in 0..N : n \in T
  <2> HIDE DEF T
  <2> QED BY <1>1, UpTo
<1>3. N \in T
  <2> HIDE DEF T
  <2> QED BY <1>2, SMT
<1> QED BY <1>3

LEMMA TableOfNothing ==
  ASSUME NEW A, NEW B, NEW F, NEW base, NEW f, IsTable(f, A, B, F, base, <<>>)
  PROVE  f[Len(<<>>)] = base
BY EmptySeq DEF IsTable

Follows(t, s, r, B) == s \in Seq(B) /\ r \in B /\ t = Append(s, r)

LEMMA TableOfAppend ==
  ASSUME NEW A, NEW B, NEW F, NEW base,
         NEW s, NEW r, NEW t, NEW f, NEW g, Follows(t, s, r, B),
         IsTable(f, A, B, F, base, s), IsTable(g, A, B, F, base, t)
  PROVE  g[Len(t)] = F[<<f[Len(s)], r>>]
<1>1. /\ Len(s) \in Nat /\ Len(t) = Len(s) + 1
      /\ t[Len(s) + 1] = r
      /\ \A n \in 1..Len(s) : t[n] = s[n]
  BY AppendProperties, LenProperties DEF Follows
<1>2. f[0] = g[0]
  BY DEF IsTable
<1>3. ASSUME NEW n \in 1..Len(s), f[n - 1] = g[n - 1] PROVE f[n] = g[n]
  <2>1. n \in 1..(Len(s) + 1)
    BY <1>1, SMT
  <2>2. g[n] = F[<<g[n - 1], t[n]>>]
    BY <1>1, <2>1 DEF IsTable
  <2>3. f[n] = F[<<f[n - 1], s[n]>>]
    BY DEF IsTable
  <2> QED BY <1>1, <1>3, <2>2, <2>3
<1>4. Alike(f, g, Len(s))
  BY <1>2, <1>3 DEF Alike
<1>5. f[Len(s)] = g[Len(s)]
  BY <1>1, <1>4, ContinuedAlike
<1>6. Len(s) + 1 \in 1..(Len(s) + 1) /\ (Len(s) + 1) - 1 = Len(s)
  BY <1>1, SMT
<1>7. g[Len(s) + 1] = F[<<g[(Len(s) + 1) - 1], t[Len(s) + 1]>>]
  BY <1>1, <1>6 DEF IsTable
<1> QED BY <1>1, <1>5, <1>6, <1>7
-----------------------------------------------------------------------------
(* Read                                                                    *)

LEMMA ReadCreated ==
  ASSUME NEW S, NEW r, r.kind = "created"
  PROVE  Read(S, r) =
           [committed |-> S.committed, turn |-> r.turn, context |-> S.committed,
            begun |-> FALSE, steps |-> 0, used |-> 0, last |-> FALSE]
<1>1. Read(S, r) = [NoTurn(S.committed) EXCEPT !.turn = r.turn, !.context = S.committed]
  BY DEF Read
<1> QED BY <1>1 DEF NoTurn

NewContext(S, r) == IF r.replace THEN r.items ELSE S.context \o r.items

LEMMA ReadCheckpoint ==
  ASSUME NEW Item, NEW S \in StateOf(Item), NEW r, r.kind = "checkpoint"
  PROVE  Read(S, r) =
           [committed |-> S.committed, turn |-> S.turn, context |-> NewContext(S, r),
            begun |-> TRUE, steps |-> r.steps, used |-> r.used, last |-> r.last]
<1>1. Read(S, r) = [S EXCEPT !.context = IF r.replace THEN r.items ELSE @ \o r.items,
                             !.begun = TRUE, !.steps = r.steps, !.used = r.used,
                             !.last = r.last]
  BY DEF Read
<1>2. S = [committed |-> S.committed, turn |-> S.turn, context |-> S.context,
           begun |-> S.begun, steps |-> S.steps, used |-> S.used, last |-> S.last]
  BY DEF StateOf
<1> QED BY <1>1, <1>2 DEF NewContext

LEMMA ReadUpdated ==
  ASSUME NEW S, NEW r, r.kind = "updated"
  PROVE  /\ r.status \in {"Completed", "Interrupted"} => Read(S, r) = NoTurn(S.context)
         /\ r.status \in {"Failed", "Cancelled"} => Read(S, r) = NoTurn(S.committed)
         /\ r.status = "Running" => Read(S, r) = S
<1>1. ASSUME r.status \in {"Completed", "Interrupted"} PROVE Read(S, r) = NoTurn(S.context)
  BY <1>1 DEF Read
<1>2. ASSUME r.status \in {"Failed", "Cancelled"} PROVE Read(S, r) = NoTurn(S.committed)
  BY <1>2 DEF Read
<1>3. ASSUME r.status = "Running" PROVE Read(S, r) = S
  BY <1>3 DEF Read
<1> QED BY <1>1, <1>2, <1>3

LEMMA ReadType ==
  ASSUME NEW Item, NEW S \in StateOf(Item), NEW r \in RecordOf(Item)
  PROVE  Read(S, r) \in StateOf(Item)
<1>0. <<>> \in Seq(Item)
  BY EmptySeq
<1>1. S.committed \in Seq(Item) /\ S.context \in Seq(Item) /\ S.turn \in Turns \cup {0}
  BY DEF StateOf
<1>2. ASSUME NEW c \in Seq(Item) PROVE NoTurn(c) \in StateOf(Item)
  BY <1>0, <1>2 DEF StateOf, NoTurn
<1>3. CASE r \in CreatedRecord
  <2>1. r.kind = "created" /\ r.turn \in Turns
    BY <1>3 DEF CreatedRecord
  <2>2. Read(S, r) =
          [committed |-> S.committed, turn |-> r.turn, context |-> S.committed,
           begun |-> FALSE, steps |-> 0, used |-> 0, last |-> FALSE]
    BY <2>1, ReadCreated
  <2> QED BY <1>1, <2>1, <2>2 DEF StateOf
<1>4. CASE r \in CheckpointRecord(Item)
  <2>1. /\ r.kind = "checkpoint" /\ r.items \in Seq(Item) /\ r.steps \in Int
        /\ r.used \in Nat /\ r.last \in BOOLEAN
    BY <1>4 DEF CheckpointRecord
  <2>2. NewContext(S, r) \in Seq(Item)
    BY <1>1, <2>1, ConcatProperties DEF NewContext
  <2>3. Read(S, r) =
          [committed |-> S.committed, turn |-> S.turn, context |-> NewContext(S, r),
           begun |-> TRUE, steps |-> r.steps, used |-> r.used, last |-> r.last]
    BY <2>1, ReadCheckpoint
  <2> QED BY <1>1, <2>1, <2>2, <2>3 DEF StateOf
<1>5. CASE r \in UpdatedRecord
  <2>1. r.kind = "updated" /\ r.status \in {"Running"} \cup TerminalTurn
    BY <1>5 DEF UpdatedRecord
  <2>2. Read(S, r) \in {NoTurn(S.context), NoTurn(S.committed), S}
    BY <2>1, ReadUpdated DEF TerminalTurn
  <2> QED BY <1>1, <1>2, <2>2
<1> QED BY <1>3, <1>4, <1>5 DEF RecordOf

(* The states in which Replay(Read, ...) applies the records of s        *)
ReadStep(Item) == [x \in StateOf(Item) \X RecordOf(Item) |-> Read(x[1], x[2])]

LEMMA ReadStepType ==
  ASSUME NEW Item
  PROVE  ReadStep(Item) \in [StateOf(Item) \X RecordOf(Item) -> StateOf(Item)]
BY ReadType DEF ReadStep

LEMMA ReadTable ==
  ASSUME NEW Item, NEW base \in StateOf(Item), NEW s \in Seq(RecordOf(Item))
  PROVE  \E f : /\ IsTable(f, StateOf(Item), RecordOf(Item), ReadStep(Item), base, s)
                /\ Replay(Read, base, s) = f[Len(s)]
<1> DEFINE A == StateOf(Item)
           B == RecordOf(Item)
           F == ReadStep(Item)
           Good(f) == f = [n \in 0..Len(s) |->
                             IF n = 0 THEN base ELSE Read(f[n - 1], s[n])]
<1>0. Len(s) \in Nat /\ \A k \in 1..Len(s) : s[k] \in B
  BY LenProperties, ElementOfSeq
<1>1. F \in [A \X B -> A] /\ base \in A /\ s \in Seq(B)
  BY ReadStepType
<1>2. PICK f : IsTable(f, A, B, F, base, s)
  <2> HIDE DEF A, B, F, Good
  <2> QED BY <1>1, Continued
<1>3. ASSUME NEW n \in 1..Len(s) PROVE f[n] = Read(f[n - 1], s[n])
  <2> HIDE DEF A, B, F
  <2>1. f[n - 1] \in A /\ s[n] \in B
    BY <1>0, <1>2, SMT DEF IsTable
  <2>2. <<f[n - 1], s[n]>> \in A \X B /\ f[n] = F[<<f[n - 1], s[n]>>]
    BY <1>2, <2>1 DEF IsTable
  <2>3. \A x \in A \X B : F[x] = Read(x[1], x[2])
    BY DEF ReadStep, A, B, F
  <2> QED BY <2>2, <2>3
<1>4. Good(f)
  <2> HIDE DEF A
  <2> QED BY <1>0, <1>2, <1>3, SMT DEF IsTable
<1>5. Good(CHOOSE g : Good(g))
  <2> HIDE DEF Good
  <2> QED BY <1>4
<1>6. PICK g : Good(g) /\ Replay(Read, base, s) = g[Len(s)]
  BY <1>5 DEF Replay
<1>7. Alike(f, g, Len(s))
  <2> HIDE DEF A
  <2> QED BY <1>0, <1>2, <1>3, <1>6, SMT DEF Alike, IsTable
<1>8. f[Len(s)] = g[Len(s)]
  BY <1>0, <1>7, ContinuedAlike
<1> QED BY <1>2, <1>6, <1>8

LEMMA ReadsNothing ==
  ASSUME NEW Item, NEW base \in StateOf(Item)
  PROVE  Replay(Read, base, <<>>) = base
<1>1. <<>> \in Seq(RecordOf(Item))
  BY EmptySeq
<1>2. PICK f : /\ IsTable(f, StateOf(Item), RecordOf(Item), ReadStep(Item), base, <<>>)
               /\ Replay(Read, base, <<>>) = f[Len(<<>>)]
  BY <1>1, ReadTable
<1> QED BY <1>2, TableOfNothing

LEMMA ReadsToType ==
  ASSUME NEW Item, NEW base \in StateOf(Item), NEW s \in Seq(RecordOf(Item))
  PROVE  Replay(Read, base, s) \in StateOf(Item)
<1>1. PICK f : /\ IsTable(f, StateOf(Item), RecordOf(Item), ReadStep(Item), base, s)
               /\ Replay(Read, base, s) = f[Len(s)]
  BY ReadTable
<1>2. Len(s) \in 0..Len(s)
  BY LenProperties, SMT
<1> QED BY <1>1, <1>2 DEF IsTable

LEMMA ReadsOneMore ==
  ASSUME NEW Item, NEW base \in StateOf(Item), NEW s \in Seq(RecordOf(Item)),
         NEW r \in RecordOf(Item)
  PROVE  Replay(Read, base, Append(s, r)) = Read(Replay(Read, base, s), r)
<1> DEFINE A == StateOf(Item)
           B == RecordOf(Item)
           F == ReadStep(Item)
           R(t) == Replay(Read, base, t)
<1>1. \A t \in Seq(B) : \E f : IsTable(f, A, B, F, base, t) /\ R(t) = f[Len(t)]
  BY ReadTable
<1>2. s \in Seq(B) /\ r \in B /\ R(s) \in A
  BY ReadsToType
<1>3. \A x \in A, y \in B : F[<<x, y>>] = Read(x, y)
  BY DEF ReadStep
<1> HIDE DEF A, B, F, R
<1>4. PICK t : t = Append(s, r)
  OBVIOUS
<1>5. Follows(t, s, r, B) /\ t \in Seq(B)
  BY <1>2, <1>4, AppendProperties DEF Follows
<1>6. PICK f : IsTable(f, A, B, F, base, s) /\ R(s) = f[Len(s)]
  BY <1>1, <1>2
<1>7. PICK g : IsTable(g, A, B, F, base, t) /\ R(t) = g[Len(t)]
  BY <1>1, <1>5
<1>8. g[Len(t)] = F[<<f[Len(s)], r>>]
  <2>1. IsTable(f, A, B, F, base, s) /\ IsTable(g, A, B, F, base, t)
    BY <1>6, <1>7
  <2> QED BY <1>5, <2>1, TableOfAppend
<1>9. F[<<R(s), r>>] = Read(R(s), r)
  BY <1>2, <1>3
<1>10. R(Append(s, r)) = Read(R(s), r)
  BY <1>4, <1>6, <1>7, <1>8, <1>9
<1> QED BY <1>10 DEF R
-----------------------------------------------------------------------------
(* Project                                                                 *)

Applied(input, ids) == [i \in Inputs |-> IF i \in ids THEN "applied" ELSE input[i]]
Mine(db, r) == {i \in Inputs \ r.acks : db.input[i] = "claimed" /\ db.owner[i] = r.turn}
TokensAfter(db, r) == db.tokens + Saturating(r.used, db.used[r.turn])

LEMMA RowsAreARecord ==
  ASSUME NEW db \in RowsType
  PROVE  /\ db = [status |-> db.status, used |-> db.used, last |-> db.last,
                  tokens |-> db.tokens, input |-> db.input, owner |-> db.owner]
         /\ db.status \in [Turns -> {"none"} \cup OpenTurn \cup TerminalTurn]
         /\ db.used \in [Turns -> Nat] /\ db.last \in [Turns -> BOOLEAN]
         /\ db.tokens \in Nat
         /\ db.input \in [Inputs -> {"none", "pending", "claimed", "applied"}]
         /\ db.owner \in [Inputs -> Turns \cup {0}]
BY DEF RowsType

LEMMA ProjectCreated ==
  ASSUME NEW db \in RowsType, NEW r, r.kind = "created"
  PROVE  Project(db, r) =
           [status |-> [db.status EXCEPT ![r.turn] = "Queued"], used |-> db.used,
            last |-> db.last, tokens |-> db.tokens, input |-> db.input,
            owner |-> db.owner]
<1>1. Project(db, r) = [db EXCEPT !.status[r.turn] = "Queued"]
  BY DEF Project
<1> QED BY <1>1, RowsAreARecord

LEMMA AcknowledgeIs ==
  ASSUME NEW db \in RowsType, NEW r
  PROVE  Acknowledge(db, r.acks) =
           [status |-> db.status, used |-> db.used, last |-> db.last,
            tokens |-> db.tokens, input |-> Applied(db.input, r.acks),
            owner |-> db.owner]
<1>1. Acknowledge(db, r.acks) = [db EXCEPT !.input = Applied(db.input, r.acks)]
  BY RowsAreARecord DEF Acknowledge, Applied
<1> QED BY <1>1, RowsAreARecord

LEMMA ProjectCheckpoint ==
  ASSUME NEW db \in RowsType, NEW r, r.kind = "checkpoint"
  PROVE  Project(db, r) =
           [status |-> db.status, used |-> [db.used EXCEPT ![r.turn] = r.used],
            last |-> [db.last EXCEPT ![r.turn] = r.last],
            tokens |-> TokensAfter(db, r), input |-> Applied(db.input, r.acks),
            owner |-> db.owner]
<1>1. Project(db, r) = [Acknowledge(db, r.acks) EXCEPT
                          !.tokens = @ + Saturating(r.used, db.used[r.turn]),
                          !.used[r.turn] = r.used, !.last[r.turn] = r.last]
  BY DEF Project
<1> DEFINE ack ==
        [status |-> db.status, used |-> db.used, last |-> db.last,
         tokens |-> db.tokens, input |-> Applied(db.input, r.acks), owner |-> db.owner]
<1>2. Project(db, r) = [ack EXCEPT !.tokens = TokensAfter(db, r),
                                   !.used[r.turn] = r.used, !.last[r.turn] = r.last]
  <2>1. ack.tokens = db.tokens
    OBVIOUS
  <2>2. Acknowledge(db, r.acks) = ack
    BY AcknowledgeIs
  <2>3. Project(db, r) = [ack EXCEPT !.tokens = @ + Saturating(r.used, db.used[r.turn]),
                                     !.used[r.turn] = r.used, !.last[r.turn] = r.last]
    BY <1>1, <2>2
  <2> HIDE DEF ack
  <2> QED BY <2>1, <2>3 DEF TokensAfter
<1> QED BY <1>2

LEMMA ProjectUpdated ==
  ASSUME NEW db \in RowsType, NEW r, r.kind = "updated"
  PROVE  Project(db, r) =
           [status |-> [db.status EXCEPT ![r.turn] = r.status], used |-> db.used,
            last |-> db.last, tokens |-> db.tokens,
            input |-> IF r.status \in TerminalTurn
                        THEN [i \in Inputs |-> IF i \in Mine(db, r) THEN "pending"
                                               ELSE Applied(db.input, r.acks)[i]]
                        ELSE Applied(db.input, r.acks),
            owner |-> IF r.status \in TerminalTurn
                        THEN [i \in Inputs |-> IF i \in Mine(db, r) THEN 0
                                               ELSE db.owner[i]]
                        ELSE db.owner]
<1> DEFINE next == [Acknowledge(db, r.acks) EXCEPT !.status[r.turn] = r.status]
<1>1. Project(db, r) = IF r.status \in TerminalTurn THEN Requeue(next, r.turn) ELSE next
  BY DEF Project
<1> DEFINE ack ==
        [status |-> db.status, used |-> db.used, last |-> db.last,
         tokens |-> db.tokens, input |-> Applied(db.input, r.acks), owner |-> db.owner]
<1>2. next =
        [status |-> [db.status EXCEPT ![r.turn] = r.status], used |-> db.used,
         last |-> db.last, tokens |-> db.tokens, input |-> Applied(db.input, r.acks),
         owner |-> db.owner]
  <2>1. next = [ack EXCEPT !.status[r.turn] = r.status]
    BY AcknowledgeIs
  <2> QED BY <2>1
<1> DEFINE mine == {i \in Inputs : next.input[i] = "claimed" /\ next.owner[i] = r.turn}
<1>3. mine = Mine(db, r)
  BY <1>2 DEF Applied, Mine
<1>4. Requeue(next, r.turn) =
        [next EXCEPT
          !.input = [i \in Inputs |-> IF i \in mine THEN "pending" ELSE @[i]],
          !.owner = [i \in Inputs |-> IF i \in mine THEN 0 ELSE @[i]]]
  BY DEF Requeue
<1>5. Requeue(next, r.turn) =
        [status |-> next.status, used |-> next.used, last |-> next.last,
         tokens |-> next.tokens,
         input |-> [i \in Inputs |-> IF i \in Mine(db, r) THEN "pending" ELSE next.input[i]],
         owner |-> [i \in Inputs |-> IF i \in Mine(db, r) THEN 0 ELSE next.owner[i]]]
  <2>1. next = [status |-> next.status, used |-> next.used, last |-> next.last,
                tokens |-> next.tokens, input |-> next.input, owner |-> next.owner]
    BY <1>2
  <2>2. Requeue(next, r.turn) =
          [next EXCEPT
            !.input = [i \in Inputs |-> IF i \in Mine(db, r) THEN "pending" ELSE next.input[i]],
            !.owner = [i \in Inputs |-> IF i \in Mine(db, r) THEN 0 ELSE next.owner[i]]]
    <3> HIDE DEF next, mine
    <3> QED BY <1>3, <1>4
  <2> HIDE DEF next, mine
  <2> QED BY <2>1, <2>2
<1> HIDE DEF next, mine
<1>6. CASE r.status \in TerminalTurn
  <2>1. /\ next.status = [db.status EXCEPT ![r.turn] = r.status] /\ next.used = db.used
        /\ next.last = db.last /\ next.tokens = db.tokens
        /\ next.input = Applied(db.input, r.acks) /\ next.owner = db.owner
    BY <1>2
  <2>2. Project(db, r) = Requeue(next, r.turn)
    BY <1>1, <1>6
  <2> QED BY <1>5, <1>6, <2>1, <2>2
<1>7. CASE r.status \notin TerminalTurn
  BY <1>1, <1>2, <1>7
<1> QED BY <1>6, <1>7

LEMMA ProjectType ==
  ASSUME NEW Item, NEW db \in RowsType, NEW r \in RecordOf(Item)
  PROVE  Project(db, r) \in RowsType
<1>1. r.acks \subseteq Inputs /\ r.turn \in Turns
  BY DEF RecordOf, CreatedRecord, CheckpointRecord, UpdatedRecord, FewInputs
<1>2. Applied(db.input, r.acks) \in [Inputs -> {"none", "pending", "claimed", "applied"}]
  BY RowsAreARecord DEF Applied
<1>3. CASE r \in CreatedRecord
  <2>1. r.kind = "created"
    BY <1>3 DEF CreatedRecord
  <2>2. [db.status EXCEPT ![r.turn] = "Queued"]
          \in [Turns -> {"none"} \cup OpenTurn \cup TerminalTurn]
    BY RowsAreARecord DEF OpenTurn
  <2> QED BY <2>1, <2>2, ProjectCreated, RowsAreARecord DEF RowsType
<1>4. CASE r \in CheckpointRecord(Item)
  <2>1. r.kind = "checkpoint" /\ r.used \in Nat /\ r.last \in BOOLEAN
    BY <1>4 DEF CheckpointRecord
  <2>2. TokensAfter(db, r) \in Nat
    BY <1>1, <2>1, RowsAreARecord DEF TokensAfter, Saturating
  <2>3. /\ [db.used EXCEPT ![r.turn] = r.used] \in [Turns -> Nat]
        /\ [db.last EXCEPT ![r.turn] = r.last] \in [Turns -> BOOLEAN]
    BY <2>1, RowsAreARecord
  <2> QED BY <1>2, <2>1, <2>2, <2>3, ProjectCheckpoint, RowsAreARecord DEF RowsType
<1>5. CASE r \in UpdatedRecord
  <2>1. r.kind = "updated" /\ r.status \in {"Running"} \cup TerminalTurn
    BY <1>5 DEF UpdatedRecord
  <2>2. [db.status EXCEPT ![r.turn] = r.status]
          \in [Turns -> {"none"} \cup OpenTurn \cup TerminalTurn]
    BY <2>1, RowsAreARecord DEF OpenTurn
  <2>3. /\ [i \in Inputs |-> IF i \in Mine(db, r) THEN "pending"
                             ELSE Applied(db.input, r.acks)[i]]
             \in [Inputs -> {"none", "pending", "claimed", "applied"}]
        /\ [i \in Inputs |-> IF i \in Mine(db, r) THEN 0 ELSE db.owner[i]]
             \in [Inputs -> Turns \cup {0}]
    BY <1>2, RowsAreARecord
  <2> QED BY <1>2, <2>1, <2>2, <2>3, ProjectUpdated, RowsAreARecord DEF RowsType
<1> QED BY <1>3, <1>4, <1>5 DEF RecordOf

(* The states in which Replay(Project, ...) applies the records of s        *)
ProjectStep(Item) == [x \in RowsType \X RecordOf(Item) |-> Project(x[1], x[2])]

LEMMA ProjectStepType ==
  ASSUME NEW Item
  PROVE  ProjectStep(Item) \in [RowsType \X RecordOf(Item) -> RowsType]
BY ProjectType DEF ProjectStep

LEMMA ProjectTable ==
  ASSUME NEW Item, NEW base \in RowsType, NEW s \in Seq(RecordOf(Item))
  PROVE  \E f : /\ IsTable(f, RowsType, RecordOf(Item), ProjectStep(Item), base, s)
                /\ Replay(Project, base, s) = f[Len(s)]
<1> DEFINE A == RowsType
           B == RecordOf(Item)
           F == ProjectStep(Item)
           Good(f) == f = [n \in 0..Len(s) |->
                             IF n = 0 THEN base ELSE Project(f[n - 1], s[n])]
<1>0. Len(s) \in Nat /\ \A k \in 1..Len(s) : s[k] \in B
  BY LenProperties, ElementOfSeq
<1>1. F \in [A \X B -> A] /\ base \in A /\ s \in Seq(B)
  BY ProjectStepType
<1>2. PICK f : IsTable(f, A, B, F, base, s)
  <2> HIDE DEF A, B, F, Good
  <2> QED BY <1>1, Continued
<1>3. ASSUME NEW n \in 1..Len(s) PROVE f[n] = Project(f[n - 1], s[n])
  <2> HIDE DEF A, B, F
  <2>1. f[n - 1] \in A /\ s[n] \in B
    BY <1>0, <1>2, SMT DEF IsTable
  <2>2. <<f[n - 1], s[n]>> \in A \X B /\ f[n] = F[<<f[n - 1], s[n]>>]
    BY <1>2, <2>1 DEF IsTable
  <2>3. \A x \in A \X B : F[x] = Project(x[1], x[2])
    BY DEF ProjectStep, A, B, F
  <2> QED BY <2>2, <2>3
<1>4. Good(f)
  <2> HIDE DEF A
  <2> QED BY <1>0, <1>2, <1>3, SMT DEF IsTable
<1>5. Good(CHOOSE g : Good(g))
  <2> HIDE DEF Good
  <2> QED BY <1>4
<1>6. PICK g : Good(g) /\ Replay(Project, base, s) = g[Len(s)]
  BY <1>5 DEF Replay
<1>7. Alike(f, g, Len(s))
  <2> HIDE DEF A
  <2> QED BY <1>0, <1>2, <1>3, <1>6, SMT DEF Alike, IsTable
<1>8. f[Len(s)] = g[Len(s)]
  BY <1>0, <1>7, ContinuedAlike
<1> QED BY <1>2, <1>6, <1>8

LEMMA ProjectsNothing ==
  ASSUME NEW Item, NEW base \in RowsType
  PROVE  Replay(Project, base, <<>>) = base
<1>1. <<>> \in Seq(RecordOf(Item))
  BY EmptySeq
<1>2. PICK f : /\ IsTable(f, RowsType, RecordOf(Item), ProjectStep(Item), base, <<>>)
               /\ Replay(Project, base, <<>>) = f[Len(<<>>)]
  BY <1>1, ProjectTable
<1> QED BY <1>2, TableOfNothing

LEMMA ProjectsToType ==
  ASSUME NEW Item, NEW base \in RowsType, NEW s \in Seq(RecordOf(Item))
  PROVE  Replay(Project, base, s) \in RowsType
<1>1. PICK f : /\ IsTable(f, RowsType, RecordOf(Item), ProjectStep(Item), base, s)
               /\ Replay(Project, base, s) = f[Len(s)]
  BY ProjectTable
<1>2. Len(s) \in 0..Len(s)
  BY LenProperties, SMT
<1> QED BY <1>1, <1>2 DEF IsTable

LEMMA ProjectsOneMore ==
  ASSUME NEW Item, NEW base \in RowsType, NEW s \in Seq(RecordOf(Item)),
         NEW r \in RecordOf(Item)
  PROVE  Replay(Project, base, Append(s, r)) = Project(Replay(Project, base, s), r)
<1> DEFINE A == RowsType
           B == RecordOf(Item)
           F == ProjectStep(Item)
           R(t) == Replay(Project, base, t)
<1>1. \A t \in Seq(B) : \E f : IsTable(f, A, B, F, base, t) /\ R(t) = f[Len(t)]
  BY ProjectTable
<1>2. s \in Seq(B) /\ r \in B /\ R(s) \in A
  BY ProjectsToType
<1>3. \A x \in A, y \in B : F[<<x, y>>] = Project(x, y)
  BY DEF ProjectStep
<1> HIDE DEF A, B, F, R
<1>4. PICK t : t = Append(s, r)
  OBVIOUS
<1>5. Follows(t, s, r, B) /\ t \in Seq(B)
  BY <1>2, <1>4, AppendProperties DEF Follows
<1>6. PICK f : IsTable(f, A, B, F, base, s) /\ R(s) = f[Len(s)]
  BY <1>1, <1>2
<1>7. PICK g : IsTable(g, A, B, F, base, t) /\ R(t) = g[Len(t)]
  BY <1>1, <1>5
<1>8. g[Len(t)] = F[<<f[Len(s)], r>>]
  <2>1. IsTable(f, A, B, F, base, s) /\ IsTable(g, A, B, F, base, t)
    BY <1>6, <1>7
  <2> QED BY <1>5, <2>1, TableOfAppend
<1>9. F[<<R(s), r>>] = Project(R(s), r)
  BY <1>2, <1>3
<1>10. R(Append(s, r)) = Project(R(s), r)
  BY <1>4, <1>6, <1>7, <1>8, <1>9
<1> QED BY <1>10 DEF R

(* An induction over the prefixes of s: what one record does, all do.      *)
LEMMA PrefixGrows ==
  ASSUME NEW B, NEW s \in Seq(B), NEW n \in 1..Len(s)
  PROVE  /\ SubSeq(s, 1, n - 1) \in Seq(B) /\ s[n] \in B
         /\ SubSeq(s, 1, n) = Append(SubSeq(s, 1, n - 1), s[n])
<1>1. Len(s) \in Nat /\ n \in Int /\ s[n] \in B
  BY LenProperties, ElementOfSeq
<1>2. SubSeq(s, 1, n - 1) \in Seq(B)
  <2>1. \A i \in 1..(n - 1) : s[i] \in B
    BY <1>1, ElementOfSeq
  <2> QED BY <1>1, <2>1, SubSeqProperties
<1>3. SubSeq(s, 1, n) = SubSeq(s, 1, n - 1) \o <<s[n]>>
  <2>1. 1 \in 1..Len(s) /\ n \in 1..Len(s)
    BY <1>1, SMT
  <2> QED BY <2>1, SubSeqRecursiveSecond
<1>4. Append(SubSeq(s, 1, n - 1), s[n]) = SubSeq(s, 1, n - 1) \o <<s[n]>>
  BY <1>1, <1>2, AppendIsConcat
<1> QED BY <1>1, <1>2, <1>3, <1>4

Upto(base, s, n) == Replay(Project, base, SubSeq(s, 1, n))

LEMMA ProjectUpto ==
  ASSUME NEW Item, NEW base \in RowsType, NEW s \in Seq(RecordOf(Item))
  PROVE  /\ Upto(base, s, 0) = base
         /\ \A n \in 0..Len(s) : Upto(base, s, n) \in RowsType
         /\ \A n \in 1..Len(s) : Upto(base, s, n) = Project(Upto(base, s, n - 1), s[n])
         /\ Upto(base, s, Len(s)) = Replay(Project, base, s)
<1> DEFINE B == RecordOf(Item)
<1>1. SubSeq(s, 1, 0) = <<>> /\ <<>> \in Seq(B) /\ Len(s) \in Nat
  BY SubSeqEmpty, EmptySeq, LenProperties
<1>2. Upto(base, s, 0) = base
  BY <1>1, ProjectsNothing DEF Upto
<1>3. ASSUME NEW n \in 1..Len(s)
      PROVE  /\ Upto(base, s, n) = Project(Upto(base, s, n - 1), s[n])
             /\ Upto(base, s, n) \in RowsType
  <2>1. /\ SubSeq(s, 1, n - 1) \in Seq(B) /\ s[n] \in B
        /\ SubSeq(s, 1, n) = Append(SubSeq(s, 1, n - 1), s[n])
    BY PrefixGrows
  <2> DEFINE u == SubSeq(s, 1, n - 1)
  <2>2. /\ Replay(Project, base, u) \in RowsType
        /\ Replay(Project, base, Append(u, s[n])) = Project(Replay(Project, base, u), s[n])
    <3> HIDE DEF u
    <3>1. u \in Seq(RecordOf(Item)) /\ s[n] \in RecordOf(Item)
      BY <2>1 DEF u
    <3> QED BY <3>1, ProjectsToType, ProjectsOneMore
  <2>3. /\ Upto(base, s, n - 1) \in RowsType
        /\ Upto(base, s, n) = Project(Upto(base, s, n - 1), s[n])
    BY <2>1, <2>2 DEF Upto
  <2> QED BY <2>1, <2>3, ProjectType
<1>4. \A n \in 0..Len(s) : Upto(base, s, n) \in RowsType
  BY <1>1, <1>2, <1>3, SMT
<1>5. Upto(base, s, Len(s)) = Replay(Project, base, s)
  BY SubSeqFull DEF Upto
<1> QED BY <1>2, <1>3, <1>4, <1>5

(* What happens to the Turns and their usage does not depend on the inputs *)
(* nor on the tokens charged before.                                       *)
Agree(a, b) == a.status = b.status /\ a.used = b.used /\ a.last = b.last
Shifted(a, b, d) == Agree(a, b) /\ b.tokens = a.tokens + d

LEMMA ProjectShifted ==
  ASSUME NEW Item, NEW a \in RowsType, NEW b \in RowsType, NEW r \in RecordOf(Item),
         NEW d \in Int, Shifted(a, b, d)
  PROVE  Shifted(Project(a, r), Project(b, r), d)
<1>1. a.tokens \in Nat /\ b.tokens \in Nat /\ r.turn \in Turns
  BY RowsAreARecord DEF RecordOf, CreatedRecord, CheckpointRecord, UpdatedRecord
<1>2. CASE r \in CreatedRecord
  <2>1. r.kind = "created"
    BY <1>2 DEF CreatedRecord
  <2> QED BY <2>1, ProjectCreated DEF Shifted, Agree
<1>3. CASE r \in CheckpointRecord(Item)
  <2>1. r.kind = "checkpoint" /\ r.used \in Nat /\ b.used = a.used /\ a.used[r.turn] \in Nat
    BY <1>1, <1>3, RowsAreARecord DEF CheckpointRecord, Shifted, Agree
  <2>2. TokensAfter(b, r) = TokensAfter(a, r) + d
    BY <1>1, <2>1 DEF TokensAfter, Saturating, Shifted
  <2> QED BY <2>1, <2>2, ProjectCheckpoint DEF Shifted, Agree
<1>4. CASE r \in UpdatedRecord
  <2>1. r.kind = "updated"
    BY <1>4 DEF UpdatedRecord
  <2> QED BY <2>1, ProjectUpdated DEF Shifted, Agree
<1> QED BY <1>2, <1>3, <1>4 DEF RecordOf

LEMMA ReplayShifted ==
  ASSUME NEW Item, NEW a \in RowsType, NEW b \in RowsType, NEW s \in Seq(RecordOf(Item)),
         NEW d \in Int, Shifted(a, b, d)
  PROVE  Shifted(Replay(Project, a, s), Replay(Project, b, s), d)
<1> DEFINE T == {n \in 0..Len(s) : Shifted(Upto(a, s, n), Upto(b, s, n), d)}
<1>1. Len(s) \in Nat /\ \A n \in 1..Len(s) : s[n] \in RecordOf(Item)
  BY LenProperties, ElementOfSeq
<1>2. 0 \in T
  <2>1. Upto(a, s, 0) = a /\ Upto(b, s, 0) = b
    BY ProjectUpto
  <2> QED BY <1>1, <2>1
<1>3. ASSUME NEW n \in 1..Len(s), n - 1 \in T PROVE n \in T
  <2>1. Upto(a, s, n - 1) \in RowsType /\ Upto(b, s, n - 1) \in RowsType
    BY <1>3, ProjectUpto
  <2>2. Shifted(Project(Upto(a, s, n - 1), s[n]), Project(Upto(b, s, n - 1), s[n]), d)
    BY <1>1, <1>3, <2>1, ProjectShifted
  <2>3. n \in 0..Len(s)
    BY <1>1, SMT
  <2> QED BY <2>2, <2>3, ProjectUpto
<1>4. \A n \in 0..Len(s) : n \in T
  <2> HIDE DEF T
  <2> QED BY <1>1, <1>2, <1>3, UpTo
<1>5. Len(s) \in T
  <2> HIDE DEF T
  <2> QED BY <1>1, <1>4, SMT
<1> QED BY <1>5, ProjectUpto

(* Replaying s and then t is replaying both.                               *)
Joins(u, s, t, B) == s \in Seq(B) /\ t \in Seq(B) /\ u = s \o t

LEMMA AppendsLast ==
  ASSUME NEW S, NEW s \in Seq(S), NEW w \in Seq(S), NEW x \in S
  PROVE  s \o w \in Seq(S) /\ s \o Append(w, x) = Append(s \o w, x)
<1>1. <<x>> \in Seq(S) /\ s \o w \in Seq(S)
  BY ConcatProperties
<1>2. Append(w, x) = w \o <<x>> /\ Append(s \o w, x) = (s \o w) \o <<x>>
  BY <1>1, AppendIsConcat
<1>3. (s \o w) \o <<x>> = s \o (w \o <<x>>)
  BY <1>1, ConcatAssociative
<1> QED BY <1>1, <1>2, <1>3

LEMMA ReplayConcat ==
  ASSUME NEW Item, NEW base \in RowsType, NEW s, NEW t, NEW u,
         Joins(u, s, t, RecordOf(Item))
  PROVE  Replay(Project, base, u) = Replay(Project, Replay(Project, base, s), t)
<1> DEFINE B == RecordOf(Item)
           mid == Replay(Project, base, s)
           T == {n \in 0..Len(t) :
                   Replay(Project, base, s \o SubSeq(t, 1, n)) = Upto(mid, t, n)}
<1>0. s \in Seq(RecordOf(Item)) /\ t \in Seq(RecordOf(Item)) /\ u = s \o t
  BY DEF Joins
<1> USE <1>0
<1>1. Len(t) \in Nat /\ SubSeq(t, 1, 0) = <<>> /\ s \o <<>> = s /\ mid \in RowsType
  <2>1. Len(t) \in Nat
    BY LenProperties
  <2>2. SubSeq(t, 1, 0) = <<>>
    BY SubSeqEmpty
  <2>3. s \o <<>> = s
    BY ConcatEmptySeq
  <2>4. mid \in RowsType
    BY ProjectsToType
  <2> QED BY <2>1, <2>2, <2>3, <2>4
<1>2. 0 \in T
  <2>1. Upto(mid, t, 0) = mid
    <3> HIDE DEF mid
    <3> QED BY <1>1, ProjectUpto
  <2>2. Replay(Project, base, s \o SubSeq(t, 1, 0)) = mid
    BY <1>1
  <2> QED BY <1>1, <2>1, <2>2
<1>3. ASSUME NEW n \in 1..Len(t), n - 1 \in T PROVE n \in T
  <2> DEFINE w == SubSeq(t, 1, n - 1)
  <2>1. w \in Seq(B) /\ t[n] \in B /\ SubSeq(t, 1, n) = Append(w, t[n])
    BY PrefixGrows
  <2>2. s \o w \in Seq(B) /\ s \o Append(w, t[n]) = Append(s \o w, t[n])
    <3>1. s \in Seq(B)
      BY DEF B
    <3> HIDE <1>0 DEF w, B
    <3> QED BY <2>1, <3>1, AppendsLast
  <2>3. Replay(Project, base, Append(s \o w, t[n]))
          = Project(Replay(Project, base, s \o w), t[n])
    <3> DEFINE v == s \o w
    <3>1. v \in Seq(B) /\ t[n] \in B
      BY <2>1, <2>2
    <3> HIDE DEF v
    <3>2. Replay(Project, base, Append(v, t[n])) = Project(Replay(Project, base, v), t[n])
      BY <3>1, ProjectsOneMore
    <3> QED BY <3>2 DEF v
  <2>4. Upto(mid, t, n) = Project(Upto(mid, t, n - 1), t[n])
    <3> HIDE DEF mid
    <3> QED BY <1>1, ProjectUpto
  <2>5. Replay(Project, base, s \o w) = Upto(mid, t, n - 1)
    BY <1>3
  <2>6. n \in 0..Len(t)
    BY <1>1, SMT
  <2>7. Replay(Project, base, s \o SubSeq(t, 1, n)) = Upto(mid, t, n)
    <3> HIDE DEF w, mid
    <3> QED BY <2>1, <2>2, <2>3, <2>4, <2>5
  <2> HIDE DEF w, mid
  <2> QED BY <2>6, <2>7
<1>4. \A n \in 0..Len(t) : n \in T
  <2> HIDE DEF T
  <2> QED BY <1>1, <1>2, <1>3, UpTo
<1>5. Len(t) \in T
  <2> HIDE DEF T
  <2> QED BY <1>1, <1>4, SMT
<1> HIDE DEF mid
<1> QED BY <1>1, <1>5, ProjectUpto, SubSeqFull DEF mid

(* What holds of base and is kept by every record holds after all.         *)
LEMMA ReplayKeeps ==
  ASSUME NEW Item, NEW base \in RowsType, NEW s \in Seq(RecordOf(Item)),
         NEW G, base \in G,
         \A db \in RowsType, r \in RecordOf(Item) : db \in G => Project(db, r) \in G
  PROVE  Replay(Project, base, s) \in G
<1> DEFINE T == {n \in 0..Len(s) : Upto(base, s, n) \in G}
<1>1. Len(s) \in Nat /\ \A n \in 1..Len(s) : s[n] \in RecordOf(Item)
  BY LenProperties, ElementOfSeq
<1>2. 0 \in T
  <2>1. Upto(base, s, 0) = base
    BY ProjectUpto
  <2> QED BY <1>1, <2>1
<1>3. ASSUME NEW n \in 1..Len(s), n - 1 \in T PROVE n \in T
  <2>1. Upto(base, s, n - 1) \in RowsType
    BY <1>3, ProjectUpto
  <2>2. Project(Upto(base, s, n - 1), s[n]) \in G
    BY <1>1, <1>3, <2>1
  <2>3. n \in 0..Len(s)
    BY <1>1, SMT
  <2>4. Upto(base, s, n) = Project(Upto(base, s, n - 1), s[n])
    BY ProjectUpto
  <2>5. Upto(base, s, n) \in G
    BY <2>2, <2>4
  <2> QED BY <2>3, <2>5
<1>4. \A n \in 0..Len(s) : n \in T
  <2> HIDE DEF T
  <2> QED BY <1>1, <1>2, <1>3, UpTo
<1>5. Len(s) \in T
  <2> HIDE DEF T
  <2> QED BY <1>1, <1>4, SMT
<1> QED BY <1>5, ProjectUpto

(* A claim belongs to an open Turn: what a terminal record does not        *)
(* acknowledge it gives back.                                              *)
ClaimsSound(db) ==
  \A i \in Inputs : db.input[i] = "claimed" =>
    db.owner[i] \in Turns /\ db.status[db.owner[i]] \in OpenTurn

LEMMA ProjectKeepsClaims ==
  ASSUME NEW Item, NEW db \in RowsType, NEW r \in RecordOf(Item), ClaimsSound(db)
  PROVE  ClaimsSound(Project(db, r))
<1>1. r.acks \subseteq Inputs /\ r.turn \in Turns
  BY DEF RecordOf, CreatedRecord, CheckpointRecord, UpdatedRecord, FewInputs
<1>2. CASE r \in CreatedRecord
  <2>1. r.kind = "created"
    BY <1>2 DEF CreatedRecord
  <2> DEFINE status == [db.status EXCEPT ![r.turn] = "Queued"]
  <2>2. \A t \in Turns : db.status[t] \in OpenTurn => status[t] \in OpenTurn
    BY <1>1, RowsAreARecord DEF OpenTurn
  <2>3. /\ Project(db, r).status = status /\ Project(db, r).input = db.input
        /\ Project(db, r).owner = db.owner
    BY <2>1, ProjectCreated
  <2> HIDE DEF status
  <2> QED BY <2>2, <2>3 DEF ClaimsSound
<1>3. CASE r \in CheckpointRecord(Item)
  <2>1. r.kind = "checkpoint"
    BY <1>3 DEF CheckpointRecord
  <2>2. /\ Project(db, r).status = db.status
        /\ Project(db, r).input = Applied(db.input, r.acks)
        /\ Project(db, r).owner = db.owner
    BY <2>1, ProjectCheckpoint
  <2>3. \A i \in Inputs : Applied(db.input, r.acks)[i] = "claimed" => db.input[i] = "claimed"
    BY DEF Applied
  <2> QED BY <2>2, <2>3 DEF ClaimsSound
<1>4. CASE r \in UpdatedRecord
  <2>1. r.kind = "updated" /\ r.status \in {"Running"} \cup TerminalTurn
    BY <1>4 DEF UpdatedRecord
  <2> DEFINE status == [db.status EXCEPT ![r.turn] = r.status]
  <2>2. \A t \in Turns : status[t] = IF t = r.turn THEN r.status ELSE db.status[t]
    BY <1>1, RowsAreARecord
  <2>3. CASE r.status \in TerminalTurn
    <3> DEFINE input == [i \in Inputs |-> IF i \in Mine(db, r) THEN "pending"
                                          ELSE Applied(db.input, r.acks)[i]]
               owner == [i \in Inputs |-> IF i \in Mine(db, r) THEN 0 ELSE db.owner[i]]
    <3>1. /\ Project(db, r).status = status /\ Project(db, r).input = input
          /\ Project(db, r).owner = owner
      BY <2>1, <2>3, ProjectUpdated
    <3>2. ASSUME NEW i \in Inputs, input[i] = "claimed"
          PROVE  owner[i] \in Turns /\ status[owner[i]] \in OpenTurn
      <4>1. i \notin Mine(db, r) /\ Applied(db.input, r.acks)[i] = "claimed"
        BY <3>2
      <4>2. db.input[i] = "claimed" /\ i \notin r.acks
        BY <4>1 DEF Applied
      <4>3. db.owner[i] # r.turn /\ owner[i] = db.owner[i]
        BY <4>1, <4>2 DEF Mine
      <4> QED BY <2>2, <4>2, <4>3 DEF ClaimsSound
    <3> HIDE DEF status, input, owner
    <3> QED BY <3>1, <3>2 DEF ClaimsSound
  <2>4. CASE r.status \notin TerminalTurn
    <3>1. /\ Project(db, r).status = status
          /\ Project(db, r).input = Applied(db.input, r.acks)
          /\ Project(db, r).owner = db.owner
      BY <2>1, <2>4, ProjectUpdated
    <3>2. r.status \in OpenTurn
      BY <2>1, <2>4 DEF OpenTurn
    <3>3. \A i \in Inputs : Applied(db.input, r.acks)[i] = "claimed" => db.input[i] = "claimed"
      BY DEF Applied
    <3> HIDE DEF status
    <3> QED BY <2>2, <3>1, <3>2, <3>3 DEF ClaimsSound
  <2> QED BY <2>3, <2>4
<1> QED BY <1>2, <1>3, <1>4 DEF RecordOf

(* Finitely many inputs have been sent.                                    *)
FewSent(db) == IsFiniteSet({i \in Inputs : db.input[i] # "none"})

LEMMA ProjectKeepsSent ==
  ASSUME NEW Item, NEW db \in RowsType, NEW r \in RecordOf(Item), FewSent(db)
  PROVE  FewSent(Project(db, r))
<1> DEFINE Sent(d) == {i \in Inputs : d.input[i] # "none"}
<1>1. IsFiniteSet(r.acks)
  <2>1. CASE r \in CreatedRecord
    BY <2>1, FS_EmptySet DEF CreatedRecord
  <2> QED BY <2>1 DEF RecordOf, CheckpointRecord, UpdatedRecord, FewInputs
<1>2. Sent(Project(db, r)) \subseteq Sent(db) \cup r.acks
  <2>1. ASSUME NEW i \in Inputs, i \notin r.acks, db.input[i] = "none"
        PROVE  Project(db, r).input[i] = "none"
    <3>1. CASE r \in CreatedRecord
      <4>1. r.kind = "created"
        BY <3>1 DEF CreatedRecord
      <4> QED BY <2>1, <4>1, ProjectCreated
    <3>2. CASE r \in CheckpointRecord(Item)
      <4>1. r.kind = "checkpoint"
        BY <3>2 DEF CheckpointRecord
      <4>2. Project(db, r).input = Applied(db.input, r.acks)
        BY <4>1, ProjectCheckpoint
      <4> QED BY <2>1, <4>2 DEF Applied
    <3>3. CASE r \in UpdatedRecord
      <4>1. r.kind = "updated"
        BY <3>3 DEF UpdatedRecord
      <4>2. i \notin Mine(db, r) /\ Applied(db.input, r.acks)[i] = "none"
        BY <2>1 DEF Mine, Applied
      <4> QED BY <4>1, <4>2, ProjectUpdated
    <3> QED BY <3>1, <3>2, <3>3 DEF RecordOf
  <2> QED BY <2>1
<1>3. IsFiniteSet(Sent(db) \cup r.acks)
  <2>1. IsFiniteSet(Sent(db))
    BY DEF FewSent
  <2> HIDE DEF Sent
  <2> QED BY <1>1, <2>1, FS_Union
<1>4. IsFiniteSet(Sent(Project(db, r)))
  <2> HIDE DEF Sent
  <2> QED BY <1>2, <1>3, FS_Subset
<1> QED BY <1>4 DEF FewSent

(* An input is applied when it was, or when a record acknowledges it.      *)
LEMMA ProjectApplies ==
  ASSUME NEW Item, NEW db \in RowsType, NEW r \in RecordOf(Item), NEW i \in Inputs
  PROVE  Project(db, r).input[i] = "applied" <=> db.input[i] = "applied" \/ i \in r.acks
<1>1. CASE r \in CreatedRecord
  <2>1. r.kind = "created" /\ r.acks = {}
    BY <1>1 DEF CreatedRecord
  <2> QED BY <2>1, ProjectCreated
<1>2. CASE r \in CheckpointRecord(Item)
  <2>1. r.kind = "checkpoint"
    BY <1>2 DEF CheckpointRecord
  <2>2. Project(db, r).input = Applied(db.input, r.acks)
    BY <2>1, ProjectCheckpoint
  <2> QED BY <2>2 DEF Applied
<1>3. CASE r \in UpdatedRecord
  <2>1. r.kind = "updated"
    BY <1>3 DEF UpdatedRecord
  <2>2. Applied(db.input, r.acks)[i] = "applied" <=> db.input[i] = "applied" \/ i \in r.acks
    BY DEF Applied
  <2>3. i \in Mine(db, r) => db.input[i] = "claimed" /\ i \notin r.acks
    BY DEF Mine
  <2>4. \/ Project(db, r).input = Applied(db.input, r.acks)
        \/ Project(db, r).input = [j \in Inputs |-> IF j \in Mine(db, r) THEN "pending"
                                                    ELSE Applied(db.input, r.acks)[j]]
    BY <2>1, ProjectUpdated
  <2> QED BY <2>2, <2>3, <2>4
<1> QED BY <1>1, <1>2, <1>3 DEF RecordOf

LEMMA ReplayApplies ==
  ASSUME NEW Item, NEW base \in RowsType, NEW s \in Seq(RecordOf(Item)), NEW i \in Inputs
  PROVE  Replay(Project, base, s).input[i] = "applied" <=>
           base.input[i] = "applied" \/ \E n \in 1..Len(s) : i \in s[n].acks
<1> DEFINE T == {n \in 0..Len(s) : Upto(base, s, n).input[i] = "applied" <=>
                   base.input[i] = "applied" \/ \E m \in 1..n : i \in s[m].acks}
<1>1. Len(s) \in Nat /\ \A n \in 1..Len(s) : s[n] \in RecordOf(Item)
  BY LenProperties, ElementOfSeq
<1>2. 0 \in T
  <2>1. Upto(base, s, 0) = base
    BY ProjectUpto
  <2> QED BY <1>1, <2>1
<1>3. ASSUME NEW n \in 1..Len(s), n - 1 \in T PROVE n \in T
  <2>1. Upto(base, s, n - 1) \in RowsType
    BY <1>3, ProjectUpto
  <2>2. Upto(base, s, n) = Project(Upto(base, s, n - 1), s[n])
    BY ProjectUpto
  <2>3. Upto(base, s, n).input[i] = "applied" <=>
          Upto(base, s, n - 1).input[i] = "applied" \/ i \in s[n].acks
    BY <1>1, <2>1, <2>2, ProjectApplies
  <2>4. n \in 0..Len(s)
    BY <1>1, SMT
  <2>5. (\E m \in 1..n : i \in s[m].acks) <=>
          (\E m \in 1..(n - 1) : i \in s[m].acks) \/ i \in s[n].acks
    <3>1. \A m : m \in 1..n <=> m \in 1..(n - 1) \/ m = n
      BY <1>1, SMT
    <3> QED BY <3>1
  <2> QED BY <1>3, <2>3, <2>4, <2>5
<1>4. \A n \in 0..Len(s) : n \in T
  <2> HIDE DEF T
  <2> QED BY <1>1, <1>2, <1>3, UpTo
<1>5. Len(s) \in T
  <2> HIDE DEF T
  <2> QED BY <1>1, <1>4, SMT
<1> QED BY <1>5, ProjectUpto
-----------------------------------------------------------------------------
(* The Store                                                               *)

LEMMA ProjectUptoNext ==
  ASSUME NEW Item, NEW s \in Seq(RecordOf(Item)), NEW n \in 1..Len(s)
  PROVE  Upto(EmptyRows, s, n) = Project(Upto(EmptyRows, s, n - 1), s[n])
<1>1. PICK base : base = EmptyRows
  OBVIOUS
<1>2. base \in RowsType
  BY <1>1 DEF EmptyRows, RowsType
<1>3. Upto(base, s, n) = Project(Upto(base, s, n - 1), s[n])
  BY <1>2, ProjectUpto
<1> QED BY <1>1, <1>3

StoreType(Item) ==
  /\ file \in Seq(RecordOf(Item))
  /\ \/ trailing = <<>> \/ trailing = <<Torn>>
     \/ \E r \in RecordOf(Item) : trailing = <<r>>
  /\ damaged \in BOOLEAN
  /\ rows \in RowsType
  /\ projected \in Nat
  /\ commit = Idle \/ commit \in [at : {"append", "project"}, record : RecordOf(Item)]
  /\ mishaps \in [crash : Nat, fault : Nat, retry : Nat]

Committing == commit.at = "append"
Projecting == commit.at = "project"
Adding     == Committing /\ trailing = <<>>
Settled ==
  trailing = <<>> /\ ~damaged /\ projected = IF Projecting THEN Len(file) - 1 ELSE Len(file)

StoreIsInOrder ==
  /\ Projecting => /\ projected + 1 = Len(file) /\ file[Len(file)] = commit.record
                   /\ trailing = <<>> /\ ~damaged
  /\ ~damaged => /\ projected \in {Len(file), Len(file) - 1}
                 /\ Agree(rows, Upto(EmptyRows, file, projected))
  /\ mishaps.fault = 0 => Settled
  /\ ClaimsSound(rows) /\ FewSent(rows)

Retry ==
  /\ mishaps' = [mishaps EXCEPT !.retry = @ + 1]
  /\ UNCHANGED <<file, trailing, damaged, rows, projected, commit>>

(* What any action of a module that uses the Store does to it. It scans    *)
(* only a file whose records are all projected.                            *)
StoreAction(Item) ==
  \/ \E r \in RecordOf(Item) : Commit(r)
  \/ AppendRecord
  \/ ProjectRecord
  \/ AppendFails
  \/ projected = Len(file) /\ Scan
  \/ \E survives \in BOOLEAN : Reopen(survives)
  \/ \E i \in Inputs : SendInput(i)
  \/ \E t \in Turns : ClaimInputs(t)
  \/ \E t \in Turns : EndAction(t)
  \/ \E n \in Nat : ChargeTokens(n)
  \/ Retry
  \/ UNCHANGED rolloutVars

LEMMA EmptyRowsType == EmptyRows \in RowsType
BY DEF EmptyRows, RowsType

LEMMA RecordsAreNotTorn ==
  ASSUME NEW Item, NEW r \in RecordOf(Item)
  PROVE  <<r>> # <<Torn>> /\ <<r>> # <<>>
<1>1. r.kind \in {"created", "checkpoint", "updated"}
  BY DEF RecordOf, CreatedRecord, CheckpointRecord, UpdatedRecord
<1>2. r # Torn
  BY <1>1 DEF Torn
<1> QED BY <1>2

Remnant(t, Item) == t = <<>> \/ t = <<Torn>> \/ \E r \in RecordOf(Item) : t = <<r>>
ReadsBack(f, t, w, all) == w = (IF t = <<Torn>> THEN <<>> ELSE t) /\ all = f \o w

LEMMA WholeIs ==
  ASSUME NEW Item, NEW f \in Seq(RecordOf(Item)), NEW t, Remnant(t, Item),
         NEW w, NEW all, ReadsBack(f, t, w, all)
  PROVE  /\ w \in Seq(RecordOf(Item)) /\ all \in Seq(RecordOf(Item))
         /\ t = <<>> => w = <<>> /\ all = f
         /\ t = <<Torn>> => w = <<>> /\ all = f
         /\ \A r \in RecordOf(Item) : t = <<r>> => all = Append(f, r)
         /\ Len(w) \in {0, 1} /\ Len(all) = Len(f) + Len(w)
         /\ Len(all) \in {Len(f), Len(f) + 1}
         /\ SubSeq(all, 1, Len(f)) = f
<1> DEFINE B == RecordOf(Item)
<1>1. Len(f) \in Nat
  BY LenProperties
<1>2. <<>> \in Seq(B) /\ Len(<<>>) = 0 /\ f \o <<>> = f
  BY <1>1, EmptySeq, ConcatEmptySeq
<1>3. \A r \in B : <<r>> \in Seq(B) /\ Len(<<r>>) = 1
  OBVIOUS
<1>4. w \in Seq(B) /\ Len(w) \in {0, 1}
  BY <1>2, <1>3 DEF ReadsBack, Remnant
<1>5. all \in Seq(B) /\ Len(all) = Len(f) + Len(w)
  BY <1>1, <1>4, ConcatProperties DEF ReadsBack
<1>6. t = <<>> \/ t = <<Torn>> => w = <<>> /\ all = f
  BY <1>2 DEF ReadsBack
<1>7. ASSUME NEW r \in B, t = <<r>> PROVE all = Append(f, r)
  <2>1. w = <<r>>
    BY <1>7, RecordsAreNotTorn DEF ReadsBack
  <2> QED BY <1>1, <2>1, AppendIsConcat DEF ReadsBack
<1>8. SubSeq(all, 1, Len(f)) = f
  <2> DEFINE u == SubSeq(all, 1, Len(f))
  <2>1. \A i \in 1..Len(f) : all[i] = f[i] /\ f[i] \in B
    <3>1. \A i \in 1..Len(f) : f[i] \in B
      BY <1>1, ElementOfSeq
    <3> QED BY <1>1, <1>4, <3>1, ConcatProperties DEF ReadsBack
  <2>2. u \in Seq(B) /\ Len(u) = Len(f) /\ \A i \in 1..Len(f) : u[i] = all[i]
    BY <1>1, <2>1, SubSeqProperties
  <2> HIDE DEF u, B
  <2>3. u = f
    BY <1>1, <2>1, <2>2, SeqEqual
  <2> QED BY <2>3 DEF u
<1>9. Len(all) \in {Len(f), Len(f) + 1}
  <2>1. Len(all) = Len(f) + 0 \/ Len(all) = Len(f) + 1
    BY <1>4, <1>5
  <2>2. Len(f) + 0 = Len(f)
    BY <1>1
  <2> QED BY <2>1, <2>2
<1> QED BY <1>4, <1>5, <1>6, <1>7, <1>8, <1>9

LEMMA WholeType ==
  ASSUME NEW Item, StoreType(Item)
  PROVE  /\ Whole \in Seq(RecordOf(Item)) /\ Records \in Seq(RecordOf(Item))
         /\ trailing = <<>> => Whole = <<>> /\ Records = file
         /\ trailing = <<Torn>> => Whole = <<>> /\ Records = file
         /\ \A r \in RecordOf(Item) : trailing = <<r>> => Records = Append(file, r)
         /\ Len(Whole) \in {0, 1} /\ Len(Records) = Len(file) + Len(Whole)
         /\ Len(Records) \in {Len(file), Len(file) + 1}
         /\ SubSeq(Records, 1, Len(file)) = file
<1>1. Remnant(trailing, Item) /\ file \in Seq(RecordOf(Item))
  BY DEF StoreType, Remnant
<1>2. ReadsBack(file, trailing, Whole, Records)
  BY DEF ReadsBack, Whole, Records
<1> QED BY <1>1, <1>2, WholeIs

LEMMA WholeTypeNext ==
  ASSUME NEW Item, StoreType(Item)'
  PROVE  /\ Records' \in Seq(RecordOf(Item))
         /\ trailing' = <<>> => Records' = file'
         /\ trailing' = <<Torn>> => Records' = file'
         /\ \A r \in RecordOf(Item) : trailing' = <<r>> => Records' = Append(file', r)
         /\ Len(Records') \in {Len(file'), Len(file') + 1}
<1>1. Remnant(trailing', Item) /\ file' \in Seq(RecordOf(Item))
  BY DEF StoreType, Remnant
<1>2. ReadsBack(file', trailing', Whole', Records')
  BY DEF ReadsBack, Whole, Records
<1> QED BY <1>1, <1>2, WholeIs

(* The calls that only change rows keep their types, their claims and that *)
(* finitely many inputs were sent.                                         *)
OnlyInputs(db, next) ==
  /\ next \in RowsType /\ Agree(db, next)
  /\ ClaimsSound(db) => ClaimsSound(next)
  /\ FewSent(db) => FewSent(next)

LEMMA SendsAnInput ==
  ASSUME rows \in RowsType, NEW i \in Inputs, SendInput(i)
  PROVE  OnlyInputs(rows, rows') /\ rows'.tokens = rows.tokens
<1> DEFINE input == [rows.input EXCEPT ![i] = "pending"]
<1>1. rows' = [status |-> rows.status, used |-> rows.used, last |-> rows.last,
               tokens |-> rows.tokens, input |-> input, owner |-> rows.owner]
  BY RowsAreARecord DEF SendInput
<1>2. /\ input \in [Inputs -> {"none", "pending", "claimed", "applied"}]
      /\ \A j \in Inputs : input[j] = IF j = i THEN "pending" ELSE rows.input[j]
  BY RowsAreARecord
<1> HIDE DEF input
<1>3. rows' \in RowsType
  BY <1>1, <1>2, RowsAreARecord DEF RowsType
<1>4. ClaimsSound(rows) => ClaimsSound(rows')
  BY <1>1, <1>2 DEF ClaimsSound
<1>5. FewSent(rows) => FewSent(rows')
  <2> DEFINE sent == {j \in Inputs : rows.input[j] # "none"}
             next == {j \in Inputs : rows'.input[j] # "none"}
  <2>1. next \subseteq sent \cup {i}
    BY <1>1, <1>2
  <2> HIDE DEF sent, next
  <2>2. IsFiniteSet(sent) => IsFiniteSet(next)
    BY <2>1, FS_AddElement, FS_Subset
  <2> QED BY <2>2 DEF FewSent, sent, next
<1> QED BY <1>1, <1>3, <1>4, <1>5 DEF OnlyInputs, Agree

LEMMA ClaimsInputs ==
  ASSUME rows \in RowsType, NEW t \in Turns, ClaimInputs(t)
  PROVE  OnlyInputs(rows, rows') /\ rows'.tokens = rows.tokens
<1> DEFINE input == [i \in Inputs |-> IF i \in Claimable(t) THEN "claimed" ELSE rows.input[i]]
           owner == [i \in Inputs |-> IF i \in Claimable(t) THEN t ELSE rows.owner[i]]
<1>1. rows' = [status |-> rows.status, used |-> rows.used, last |-> rows.last,
               tokens |-> rows.tokens, input |-> input, owner |-> owner]
  <2>1. rows' = [rows EXCEPT !.input = input, !.owner = owner]
    BY DEF ClaimInputs
  <2>2. rows = [status |-> rows.status, used |-> rows.used, last |-> rows.last,
                tokens |-> rows.tokens, input |-> rows.input, owner |-> rows.owner]
    BY RowsAreARecord
  <2> HIDE DEF input, owner
  <2> QED BY <2>1, <2>2
<1>2. /\ input \in [Inputs -> {"none", "pending", "claimed", "applied"}]
      /\ owner \in [Inputs -> Turns \cup {0}]
  BY RowsAreARecord
<1>3. \A j \in Inputs : /\ input[j] = IF j \in Claimable(t) THEN "claimed" ELSE rows.input[j]
                        /\ owner[j] = IF j \in Claimable(t) THEN t ELSE rows.owner[j]
  OBVIOUS
<1>4. rows.status[t] \in OpenTurn
  BY DEF ClaimInputs
<1> HIDE DEF input, owner
<1>5. rows' \in RowsType
  BY <1>1, <1>2, RowsAreARecord DEF RowsType
<1>6. ClaimsSound(rows) => ClaimsSound(rows')
  BY <1>1, <1>3, <1>4 DEF ClaimsSound
<1>7. FewSent(rows) => FewSent(rows')
  <2>1. {j \in Inputs : rows'.input[j] # "none"} = {j \in Inputs : rows.input[j] # "none"}
    BY <1>1, <1>3 DEF Claimable
  <2> QED BY <2>1 DEF FewSent
<1> QED BY <1>1, <1>5, <1>6, <1>7 DEF OnlyInputs, Agree

LEMMA EndsAnAction ==
  ASSUME rows \in RowsType, NEW t \in Turns, EndAction(t)
  PROVE  OnlyInputs(rows, rows') /\ rows'.tokens = rows.tokens
<1> DEFINE input == [i \in Inputs |->
             IF BoundTo[i] = t /\ rows.input[i] \in {"pending", "claimed"}
               THEN "applied" ELSE rows.input[i]]
<1>1. rows' = [status |-> rows.status, used |-> rows.used, last |-> rows.last,
               tokens |-> rows.tokens, input |-> input, owner |-> rows.owner]
  <2>1. rows' = [rows EXCEPT !.input = input]
    BY DEF EndAction
  <2> HIDE DEF input
  <2> QED BY <2>1, RowsAreARecord
<1>2. input \in [Inputs -> {"none", "pending", "claimed", "applied"}]
  BY RowsAreARecord
<1>3. \A j \in Inputs : \/ input[j] = rows.input[j]
                        \/ input[j] = "applied" /\ rows.input[j] # "none"
  OBVIOUS
<1> HIDE DEF input
<1>4. rows' \in RowsType
  BY <1>1, <1>2, RowsAreARecord DEF RowsType
<1>5. ClaimsSound(rows) => ClaimsSound(rows')
  BY <1>1, <1>3 DEF ClaimsSound
<1>6. FewSent(rows) => FewSent(rows')
  <2>1. {j \in Inputs : rows'.input[j] # "none"} = {j \in Inputs : rows.input[j] # "none"}
    BY <1>1, <1>3
  <2> QED BY <2>1 DEF FewSent
<1> QED BY <1>1, <1>4, <1>5, <1>6 DEF OnlyInputs, Agree

LEMMA ChargesTokens ==
  ASSUME rows \in RowsType, NEW n \in Nat, ChargeTokens(n)
  PROVE  OnlyInputs(rows, rows') /\ rows'.tokens = rows.tokens + n
<1>1. rows' = [status |-> rows.status, used |-> rows.used, last |-> rows.last,
               tokens |-> rows.tokens + n, input |-> rows.input, owner |-> rows.owner]
  BY RowsAreARecord DEF ChargeTokens
<1>2. rows' \in RowsType
  BY <1>1, RowsAreARecord DEF RowsType
<1> QED BY <1>1, <1>2 DEF OnlyInputs, Agree, ClaimsSound, FewSent

RowsOnly ==
  \/ \E i \in Inputs : SendInput(i)
  \/ \E t \in Turns : ClaimInputs(t)
  \/ \E t \in Turns : EndAction(t)
  \/ \E n \in Nat : ChargeTokens(n)

LEMMA RowsOnlyStep ==
  ASSUME rows \in RowsType, RowsOnly
  PROVE  /\ StoreIdle /\ UNCHANGED <<file, trailing, damaged, projected, commit, mishaps>>
         /\ OnlyInputs(rows, rows')
<1>1. CASE \E i \in Inputs : SendInput(i)
  BY <1>1, SendsAnInput DEF SendInput
<1>2. CASE \E t \in Turns : ClaimInputs(t)
  BY <1>2, ClaimsInputs DEF ClaimInputs
<1>3. CASE \E t \in Turns : EndAction(t)
  BY <1>3, EndsAnAction DEF EndAction
<1>4. CASE \E n \in Nat : ChargeTokens(n)
  BY <1>4, ChargesTokens DEF ChargeTokens
<1> QED BY <1>1, <1>2, <1>3, <1>4 DEF RowsOnly

(* What every step makes of the records: they stay or the one being        *)
(* committed joins them.                                                   *)
Kept == Records' = Records
Grew == Adding /\ Records' = Append(Records, commit.record) /\ ~Committing'

LEMMA SamePrefix ==
  ASSUME NEW B, NEW s \in Seq(B), NEW t \in Seq(B), Len(s) <= Len(t),
         \A i \in 1..Len(s) : t[i] = s[i], NEW n \in 0..Len(s)
  PROVE  SubSeq(t, 1, n) = SubSeq(s, 1, n)
<1> DEFINE u == SubSeq(t, 1, n)
           v == SubSeq(s, 1, n)
<1>1. Len(s) \in Nat /\ n \in Nat /\ \A i \in 1..n : s[i] \in B /\ t[i] = s[i]
  BY LenProperties, ElementOfSeq
<1>2. /\ u \in Seq(B) /\ v \in Seq(B) /\ Len(u) = n /\ Len(v) = n
      /\ \A i \in 1..n : u[i] = t[i] /\ v[i] = s[i]
  BY <1>1, SubSeqProperties
<1> HIDE DEF u, v
<1>3. u = v
  BY <1>1, <1>2, SeqEqual
<1> QED BY <1>3 DEF u, v

LEMMA RecordsBegin ==
  ASSUME NEW Item, StoreType(Item), NEW n \in 0..Len(file)
  PROVE  /\ SubSeq(Records, 1, n) = SubSeq(file, 1, n)
         /\ \A r \in RecordOf(Item) : SubSeq(Append(file, r), 1, n) = SubSeq(file, 1, n)
<1> DEFINE B == RecordOf(Item)
<1>1. /\ file \in Seq(B) /\ Len(file) \in Nat /\ Whole \in Seq(B) /\ Len(Whole) \in Nat
      /\ Records \in Seq(B) /\ Len(Records) = Len(file) + Len(Whole)
  BY WholeType, LenProperties DEF StoreType
<1>2. SubSeq(Records, 1, n) = SubSeq(file, 1, n)
  <2>1. \A i \in 1..Len(file) : Records[i] = file[i]
    BY <1>1, ConcatProperties DEF Records
  <2>2. Len(file) <= Len(Records)
    BY <1>1, SMT
  <2> QED BY <1>1, <2>1, <2>2, SamePrefix
<1>3. ASSUME NEW r \in B PROVE SubSeq(Append(file, r), 1, n) = SubSeq(file, 1, n)
  <2>1. PICK t : t = Append(file, r)
    OBVIOUS
  <2>2. t \in Seq(B) /\ Len(file) <= Len(t) /\ \A i \in 1..Len(file) : t[i] = file[i]
    BY <1>1, <2>1, AppendProperties
  <2>3. SubSeq(t, 1, n) = SubSeq(file, 1, n)
    BY <1>1, <2>2, SamePrefix
  <2> QED BY <2>1, <2>3
<1> QED BY <1>2, <1>3

LEMMA ReopenIs ==
  ASSUME NEW Item, StoreType(Item), StoreIsInOrder,
         NEW survives \in BOOLEAN, Reopen(survives)
  PROVE  /\ ~damaged /\ ~damaged' /\ trailing' = <<>> /\ commit' = Idle
         /\ file' \in Seq(RecordOf(Item)) /\ projected' = Len(file')
         /\ IF survives THEN Adding /\ file' = Append(file, commit.record)
                        ELSE file' = Records
         /\ Len(file) <= Len(file') /\ SubSeq(file', 1, projected) = SubSeq(file, 1, projected)
         /\ rows' = Replay(Project, rows, SubSeq(file', projected + 1, Len(file')))
         /\ SubSeq(file', projected + 1, Len(file')) \in Seq(RecordOf(Item))
         /\ mishaps' = [mishaps EXCEPT !.crash = @ + 1]
<1> DEFINE B == RecordOf(Item)
<1>1. ~damaged /\ ~damaged' /\ trailing' = <<>> /\ commit' = Idle
  BY DEF Reopen, StoreType
<1>2. file' = IF survives THEN Append(file, commit.record) ELSE Records
  BY DEF Reopen
<1>3. projected' = Len(file') /\ mishaps' = [mishaps EXCEPT !.crash = @ + 1]
  BY DEF Reopen
<1>4. rows' = Replay(Project, rows, SubSeq(file', projected + 1, Len(file')))
  BY DEF Reopen
<1>5. survives => Adding
  BY DEF Reopen, Adding, Committing
<1>6. Adding => commit.record \in B
  BY DEF Adding, Committing, StoreType, Idle
<1>7. /\ file \in Seq(B) /\ Len(file) \in Nat /\ Len(Whole) \in Nat
      /\ Records \in Seq(B) /\ Len(Records) = Len(file) + Len(Whole)
  BY WholeType, LenProperties DEF StoreType
<1>8. file' \in Seq(B) /\ Len(file') \in Nat /\ Len(file) <= Len(file')
  BY <1>2, <1>5, <1>6, <1>7, AppendProperties
<1>9. projected \in 0..Len(file)
  BY <1>1, <1>7 DEF StoreIsInOrder, StoreType
<1>10. SubSeq(file', 1, projected) = SubSeq(file, 1, projected)
  BY <1>2, <1>5, <1>6, <1>9, RecordsBegin
<1>11. SubSeq(file', projected + 1, Len(file')) \in Seq(B)
  <2>1. \A i \in (projected + 1)..Len(file') : file'[i] \in B
    BY <1>8, <1>9, ElementOfSeq
  <2>2. projected + 1 \in Int /\ Len(file') \in Int
    BY <1>7, <1>8, <1>9, SMT
  <2> QED BY <2>1, <2>2, SubSeqProperties
<1> QED BY <1>1, <1>2, <1>3, <1>4, <1>5, <1>8, <1>10, <1>11

LEMMA ReopenedRows ==
  ASSUME NEW Item, StoreType(Item), StoreIsInOrder,
         NEW survives \in BOOLEAN, Reopen(survives)
  PROVE  /\ rows' \in RowsType /\ ClaimsSound(rows') /\ FewSent(rows')
         /\ Agree(rows', Upto(EmptyRows, file', Len(file')))
<1> DEFINE B == RecordOf(Item)
           seen == SubSeq(file', 1, projected)
           rest == SubSeq(file', projected + 1, Len(file'))
           old == Upto(EmptyRows, file, projected)
<1>1. /\ rest \in Seq(B) /\ rows' = Replay(Project, rows, rest)
      /\ ~damaged /\ file' \in Seq(B) /\ seen = SubSeq(file, 1, projected)
  BY ReopenIs
<1>2. rows \in RowsType /\ file \in Seq(B) /\ Len(file) \in Nat /\ Len(file') \in Nat
  BY <1>1, LenProperties DEF StoreType
<1>3. projected \in 0..Len(file) /\ Len(file) <= Len(file')
  BY <1>1, <1>2, ReopenIs DEF StoreIsInOrder, StoreType
<1>4. old \in RowsType /\ Agree(old, rows) /\ old = Replay(Project, EmptyRows, seen)
  <2>1. old \in RowsType
    BY <1>2, <1>3, EmptyRowsType, ProjectUpto
  <2>2. Agree(old, rows)
    BY <1>1 DEF StoreIsInOrder, Agree
  <2> QED BY <1>1, <2>1, <2>2 DEF Upto
<1>5. seen \in Seq(B)
  <2>1. \A i \in 1..projected : file'[i] \in B
    BY <1>1, <1>2, <1>3, ElementOfSeq
  <2>2. projected \in Int
    BY <1>3, SMT
  <2> QED BY <2>1, <2>2, SubSeqProperties
<1>6. seen \o rest = file'
  <2>1. SubSeq(file', 1, projected) \o SubSeq(file', projected + 1, Len(file'))
          = SubSeq(file', 1, Len(file'))
    <3>1. 1 \in 1..(Len(file') + 1) /\ projected \in (1 - 1)..Len(file')
          /\ Len(file') \in projected..Len(file')
      BY <1>2, <1>3, SMT
    <3> QED BY <1>1, <3>1, ConcatAdjacentSubSeq
  <2> QED BY <1>1, <2>1, SubSeqFull
<1>7. Upto(EmptyRows, file', Len(file')) = Replay(Project, old, rest)
  <2>1. Replay(Project, EmptyRows, seen \o rest)
          = Replay(Project, Replay(Project, EmptyRows, seen), rest)
    <3>1. rest \in Seq(RecordOf(Item)) /\ seen \in Seq(RecordOf(Item))
      BY <1>1, <1>5
    <3> HIDE DEF seen, rest
    <3>2. PICK all : all = seen \o rest
      OBVIOUS
    <3>3. Joins(all, seen, rest, RecordOf(Item))
      BY <3>1, <3>2 DEF Joins
    <3>4. Replay(Project, EmptyRows, all) = Replay(Project, Replay(Project, EmptyRows, seen), rest)
      BY <3>3, EmptyRowsType, ReplayConcat
    <3> QED BY <3>2, <3>4
  <2>2. Upto(EmptyRows, file', Len(file')) = Replay(Project, EmptyRows, file')
    BY <1>1, SubSeqFull DEF Upto
  <2> QED BY <1>4, <1>6, <2>1, <2>2
<1> HIDE DEF seen, rest, old
<1>8. Agree(rows', Upto(EmptyRows, file', Len(file')))
  <2>1. old.tokens \in Nat /\ rows.tokens \in Nat
    BY <1>2, <1>4, RowsAreARecord
  <2>2. PICK d \in Int : d = rows.tokens - old.tokens
    BY <2>1, SMT
  <2>3. Shifted(old, rows, d)
    BY <1>4, <2>1, <2>2 DEF Shifted
  <2>4. Shifted(Replay(Project, old, rest), Replay(Project, rows, rest), d)
    BY <1>1, <1>2, <1>4, <2>3, ReplayShifted
  <2> QED BY <1>1, <1>7, <2>4 DEF Shifted, Agree
<1>9. rows' \in RowsType
  BY <1>1, <1>2, ProjectsToType
<1>10. rows' \in {db \in RowsType : ClaimsSound(db)}
  <2> DEFINE G == {db \in RowsType : ClaimsSound(db)}
  <2>1. rows \in G
    BY <1>2 DEF StoreIsInOrder
  <2>2. \A db \in RowsType, r \in B : db \in G => Project(db, r) \in G
    BY ProjectKeepsClaims, ProjectType
  <2> HIDE DEF G
  <2>3. rows' \in G
    BY <1>1, <1>2, <2>1, <2>2, ReplayKeeps
  <2> QED BY <2>3 DEF G
<1>11. rows' \in {db \in RowsType : FewSent(db)}
  <2> DEFINE G == {db \in RowsType : FewSent(db)}
  <2>1. rows \in G
    BY <1>2 DEF StoreIsInOrder
  <2>2. \A db \in RowsType, r \in B : db \in G => Project(db, r) \in G
    BY ProjectKeepsSent, ProjectType
  <2> HIDE DEF G
  <2>3. rows' \in G
    BY <1>1, <1>2, <2>1, <2>2, ReplayKeeps
  <2> QED BY <2>3 DEF G
<1> QED BY <1>8, <1>9, <1>10, <1>11

LEMMA CommitTypes ==
  ASSUME NEW Item, StoreType(Item)
  PROVE  /\ commit # Idle => /\ commit.record \in RecordOf(Item)
                             /\ commit.at \in {"append", "project"}
                             /\ [commit EXCEPT !.at = "project"]
                                  = [at |-> "project", record |-> commit.record]
         /\ commit # Idle <=> Committing \/ Projecting
         /\ ~(Committing /\ Projecting)
<1>1. commit = Idle => commit.at = "none"
  BY DEF Idle
<1>2. CASE commit \in [at : {"append", "project"}, record : RecordOf(Item)]
  <2>1. /\ commit.at \in {"append", "project"} /\ commit.record \in RecordOf(Item)
        /\ commit = [at |-> commit.at, record |-> commit.record]
    BY <1>2
  <2>2. [commit EXCEPT !.at = "project"] = [at |-> "project", record |-> commit.record]
    BY <1>2
  <2> QED BY <1>1, <2>1, <2>2 DEF Committing, Projecting
<1> QED BY <1>1, <1>2 DEF StoreType, Committing, Projecting

LEMMA StoreTypeStep ==
  ASSUME NEW Item, StoreType(Item), StoreIsInOrder, StoreAction(Item)
  PROVE  StoreType(Item)'
<1> DEFINE B == RecordOf(Item)
<1>1. /\ file \in Seq(B) /\ rows \in RowsType /\ projected \in Nat
      /\ mishaps \in [crash : Nat, fault : Nat, retry : Nat]
  BY DEF StoreType
<1>2. ASSUME NEW r \in B, Commit(r) PROVE StoreType(Item)'
  BY <1>2 DEF StoreType, Commit
<1>3. CASE AppendRecord
  <2>1. commit.record \in B /\ commit # Idle
    BY <1>3, CommitTypes DEF AppendRecord, Idle
  <2>2. Append(file, commit.record) \in Seq(B) /\ Project(rows, commit.record) \in RowsType
    BY <1>1, <2>1, AppendProperties, ProjectType
  <2>3. file' \in Seq(B) /\ rows' \in RowsType /\ projected' \in Nat /\ damaged' \in BOOLEAN
    <3>1. /\ file' = file \/ file' = Append(file, commit.record)
          /\ rows' = rows \/ rows' = Project(rows, commit.record)
          /\ projected' = projected \/ projected' = projected + 1
          /\ damaged' = damaged \/ damaged' = TRUE
      BY <1>3 DEF AppendRecord
    <3>2. damaged \in BOOLEAN /\ projected + 1 \in Nat
      BY <1>1 DEF StoreType
    <3> QED BY <1>1, <2>2, <3>1, <3>2
  <2>4. commit' = Idle \/ commit' \in [at : {"append", "project"}, record : B]
    <3>1. [commit EXCEPT !.at = "project"] = [at |-> "project", record |-> commit.record]
      BY <2>1, CommitTypes
    <3>2. [at |-> "project", record |-> commit.record] \in [at : {"append", "project"}, record : B]
      BY <2>1
    <3>3. commit' = Idle \/ commit' = [commit EXCEPT !.at = "project"]
      BY <1>3 DEF AppendRecord
    <3> QED BY <3>1, <3>2, <3>3
  <2> QED BY <1>3, <2>3, <2>4 DEF AppendRecord, StoreType
<1>4. CASE ProjectRecord
  <2>1. commit.record \in B
    BY <1>4, CommitTypes DEF ProjectRecord, Idle
  <2>2. Project(rows, commit.record) \in RowsType
    BY <1>1, <2>1, ProjectType
  <2> QED BY <1>4, <2>2 DEF ProjectRecord, StoreType
<1>5. CASE AppendFails
  <2>1. commit.record \in B
    BY <1>5, CommitTypes DEF AppendFails, Idle
  <2>2. mishaps' \in [crash : Nat, fault : Nat, retry : Nat]
    BY <1>1, <1>5 DEF AppendFails
  <2> QED BY <1>5, <2>1, <2>2 DEF AppendFails, StoreType
<1>6. CASE Scan
  <2>1. file' \in Seq(B) /\ trailing' = <<>>
    BY <1>6, WholeType DEF Scan
  <2>2. UNCHANGED <<damaged, rows, projected, commit, mishaps>>
    BY <1>6 DEF Scan
  <2> QED BY <2>1, <2>2 DEF StoreType
<1>7. ASSUME NEW survives \in BOOLEAN, Reopen(survives) PROVE StoreType(Item)'
  <2>1. mishaps' \in [crash : Nat, fault : Nat, retry : Nat]
    BY <1>1, <1>7, ReopenIs
  <2>2. file' \in Seq(B) /\ projected' = Len(file') /\ Len(file') \in Nat
    BY <1>7, ReopenIs, LenProperties
  <2>3. damaged' \in BOOLEAN /\ trailing' = <<>> /\ commit' = Idle
    BY <1>7 DEF Reopen, StoreType
  <2>4. rows' \in RowsType
    BY <1>7, ReopenedRows
  <2> QED BY <2>1, <2>2, <2>3, <2>4 DEF StoreType
<1>8. CASE RowsOnly
  <2>1. UNCHANGED <<file, trailing, damaged, projected, commit, mishaps>> /\ rows' \in RowsType
    BY <1>1, <1>8, RowsOnlyStep DEF OnlyInputs
  <2> QED BY <2>1 DEF StoreType
<1>9. CASE Retry
  <2>1. UNCHANGED <<file, trailing, damaged, rows, projected, commit>>
    BY <1>9 DEF Retry
  <2>2. mishaps' \in [crash : Nat, fault : Nat, retry : Nat]
    BY <1>1, <1>9 DEF Retry
  <2> QED BY <2>1, <2>2 DEF StoreType
<1>10. CASE UNCHANGED rolloutVars
  BY <1>10 DEF rolloutVars, StoreType
<1> QED BY <1>2, <1>3, <1>4, <1>5, <1>6, <1>7, <1>8, <1>9, <1>10 DEF StoreAction, RowsOnly

LEMMA StoreOrderStep ==
  ASSUME NEW Item, StoreType(Item), StoreIsInOrder, StoreAction(Item)
  PROVE  StoreIsInOrder'
<1> DEFINE B == RecordOf(Item)
           Seen == Upto(EmptyRows, file, projected)
<1>1. /\ file \in Seq(B) /\ Len(file) \in Nat /\ rows \in RowsType /\ projected \in Nat
      /\ mishaps \in [crash : Nat, fault : Nat, retry : Nat]
  BY LenProperties DEF StoreType
<1>2. ASSUME NEW r \in B, Commit(r) PROVE StoreIsInOrder'
  <2>1. /\ commit = Idle /\ commit' = [at |-> "append", record |-> r]
        /\ UNCHANGED <<file, trailing, damaged, rows, projected, mishaps>>
    BY <1>2 DEF Commit, StoreIdle
  <2>2. ~Projecting /\ ~Projecting'
    BY <2>1 DEF Projecting, Idle
  <2>3. Settled => Settled'
    BY <2>1, <2>2 DEF Settled
  <2> QED BY <2>1, <2>2, <2>3 DEF StoreIsInOrder
<1>3. CASE AppendRecord
  <2>1. commit.record \in B /\ ~Projecting
    BY <1>3, CommitTypes DEF AppendRecord, Idle, Projecting
  <2>2. UNCHANGED mishaps /\ UNCHANGED trailing
    BY <1>3 DEF AppendRecord
  <2>3. CASE ~damaged /\ trailing = <<>> /\ projected = Len(file)
    <3>1. /\ file' = Append(file, commit.record) /\ UNCHANGED <<damaged, rows, projected>>
          /\ commit' = [at |-> "project", record |-> commit.record]
      BY <1>3, <2>3, CommitTypes DEF AppendRecord, Idle
    <3>2. Len(file') = Len(file) + 1 /\ file'[Len(file) + 1] = commit.record
      BY <1>1, <2>1, <3>1, AppendProperties
    <3>3. Projecting'
      BY <3>1 DEF Projecting
    <3>4. SubSeq(file', 1, projected) = SubSeq(file, 1, projected)
      <4>1. projected \in 0..Len(file)
        BY <1>1, <2>3
      <4> QED BY <2>1, <3>1, <4>1, RecordsBegin
    <3>5. Upto(EmptyRows, file', projected') = Seen
      BY <3>1, <3>4 DEF Upto
    <3>6. Agree(rows', Upto(EmptyRows, file', projected'))
      BY <2>3, <3>1, <3>5 DEF StoreIsInOrder
    <3>7. Settled'
      BY <1>1, <2>2, <2>3, <3>1, <3>2, <3>3 DEF Settled
    <3> QED BY <1>1, <2>2, <2>3, <3>1, <3>2, <3>3, <3>6, <3>7 DEF StoreIsInOrder
  <2>4. CASE ~(~damaged /\ trailing = <<>> /\ projected = Len(file))
    <3>1. damaged' = TRUE /\ rows' = Project(rows, commit.record) /\ commit' = Idle
      BY <1>3, <2>4 DEF AppendRecord
    <3>2. ~Projecting'
      BY <3>1 DEF Projecting, Idle
    <3>3. mishaps.fault # 0
      BY <2>1, <2>4 DEF StoreIsInOrder, Settled
    <3>4. ClaimsSound(rows') /\ FewSent(rows')
      BY <1>1, <2>1, <3>1, ProjectKeepsClaims, ProjectKeepsSent DEF StoreIsInOrder
    <3> QED BY <2>2, <3>1, <3>2, <3>3, <3>4 DEF StoreIsInOrder
  <2> QED BY <2>3, <2>4
<1>4. CASE ProjectRecord
  <2>1. Projecting /\ commit.record \in B
    BY <1>4, CommitTypes DEF ProjectRecord, Projecting, Idle
  <2>2. /\ rows' = Project(rows, commit.record) /\ projected' = projected + 1
        /\ commit' = Idle /\ UNCHANGED <<file, trailing, damaged, mishaps>>
    BY <1>4 DEF ProjectRecord
  <2>3. /\ projected + 1 = Len(file) /\ file[Len(file)] = commit.record
        /\ trailing = <<>> /\ ~damaged /\ Agree(rows, Seen)
    BY <2>1 DEF StoreIsInOrder
  <2>4. ~Projecting'
    BY <2>2 DEF Projecting, Idle
  <2>5. projected \in 0..Len(file) /\ Len(file) \in 1..Len(file) /\ Len(file) - 1 = projected
    BY <1>1, <2>3
  <2>6. Upto(EmptyRows, file, Len(file)) = Project(Seen, commit.record) /\ Seen \in RowsType
    <3>1. Upto(EmptyRows, file, Len(file)) = Project(Upto(EmptyRows, file, Len(file) - 1), file[Len(file)])
      <4>1. PICK n \in 1..Len(file) : n = Len(file)
        BY <2>5
      <4>2. Upto(EmptyRows, file, n) = Project(Upto(EmptyRows, file, n - 1), file[n])
        BY <1>1, ProjectUptoNext
      <4> QED BY <4>1, <4>2
    <3>2. Seen \in RowsType
      BY <1>1, <2>5, EmptyRowsType, ProjectUpto
    <3> QED BY <2>3, <2>5, <3>1, <3>2
  <2>7. Agree(Project(rows, commit.record), Project(Seen, commit.record))
    <3> HIDE DEF Seen
    <3>1. rows.tokens \in Nat /\ Seen.tokens \in Nat
      BY <1>1, <2>6, RowsAreARecord
    <3>2. PICK d \in Int : d = Seen.tokens - rows.tokens
      BY <3>1, SMT
    <3>3. Shifted(rows, Seen, d)
      BY <2>3, <3>1, <3>2 DEF Shifted
    <3>4. Shifted(Project(rows, commit.record), Project(Seen, commit.record), d)
      BY <1>1, <2>1, <2>6, <3>3, ProjectShifted
    <3> QED BY <3>4 DEF Shifted
  <2>8. Agree(rows', Upto(EmptyRows, file', projected'))
    BY <2>2, <2>3, <2>6, <2>7
  <2>9. ClaimsSound(rows') /\ FewSent(rows')
    BY <1>1, <2>1, <2>2, ProjectKeepsClaims, ProjectKeepsSent DEF StoreIsInOrder
  <2>10. Settled'
    BY <2>2, <2>3, <2>4 DEF Settled
  <2> QED BY <2>2, <2>3, <2>4, <2>8, <2>9, <2>10 DEF StoreIsInOrder
<1>5. CASE AppendFails
  <2>1. /\ commit' = Idle /\ UNCHANGED <<file, damaged, rows, projected>>
        /\ mishaps'.fault = mishaps.fault + 1
    BY <1>1, <1>5 DEF AppendFails
  <2>2. ~Projecting' /\ mishaps'.fault # 0
    BY <1>1, <2>1 DEF Projecting, Idle
  <2> QED BY <2>1, <2>2 DEF StoreIsInOrder
<1>6. CASE projected = Len(file) /\ Scan
  <2>1. /\ commit = Idle /\ ~damaged /\ file' = Records /\ trailing' = <<>>
        /\ UNCHANGED <<damaged, rows, projected, commit, mishaps>>
    BY <1>6 DEF Scan, StoreIdle
  <2>2. ~Projecting /\ ~Projecting'
    BY <2>1 DEF Projecting, Idle
  <2>3. Len(file') \in {Len(file), Len(file) + 1}
    BY <1>1, <2>1, WholeType
  <2>4. Upto(EmptyRows, file', projected') = Seen
    <3>1. projected \in 0..Len(file)
      BY <1>1, <1>6
    <3> QED BY <2>1, <3>1, RecordsBegin DEF Upto
  <2>5. Settled => Settled'
    BY <2>1, <2>2, WholeType DEF Settled
  <2> QED BY <1>1, <1>6, <2>1, <2>2, <2>3, <2>4, <2>5 DEF StoreIsInOrder
<1>7. ASSUME NEW survives \in BOOLEAN, Reopen(survives) PROVE StoreIsInOrder'
  <2>1. ~Projecting'
    BY <1>7, ReopenIs DEF Projecting, Idle
  <2>2. Settled'
    BY <1>7, <2>1, ReopenIs DEF Settled
  <2> QED BY <1>7, <2>1, <2>2, ReopenIs, ReopenedRows DEF StoreIsInOrder
<1>8. CASE RowsOnly
  <2>1. /\ OnlyInputs(rows, rows') /\ commit = Idle
        /\ UNCHANGED <<file, trailing, damaged, projected, commit, mishaps>>
    BY <1>1, <1>8, RowsOnlyStep DEF StoreIdle
  <2>2. Agree(rows, Seen) => Agree(rows', Seen)
    BY <2>1 DEF OnlyInputs, Agree
  <2>3. (Settled <=> Settled') /\ (Projecting <=> Projecting')
    BY <2>1 DEF Settled, Projecting
  <2> QED BY <2>1, <2>2, <2>3 DEF StoreIsInOrder, OnlyInputs
<1>9. CASE Retry
  <2>1. /\ UNCHANGED <<file, trailing, damaged, rows, projected, commit>>
        /\ mishaps'.fault = mishaps.fault
    BY <1>1, <1>9 DEF Retry
  <2>2. (Settled <=> Settled') /\ (Projecting <=> Projecting')
    BY <2>1 DEF Settled, Projecting
  <2> QED BY <2>1, <2>2 DEF StoreIsInOrder
<1>10. CASE UNCHANGED rolloutVars
  <2>1. UNCHANGED <<file, trailing, damaged, rows, projected, commit, mishaps>>
    BY <1>10 DEF rolloutVars
  <2>2. (Settled <=> Settled') /\ (Projecting <=> Projecting')
    BY <2>1 DEF Settled, Projecting
  <2> QED BY <2>1, <2>2 DEF StoreIsInOrder
<1> QED BY <1>2, <1>3, <1>4, <1>5, <1>6, <1>7, <1>8, <1>9, <1>10 DEF StoreAction, RowsOnly

LEMMA RecordsStep ==
  ASSUME NEW Item, StoreType(Item), StoreIsInOrder, StoreAction(Item)
  PROVE  /\ Kept \/ Grew
         /\ file' = file \/ file' = Records'
<1> DEFINE B == RecordOf(Item)
<1>1. StoreType(Item)'
  BY StoreTypeStep
<1>2. trailing' = <<>> => Records' = file'
  BY <1>1, WholeTypeNext
<1>3. CASE UNCHANGED <<file, trailing>>
  BY <1>3 DEF Kept, Records, Whole
<1>4. CASE AppendRecord
  <2>1. ~UNCHANGED file => /\ file' = Append(file, commit.record) /\ trailing = <<>>
                           /\ commit'.at = "project" /\ commit.at = "append"
    BY <1>4, CommitTypes DEF AppendRecord, Idle
  <2>2. UNCHANGED trailing
    BY <1>4 DEF AppendRecord
  <2>3. ~UNCHANGED file => Grew
    BY <1>2, <2>1, <2>2, WholeType DEF Grew, Adding, Committing
  <2> QED BY <1>2, <1>3, <2>1, <2>2, <2>3
<1>5. CASE AppendFails
  <2>1. UNCHANGED file /\ commit' = Idle /\ commit.at = "append"
    BY <1>5 DEF AppendFails
  <2>2. ~Committing' /\ Committing /\ commit.record \in B
    BY <2>1, CommitTypes DEF Committing, Idle
  <2>3. CASE UNCHANGED trailing
    BY <1>3, <2>1, <2>3
  <2>4. CASE trailing = <<>> /\ trailing' = <<Torn>>
    <3>1. Whole' = <<>> /\ Whole = <<>>
      BY <2>4 DEF Whole
    <3> QED BY <2>1, <3>1 DEF Kept, Records
  <2>5. CASE trailing = <<>> /\ trailing' = <<commit.record>>
    <3>1. Records' = Append(file', commit.record)
      BY <1>1, <2>2, <2>5, WholeTypeNext
    <3> QED BY <2>1, <2>2, <2>5, <3>1, WholeType DEF Grew, Adding
  <2> QED BY <1>5, <2>3, <2>4, <2>5 DEF AppendFails
<1>6. CASE Scan
  BY <1>2, <1>6 DEF Scan, Kept
<1>7. ASSUME NEW survives \in BOOLEAN, Reopen(survives)
      PROVE  (Kept \/ Grew) /\ file' = Records'
  <2>1. trailing' = <<>> /\ commit' = Idle
    BY <1>7, ReopenIs
  <2>2. CASE survives
    <3>1. Adding /\ file' = Append(file, commit.record)
      BY <1>7, <2>2, ReopenIs
    <3> QED BY <1>2, <2>1, <3>1, WholeType DEF Grew, Adding, Committing, Idle
  <2>3. CASE ~survives
    BY <1>2, <1>7, <2>1, <2>3, ReopenIs DEF Kept
  <2> QED BY <2>2, <2>3
<1>8. CASE RowsOnly
  BY <1>3, <1>8, RowsOnlyStep DEF StoreType
<1> QED BY <1>3, <1>4, <1>5, <1>6, <1>7, <1>8
        DEF StoreAction, RowsOnly, Commit, ProjectRecord, Retry, rolloutVars
-----------------------------------------------------------------------------
(* What the file says of the Agent's Turns                                 *)

(* with the record a restart would read of a failed write                  *)
Latest == Replay(Read, NoTurn(<<>>), Records)

LEMMA NoTurnType ==
  ASSUME NEW Item, NEW context \in Seq(Item)
  PROVE  NoTurn(context) \in StateOf(Item)
BY DEF NoTurn, StateOf

LEMMA LatestType ==
  ASSUME NEW Item, StoreType(Item)
  PROVE  Latest \in StateOf(Item) /\ Canonical \in StateOf(Item)
<1>1. <<>> \in Seq(Item)
  BY EmptySeq
<1>2. file \in Seq(RecordOf(Item)) /\ Records \in Seq(RecordOf(Item))
  BY WholeType DEF StoreType
<1> QED BY <1>1, <1>2, NoTurnType, ReadsToType DEF Latest, Canonical

LEMMA LatestStep ==
  ASSUME NEW Item, StoreType(Item), StoreIsInOrder, StoreAction(Item)
  PROVE  /\ Latest' = Latest \/ (Adding /\ ~Committing' /\ Latest' = Read(Latest, commit.record))
         /\ Canonical' \in {Canonical, Latest'}
<1>1. Kept \/ Grew
  BY RecordsStep
<1>2. file' = file \/ file' = Records'
  BY RecordsStep
<1>3. Kept => Latest' = Latest
  BY DEF Kept, Latest
<1>4. Grew => Latest' = Read(Latest, commit.record)
  <2> SUFFICES ASSUME Grew PROVE Latest' = Read(Latest, commit.record)
    OBVIOUS
  <2>1. Records \in Seq(RecordOf(Item)) /\ commit.record \in RecordOf(Item)
    BY WholeType, CommitTypes DEF Grew, Adding
  <2>2. NoTurn(<<>>) \in StateOf(Item)
    BY EmptySeq, NoTurnType
  <2>3. Replay(Read, NoTurn(<<>>), Append(Records, commit.record))
          = Read(Replay(Read, NoTurn(<<>>), Records), commit.record)
    BY <2>1, <2>2, ReadsOneMore
  <2> QED BY <2>3 DEF Grew, Latest
<1>5. file' = file => Canonical' = Canonical
  BY DEF Canonical
<1>6. file' = Records' => Canonical' = Latest'
  BY DEF Canonical, Latest
<1> QED BY <1>1, <1>2, <1>3, <1>4, <1>5, <1>6 DEF Grew

(* What the file says of the rows                                          *)
Told == Replay(Project, EmptyRows, Records)

LEMMA ToldType ==
  ASSUME NEW Item, StoreType(Item)
  PROVE  /\ Told \in RowsType
         /\ StoreIsInOrder /\ ~damaged /\ trailing = <<>> /\ projected = Len(file) => Agree(rows, Told)
<1>1. Told \in RowsType
  BY EmptyRowsType, WholeType, ProjectsToType DEF Told
<1>2. ASSUME StoreIsInOrder, ~damaged, trailing = <<>>, projected = Len(file) PROVE Agree(rows, Told)
  <2>1. Records = file /\ file \in Seq(RecordOf(Item))
    BY <1>2, WholeType DEF StoreType
  <2>2. Upto(EmptyRows, file, Len(file)) = Replay(Project, EmptyRows, file)
    BY <2>1, EmptyRowsType, ProjectUpto
  <2> QED BY <1>2, <2>1, <2>2 DEF StoreIsInOrder, Told
<1> QED BY <1>1, <1>2

LEMMA ToldStep ==
  ASSUME NEW Item, StoreType(Item), StoreIsInOrder, StoreAction(Item)
  PROVE  \/ /\ Records' = Records /\ Latest' = Latest /\ Told' = Told
         \/ /\ Adding /\ ~Committing' /\ commit.record \in RecordOf(Item)
            /\ Records' = Append(Records, commit.record)
            /\ Latest' = Read(Latest, commit.record) /\ Told' = Project(Told, commit.record)
<1>1. Kept \/ Grew
  BY RecordsStep
<1>2. Kept => Latest' = Latest /\ Told' = Told
  BY DEF Kept, Latest, Told
<1>3. ASSUME Grew
      PROVE  /\ commit.record \in RecordOf(Item)
             /\ Latest' = Read(Latest, commit.record) /\ Told' = Project(Told, commit.record)
  <2>1. Records \in Seq(RecordOf(Item)) /\ commit.record \in RecordOf(Item)
    BY <1>3, WholeType, CommitTypes DEF Grew, Adding
  <2>2. NoTurn(<<>>) \in StateOf(Item)
    BY EmptySeq, NoTurnType
  <2>3. Replay(Read, NoTurn(<<>>), Append(Records, commit.record))
          = Read(Replay(Read, NoTurn(<<>>), Records), commit.record)
    BY <2>1, <2>2, ReadsOneMore
  <2>4. Replay(Project, EmptyRows, Append(Records, commit.record))
          = Project(Replay(Project, EmptyRows, Records), commit.record)
    BY <2>1, EmptyRowsType, ProjectsOneMore
  <2>5. Latest' = Read(Latest, commit.record)
    BY <1>3, <2>3 DEF Grew, Latest
  <2>6. Told' = Project(Told, commit.record)
    BY <1>3, <2>4 DEF Grew, Told
  <2> QED BY <2>1, <2>5, <2>6
<1> QED BY <1>1, <1>2, <1>3 DEF Kept, Grew

(* The Turn the file is at is open.                                        *)
AtAnOpenTurn == Latest.turn # 0 => Told.status[Latest.turn] \in OpenTurn

LEMMA KindsAre ==
  ASSUME NEW Item, NEW r \in RecordOf(Item)
  PROVE  /\ r.kind \in {"created", "checkpoint", "updated"} /\ r.turn \in Turns /\ r.turn # 0
         /\ r.acks \in FewInputs
         /\ r.kind = "created" => r \in CreatedRecord
         /\ r.kind = "checkpoint" => r \in CheckpointRecord(Item)
         /\ r.kind = "updated" => r \in UpdatedRecord /\ r.status \in {"Running"} \cup TerminalTurn
<1>1. {} \in FewInputs
  BY FS_EmptySet DEF FewInputs
<1> QED BY <1>1, RolloutAssumption DEF RecordOf, CreatedRecord, CheckpointRecord, UpdatedRecord

(* What a record makes of the Turns                                        *)
LEMMA StatusAfter ==
  ASSUME NEW Item, NEW db \in RowsType, NEW r \in RecordOf(Item)
  PROVE  /\ Project(db, r) \in RowsType
         /\ r.kind = "created" => Project(db, r).status = [db.status EXCEPT ![r.turn] = "Queued"]
         /\ r.kind = "checkpoint" => Project(db, r).status = db.status
         /\ r.kind = "updated" => Project(db, r).status = [db.status EXCEPT ![r.turn] = r.status]
<1>1. Project(db, r) \in RowsType
  BY ProjectType
<1>2. CASE r.kind = "created"
  BY <1>1, <1>2, KindsAre, ProjectCreated
<1>3. CASE r.kind = "checkpoint"
  BY <1>1, <1>3, KindsAre, ProjectCheckpoint
<1>4. CASE r.kind = "updated"
  BY <1>1, <1>4, KindsAre, ProjectUpdated
<1> QED BY <1>2, <1>3, <1>4, KindsAre

LEMMA TurnAfter ==
  ASSUME NEW Item, NEW S \in StateOf(Item), NEW r \in RecordOf(Item)
  PROVE  /\ Read(S, r) \in StateOf(Item)
         /\ r.kind = "created" => Read(S, r).turn = r.turn
         /\ r.kind = "checkpoint" => Read(S, r).turn = S.turn
         /\ r.kind = "updated" => Read(S, r).turn = IF r.status \in TerminalTurn THEN 0 ELSE S.turn
<1>1. Read(S, r) \in StateOf(Item)
  BY ReadType
<1>2. CASE r.kind = "created"
  BY <1>1, <1>2, KindsAre, ReadCreated
<1>3. CASE r.kind = "checkpoint"
  BY <1>1, <1>3, KindsAre, ReadCheckpoint
<1>4. CASE r.kind = "updated"
  BY <1>1, <1>4, KindsAre, ReadUpdated DEF TerminalTurn, NoTurn
<1> QED BY <1>2, <1>3, <1>4, KindsAre

LEMMA StaysAtAnOpenTurn ==
  ASSUME NEW Item, NEW S \in StateOf(Item), NEW db \in RowsType, NEW r \in RecordOf(Item),
         S.turn # 0 => db.status[S.turn] \in OpenTurn
  PROVE  Read(S, r).turn # 0 => Project(db, r).status[Read(S, r).turn] \in OpenTurn
<1> DEFINE next == Project(db, r)
           after == Read(S, r)
<1>1. /\ r.kind \in {"created", "checkpoint", "updated"} /\ r.turn \in Turns
      /\ r.kind = "updated" => r.status \in {"Running"} \cup TerminalTurn
  BY KindsAre
<1>2. db.status \in [Turns -> {"none"} \cup OpenTurn \cup TerminalTurn]
  BY RowsAreARecord
<1>3. S.turn \in Turns \cup {0}
  BY DEF StateOf
<1>4. /\ r.kind = "created" => next.status = [db.status EXCEPT ![r.turn] = "Queued"]
      /\ r.kind = "checkpoint" => next.status = db.status
      /\ r.kind = "updated" => next.status = [db.status EXCEPT ![r.turn] = r.status]
  BY StatusAfter
<1>5. /\ r.kind = "created" => after.turn = r.turn
      /\ r.kind = "checkpoint" => after.turn = S.turn
      /\ r.kind = "updated" => after.turn = IF r.status \in TerminalTurn THEN 0 ELSE S.turn
  BY TurnAfter
<1> HIDE DEF next, after
<1>6. after.turn # 0 => next.status[after.turn] \in OpenTurn
  <2>7. CASE r.kind = "created"
    BY <1>1, <1>2, <1>4, <1>5, <2>7 DEF OpenTurn
  <2>8. CASE r.kind = "checkpoint"
    BY <1>4, <1>5, <2>8
  <2>9. CASE r.kind = "updated"
    <3>1. CASE r.status \in TerminalTurn
      BY <1>5, <2>9, <3>1
    <3>2. CASE r.status = "Running"
      BY <1>1, <1>2, <1>3, <1>4, <1>5, <2>9, <3>2 DEF OpenTurn, TerminalTurn
    <3> QED BY <1>1, <2>9, <3>1, <3>2
  <2> QED BY <1>1, <2>7, <2>8, <2>9
<1> QED BY <1>6 DEF next, after

LEMMA AtAnOpenTurnStep ==
  ASSUME NEW Item, StoreType(Item), StoreIsInOrder, StoreAction(Item), AtAnOpenTurn
  PROVE  AtAnOpenTurn'
<1>1. CASE Latest' = Latest /\ Told' = Told
  BY <1>1 DEF AtAnOpenTurn
<1>2. CASE /\ commit.record \in RecordOf(Item)
           /\ Latest' = Read(Latest, commit.record) /\ Told' = Project(Told, commit.record)
  <2>1. Latest \in StateOf(Item) /\ Told \in RowsType
    BY LatestType, ToldType
  <2>2. PICK S \in StateOf(Item) : S = Latest
    BY <2>1
  <2>3. PICK db \in RowsType : db = Told
    BY <2>1
  <2>4. PICK r \in RecordOf(Item) : r = commit.record
    BY <1>2
  <2>5. S.turn # 0 => db.status[S.turn] \in OpenTurn
    BY <2>2, <2>3 DEF AtAnOpenTurn
  <2>6. Read(S, r).turn # 0 => Project(db, r).status[Read(S, r).turn] \in OpenTurn
    BY <2>5, StaysAtAnOpenTurn
  <2>7. Latest' = Read(S, r) /\ Told' = Project(db, r)
    BY <1>2, <2>2, <2>3, <2>4
  <2> QED BY <2>6, <2>7 DEF AtAnOpenTurn
<1> QED BY <1>1, <1>2, ToldStep

(* At most one Turn is open, in the rows and in what the file says.        *)
NoneOpen(db) == \A t \in Turns : db.status[t] \notin OpenTurn
OneOpen(db) == \A t, u \in Turns : db.status[t] \in OpenTurn /\ db.status[u] \in OpenTurn => t = u
Fits(db, r) ==
  /\ r.kind = "created" => NoneOpen(db)
  /\ r.kind = "updated" /\ r.status = "Running" => db.status[r.turn] \in OpenTurn

Lagging == ~damaged /\ ~Projecting /\ projected # Len(file)

OneTurnIsOpen ==
  /\ OneOpen(rows)
  /\ ~damaged => OneOpen(Told)

LEMMA ProjectKeepsOneOpen ==
  ASSUME NEW Item, NEW db \in RowsType, NEW r \in RecordOf(Item), OneOpen(db), Fits(db, r)
  PROVE  OneOpen(Project(db, r))
<1> DEFINE next == Project(db, r)
<1>1. /\ r.kind \in {"created", "checkpoint", "updated"} /\ r.turn \in Turns
      /\ r.kind = "updated" => r.status \in {"Running"} \cup TerminalTurn
  BY KindsAre
<1>2. db.status \in [Turns -> {"none"} \cup OpenTurn \cup TerminalTurn]
  BY RowsAreARecord
<1>3. /\ r.kind = "created" => next.status = [db.status EXCEPT ![r.turn] = "Queued"]
      /\ r.kind = "checkpoint" => next.status = db.status
      /\ r.kind = "updated" => next.status = [db.status EXCEPT ![r.turn] = r.status]
  BY StatusAfter
<1> HIDE DEF next
<1>4. OneOpen(next)
  <2>1. CASE r.kind = "created"
    BY <1>1, <1>2, <1>3, <2>1 DEF Fits, OneOpen, NoneOpen
  <2>2. CASE r.kind = "checkpoint"
    BY <1>3, <2>2 DEF OneOpen
  <2>3. CASE r.kind = "updated"
    <3>1. CASE r.status = "Running"
      BY <1>1, <1>2, <1>3, <2>3, <3>1 DEF Fits, OneOpen
    <3>2. CASE r.status \in TerminalTurn
      <4>1. r.status \notin OpenTurn
        BY <3>2 DEF TerminalTurn, OpenTurn
      <4> QED BY <1>1, <1>2, <1>3, <2>3, <4>1 DEF OneOpen
    <3> QED BY <1>1, <2>3, <3>1, <3>2
  <2> QED BY <1>1, <2>1, <2>2, <2>3
<1> QED BY <1>4 DEF next

LEMMA ToldAgrees ==
  ASSUME NEW Item, StoreType(Item), StoreIsInOrder, ~damaged, Whole = <<>>, projected = Len(file)
  PROVE  Agree(rows, Told)
<1>1. Records = file /\ file \in Seq(RecordOf(Item))
  BY WholeType, ConcatEmptySeq DEF StoreType, Records
<1>2. Upto(EmptyRows, file, Len(file)) = Replay(Project, EmptyRows, file)
  BY <1>1, EmptyRowsType, ProjectUpto
<1> QED BY <1>1, <1>2 DEF StoreIsInOrder, Told

(* The calls that neither write the file nor project it: what is said of   *)
(* Turns stays, in the rows and in the file.                               *)
StandsStill ==
  /\ UNCHANGED <<file, trailing, damaged, projected>>
  /\ rows'.status = rows.status /\ rows'.used = rows.used
  /\ Records' = Records /\ Latest' = Latest /\ Told' = Told /\ Whole' = Whole
  /\ Canonical' = Canonical

LEMMA QuietStep ==
  ASSUME rows \in RowsType,
         \/ UNCHANGED rolloutVars \/ RowsOnly \/ Retry \/ \E r : Commit(r)
  PROVE  StandsStill
<1>1. UNCHANGED <<file, trailing, damaged, projected>>
  BY RowsOnlyStep DEF rolloutVars, Retry, Commit
<1>2. rows'.status = rows.status /\ rows'.used = rows.used
  BY RowsOnlyStep DEF rolloutVars, Retry, Commit, OnlyInputs, Agree
<1>3. Records' = Records /\ Latest' = Latest /\ Told' = Told /\ Whole' = Whole /\ Canonical' = Canonical
  BY <1>1 DEF Records, Whole, Latest, Told, Canonical
<1> QED BY <1>1, <1>2, <1>3 DEF StandsStill

MayLag(r) == r.kind # "created" /\ (r.kind = "updated" => r.status # "Running")

LEMMA TurnsStep ==
  ASSUME NEW Item, StoreType(Item), StoreIsInOrder, StoreAction(Item), OneTurnIsOpen,
         commit # Idle => Fits(rows, commit.record),
         Lagging /\ commit # Idle => MayLag(commit.record)
  PROVE  OneTurnIsOpen'
<1>1. rows \in RowsType /\ Told \in RowsType /\ rows' \in RowsType
  BY ToldType, StoreTypeStep DEF StoreType
<1>2. ASSUME ~damaged' PROVE ~damaged /\ OneOpen(Told')
  <2>1. ~damaged
    <3>1. damaged' = damaged \/ damaged' = TRUE \/ ~damaged
      BY RowsOnlyStep DEF StoreAction, StoreType, RowsOnly, Commit, AppendRecord,
            ProjectRecord, AppendFails, Scan, Reopen, Retry, rolloutVars
    <3> QED BY <1>2, <3>1
  <2>2. CASE Told' = Told
    BY <2>1, <2>2 DEF OneTurnIsOpen
  <2>3. CASE Adding /\ commit.record \in RecordOf(Item) /\ Told' = Project(Told, commit.record)
    <3>1. PICK r \in RecordOf(Item) : r = commit.record
      BY <2>3
    <3>2. commit # Idle /\ ~Projecting /\ trailing = <<>>
      BY <2>3, CommitTypes DEF Adding
    <3>3. Fits(Told, r)
      <4>1. CASE projected = Len(file)
        <5>1. Agree(rows, Told)
          BY <2>1, <3>2, <4>1, ToldType
        <5>2. Fits(rows, r)
          BY <3>1, <3>2
        <5> QED BY <5>1, <5>2 DEF Fits, Agree, NoneOpen
      <4>2. CASE projected # Len(file)
        BY <2>1, <3>1, <3>2, <4>2 DEF Lagging, MayLag, Fits
      <4> QED BY <4>1, <4>2
    <3>4. OneOpen(Project(Told, r))
      BY <1>1, <2>1, <3>3, ProjectKeepsOneOpen DEF OneTurnIsOpen
    <3> QED BY <2>1, <2>3, <3>1, <3>4
  <2> QED BY <2>1, <2>2, <2>3, ToldStep
<1>3. OneOpen(rows')
  <2>1. CASE rows' = rows
    BY <2>1 DEF OneTurnIsOpen
  <2>2. CASE commit # Idle /\ rows' = Project(rows, commit.record)
    <3>1. PICK r \in RecordOf(Item) : r = commit.record
      BY <2>2, CommitTypes
    <3>2. Fits(rows, r)
      BY <2>2, <3>1
    <3>3. OneOpen(Project(rows, r))
      BY <1>1, <3>2, ProjectKeepsOneOpen DEF OneTurnIsOpen
    <3> QED BY <2>2, <3>1, <3>3
  <2>3. CASE RowsOnly
    BY <1>1, <2>3, RowsOnlyStep DEF OneTurnIsOpen, OneOpen, OnlyInputs, Agree
  <2>4. ASSUME NEW survives \in BOOLEAN, Reopen(survives) PROVE OneOpen(rows')
    <3>1. ~damaged' /\ trailing' = <<>> /\ file' \in Seq(RecordOf(Item))
          /\ Agree(rows', Upto(EmptyRows, file', Len(file')))
      BY <2>4, ReopenIs, ReopenedRows
    <3>2. Records' = file'
      BY <3>1, StoreTypeStep, WholeTypeNext
    <3>3. Upto(EmptyRows, file', Len(file')) = Replay(Project, EmptyRows, file')
      BY <3>1, EmptyRowsType, ProjectUpto
    <3>4. Agree(rows', Told')
      BY <3>1, <3>2, <3>3 DEF Told
    <3> QED BY <1>2, <3>1, <3>4 DEF Agree, OneOpen
  <2> QED BY <2>1, <2>2, <2>3, <2>4, CommitTypes
          DEF StoreAction, RowsOnly, Commit, AppendRecord, ProjectRecord, AppendFails,
              Scan, Retry, rolloutVars, Committing, Projecting
<1> QED BY <1>2, <1>3 DEF OneTurnIsOpen

(* The steps that write the file or project it                             *)
Unmoved == Records' = Records /\ Latest' = Latest /\ Told' = Told
Joined ==
  /\ Adding /\ Records' = Append(Records, commit.record)
  /\ Latest' = Read(Latest, commit.record) /\ Told' = Project(Told, commit.record)

LEMMA AppendFailsIs ==
  ASSUME NEW Item, StoreType(Item), StoreIsInOrder, AppendFails
  PROVE  /\ Committing /\ commit # Idle /\ commit' = Idle
         /\ UNCHANGED <<file, damaged, rows, projected>>
         /\ (Unmoved /\ Whole' = Whole) \/ Joined
<1>1. Committing /\ commit # Idle /\ commit' = Idle /\ UNCHANGED <<file, damaged, rows, projected>>
  <2>1. Committing /\ commit' = Idle /\ UNCHANGED <<file, damaged, rows, projected>>
    BY DEF AppendFails, Committing
  <2> QED BY <2>1, CommitTypes
<1>2. CASE Unmoved
  <2>1. CASE UNCHANGED trailing
    BY <1>1, <1>2, <2>1 DEF Whole
  <2>2. CASE trailing = <<>> /\ trailing' = <<Torn>>
    BY <1>1, <1>2, <2>2 DEF Whole
  <2>3. CASE trailing = <<>> /\ trailing' = <<commit.record>>
    <3>1. StoreType(Item)' /\ commit.record \in RecordOf(Item) /\ file \in Seq(RecordOf(Item))
      BY <1>1, StoreTypeStep, CommitTypes DEF StoreAction, StoreType
    <3>2. Records' = Append(file', commit.record)
      BY <2>3, <3>1, WholeTypeNext
    <3>3. Records = file
      BY <2>3, WholeType
    <3>4. Len(Append(file, commit.record)) = Len(file) + 1 /\ Len(file) \in Nat
      BY <3>1, AppendProperties, LenProperties
    <3>5. Records' # Records
      BY <1>1, <3>2, <3>3, <3>4
    <3> QED BY <1>2, <3>5 DEF Unmoved
  <2>4. UNCHANGED trailing \/ (trailing = <<>> /\ trailing' \in {<<Torn>>, <<commit.record>>})
    BY DEF AppendFails
  <2> QED BY <2>1, <2>2, <2>3, <2>4
<1>3. CASE Joined
  BY <1>1, <1>3
<1> QED BY <1>2, <1>3, ToldStep DEF StoreAction, Unmoved, Joined

LEMMA CommitStepIs ==
  ASSUME NEW Item, StoreType(Item), StoreIsInOrder, AppendRecord \/ ProjectRecord
  PROVE  /\ commit # Idle
         /\ \/ /\ Joined /\ UNCHANGED rows /\ Projecting' /\ ~damaged /\ ~damaged'
               /\ commit' # Idle /\ commit'.record = commit.record
            \/ /\ Unmoved /\ rows' = Project(rows, commit.record) /\ commit' = Idle
               /\ damaged' \/ (Projecting /\ ~damaged /\ Whole' = <<>> /\ projected' = Len(file'))
<1>1. CASE AppendRecord
  <2>1. Committing /\ ~Projecting /\ commit # Idle /\ commit.record \in RecordOf(Item)
    BY <1>1, CommitTypes DEF AppendRecord, Committing
  <2>2. CASE ~damaged /\ trailing = <<>> /\ projected = Len(file)
    <3>1. /\ file' = Append(file, commit.record) /\ UNCHANGED <<damaged, rows, trailing>>
          /\ commit' = [at |-> "project", record |-> commit.record]
      BY <1>1, <2>1, <2>2, CommitTypes DEF AppendRecord
    <3>2. Projecting' /\ commit'.record = commit.record /\ commit' # Idle
      BY <3>1 DEF Projecting, Idle
    <3>3. Joined
      <4>1. Records = file /\ file \in Seq(RecordOf(Item))
        BY <2>2, WholeType DEF StoreType
      <4>2. Len(Append(file, commit.record)) = Len(file) + 1 /\ Len(file) \in Nat
        BY <2>1, <4>1, AppendProperties, LenProperties
      <4>3. Records' = Append(file, commit.record)
        BY <2>2, <3>1, StoreTypeStep, WholeTypeNext DEF StoreAction
      <4>4. Records' # Records
        BY <4>1, <4>2, <4>3
      <4> QED BY <1>1, <4>4, ToldStep DEF StoreAction, Joined
    <3> QED BY <2>1, <2>2, <3>1, <3>2, <3>3
  <2>3. CASE ~(~damaged /\ trailing = <<>> /\ projected = Len(file))
    <3>1. /\ damaged' /\ rows' = Project(rows, commit.record) /\ commit' = Idle
          /\ UNCHANGED <<file, trailing>>
      BY <1>1, <2>3 DEF AppendRecord
    <3>2. Unmoved
      BY <3>1 DEF Unmoved, Records, Whole, Latest, Told
    <3> QED BY <2>1, <3>1, <3>2
  <2> QED BY <2>2, <2>3
<1>2. CASE ProjectRecord
  <2>1. Projecting /\ commit # Idle /\ projected + 1 = Len(file) /\ trailing = <<>> /\ ~damaged
    BY <1>2, CommitTypes DEF ProjectRecord, Projecting, StoreIsInOrder
  <2>2. /\ rows' = Project(rows, commit.record) /\ commit' = Idle
        /\ projected' = projected + 1 /\ UNCHANGED <<file, trailing, damaged>>
    BY <1>2 DEF ProjectRecord
  <2>3. Unmoved /\ Whole' = <<>>
    BY <2>1, <2>2 DEF Unmoved, Records, Whole, Latest, Told
  <2> QED BY <2>1, <2>2, <2>3
<1> QED BY <1>1, <1>2

LEMMA ReopenDone ==
  ASSUME NEW Item, StoreType(Item), StoreIsInOrder, NEW survives \in BOOLEAN, Reopen(survives)
  PROVE  /\ ~damaged /\ ~damaged' /\ commit' = Idle /\ Whole' = <<>> /\ trailing' = <<>>
         /\ projected' = Len(file') /\ file' = Records'
         /\ Unmoved \/ Joined
<1>1. ~damaged /\ ~damaged' /\ commit' = Idle /\ trailing' = <<>> /\ projected' = Len(file')
  BY ReopenIs
<1>2. Whole' = <<>>
  BY <1>1 DEF Whole
<1>3. file' = Records'
  BY <1>1, StoreTypeStep, WholeTypeNext DEF StoreAction
<1> QED BY <1>1, <1>2, <1>3, ToldStep DEF StoreAction, Unmoved, Joined
=============================================================================
