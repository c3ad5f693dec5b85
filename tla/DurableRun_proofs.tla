-------------------------- MODULE DurableRun_proofs --------------------------
(***************************************************************************)
(* What a durable run promises for every program and every journal,        *)
(* crashes and restarts included, from what it relies on the evaluator     *)
(* for: that branches stand apart, that Actions keep their guard, and that *)
(* the program is deterministic in the answers to its effects.             *)
(***************************************************************************)
EXTENDS DurableRun, FiniteSetTheorems, SequenceTheorems, TLAPS

IsASequence(s) == \E S : s \in Seq(S)

(* A past grows at its end.                                                *)
LEMMA Appended ==
  ASSUME NEW s, IsASequence(s), NEW e
  PROVE  /\ IsASequence(Append(s, e))
         /\ Len(Append(s, e)) = Len(s) + 1
         /\ Len(s) \in Nat
         /\ DOMAIN s = 1..Len(s)
         /\ DOMAIN Append(s, e) = 1..(Len(s) + 1)
         /\ Append(s, e)[Len(s) + 1] = e
         /\ \A i \in 1..Len(s) : Append(s, e)[i] = s[i]
<1>1. PICK S : s \in Seq(S)
  BY DEF IsASequence
<1>2. PICK T : T = S \cup {e}
  OBVIOUS
<1>3. s \in Seq(T) /\ e \in T
  <2>1. \A i \in 1..Len(s) : s[i] \in T
    BY <1>1, <1>2
  <2> QED BY <1>1, <1>2, <2>1, SeqMonotonic
<1>4. Append(s, e) \in Seq(T)
  BY <1>3
<1> QED BY <1>3, <1>4 DEF IsASequence

LEMMA NothingYet == IsASequence(<<>>) /\ Len(<<>>) = 0 /\ DOMAIN <<>> = {}
<1>1. <<>> \in Seq({})
  OBVIOUS
<1> QED BY <1>1 DEF IsASequence

LEMMA Remembered ==
  ASSUME IsASequence(past), NEW request, NEW out, Remember(request, out)
  PROVE  /\ IsASequence(past') /\ GoesOn
         /\ Event = [request |-> request, out |-> out]
         /\ now' = Position(program, past')
<1>1. PICK e : e = [request |-> request, out |-> out]
  OBVIOUS
<1>2. past' = Append(past, e) /\ now' = Position(program, past')
  BY <1>1 DEF Remember, Evaluates
<1> QED BY <1>1, <1>2, Appended DEF GoesOn, Event
-----------------------------------------------------------------------------
(* Branches stand apart                                                    *)

AwaitedBy(k) ==
  \E q \in now.front : /\ q[1] = k /\ IsEffect(q)
                       /\ k \in DOMAIN journal /\ journal[k].request = Asked(q)

(* An effect under way is waited for, and no effect is under way outside a *)
(* Runtime.                                                                *)
HandledIsAwaited ==
  /\ IsASequence(past)
  /\ phase # "running" => handling = {}
  /\ now.f = "suspended" => now.front = {}
  /\ \A q, r \in now.front : q[1] = r[1] => q[2] = r[2]
  /\ \A k \in handling : AwaitedBy(k)

(* An event leaves the other effects under way awaited.                    *)
LEMMA OthersAwaited ==
  ASSUME HandledIsAwaited, AnswersMoveTheirBranch, NEW request, NEW out,
         Remember(request, out),
         handling' \subseteq handling, request[1] \notin handling',
         \A k \in handling' : /\ k \in DOMAIN journal => k \in DOMAIN journal'
                              /\ journal'[k].request = journal[k].request
  PROVE  /\ IsASequence(past') /\ \A k \in handling' : AwaitedBy(k)'
         /\ now'.f = "suspended" => now'.front = {}
         /\ \A q, r \in now'.front : q[1] = r[1] => q[2] = r[2]
<1>1. IsASequence(past') /\ GoesOn /\ Event.request = request
  BY Remembered DEF HandledIsAwaited
<1>2. ASSUME NEW k \in handling'
      PROVE  AwaitedBy(k)'
  <2>1. PICK q \in now.front : /\ q[1] = k /\ IsEffect(q)
                               /\ k \in DOMAIN journal /\ journal[k].request = Asked(q)
    BY DEF HandledIsAwaited, AwaitedBy
  <2>2. q \in now'.front
    BY <1>1, <1>2, <2>1 DEF AnswersMoveTheirBranch
  <2>3. k \in DOMAIN journal' /\ journal'[k].request = Asked(q)
    BY <2>1
  <2> QED BY <2>1, <2>2, <2>3 DEF AwaitedBy
<1> QED BY <1>1, <1>2 DEF AnswersMoveTheirBranch

(* An event that is no effect's concerns no effect under way.              *)
LEMMA EffectsApart ==
  ASSUME HandledIsAwaited, NEW request \in now.front, ~IsEffect(request)
  PROVE  request[1] \notin handling
<1>1. SUFFICES ASSUME request[1] \in handling PROVE FALSE
  OBVIOUS
<1>2. PICK q \in now.front : q[1] = request[1] /\ IsEffect(q)
  BY <1>1 DEF HandledIsAwaited, AwaitedBy
<1> QED BY <1>2 DEF HandledIsAwaited, IsEffect

(* What happens to a request in a step: it is taken on, or it is answered. *)
TakenOn(request) ==
  /\ UNCHANGED <<past, now, phase>>
  /\ phase = "running" /\ IsEffect(request)
  /\ request[1] \in DOMAIN journal' /\ journal'[request[1]].request = Asked(request)
  /\ \A k \in DOMAIN journal : k \in DOMAIN journal' /\ journal'[k].request = journal[k].request
  /\ handling' = handling \cup {request[1]}

Met(request) ==
  /\ \E out : /\ Remember(request, out)
              /\ request[2] = "guard" => ~(out[1] = "held" /\ request[4] \in now.held)
  /\ phase = "running" /\ phase' = phase
  /\ DOMAIN journal' = DOMAIN journal
  /\ \A k \in handling' : journal'[k].request = journal[k].request
  /\ handling' = handling \ {request[1]}

LEMMA RequestStep ==
  ASSUME HandledIsAwaited, NEW request \in now.front, Step(request)
  PROVE  TakenOn(request) \/ Met(request)
<1>1. CASE Begin(request)
  <2>1. /\ phase = "running" /\ IsEffect(request) /\ phase' = phase
        /\ request[1] \notin handling
    BY <1>1 DEF Begin
  <2>2. CASE request[1] \notin DOMAIN journal
    <3>1. /\ journal' = [k \in DOMAIN journal \cup {request[1]} |->
                           IF k = request[1] THEN Row(Asked(request), "started", NoResult)
                           ELSE journal[k]]
          /\ handling' = handling \cup {request[1]} /\ UNCHANGED <<past, now>>
      BY <1>1, <2>2 DEF Begin, run
    <3>2. /\ journal'[request[1]].request = Asked(request)
          /\ request[1] \in DOMAIN journal'
          /\ \A k \in DOMAIN journal : k \in DOMAIN journal' /\ journal'[k] = journal[k]
      BY <2>2, <3>1 DEF Row
    <3> QED BY <2>1, <3>1, <3>2 DEF TakenOn
  <2>3. CASE /\ request[1] \in DOMAIN journal
             /\ journal[request[1]].request = Asked(request)
             /\ journal[request[1]].status = "started"
    <3>1. /\ handling' = handling \cup {request[1]} /\ UNCHANGED <<journal, past, now>>
      BY <1>1, <2>3 DEF Begin, run
    <3> QED BY <2>1, <2>3, <3>1 DEF TakenOn
  <2>4. CASE /\ request[1] \in DOMAIN journal
             /\ ~(/\ journal[request[1]].request = Asked(request)
                  /\ journal[request[1]].status = "started")
    <3>1. /\ \E out : Remember(request, out)
          /\ UNCHANGED <<journal, handling>>
      BY <1>1, <2>4 DEF Begin
    <3>2. request[2] # "guard"
      BY <2>1 DEF IsEffect
    <3> QED BY <2>1, <3>1, <3>2 DEF Met
  <2> QED BY <2>2, <2>3, <2>4
<1>2. ASSUME NEW status, NEW result, Settle(request, status, result)
      PROVE  Met(request)
  <2>1. /\ phase = "running" /\ phase' = phase /\ request[1] \in handling
        /\ handling' = handling \ {request[1]}
        /\ Remember(request, <<status, result>>)
    BY <1>2 DEF Settle, Listening
  <2>2. /\ DOMAIN journal' = DOMAIN journal
        /\ \A k \in DOMAIN journal : k # request[1] => journal'[k] = journal[k]
    BY <1>2 DEF Settle
  <2>3. request[2] # "guard"
    BY <2>1, EffectsApart DEF IsEffect
  <2>4. \A k \in handling' : k \in DOMAIN journal /\ k # request[1]
    BY <2>1 DEF HandledIsAwaited, AwaitedBy
  <2> QED BY <2>1, <2>2, <2>3, <2>4 DEF Met
<1>3. CASE Answered(request)
  BY <1>2, <1>3 DEF Answered
<1>4. CASE FailedEffect(request)
  BY <1>2, <1>4 DEF FailedEffect
<1>5. CASE Suspends(request)
  BY <1>5 DEF Suspends, Listening, Met
<1>6. CASE Acquire(request)
  <2>1. PICK word : word = IF request[4] \in now.held THEN "refused" ELSE "held"
    OBVIOUS
  <2>2. /\ Remember(request, <<word, NoResult>>)
        /\ ~(word = "held" /\ request[4] \in now.held)
        /\ phase = "running" /\ phase' = phase
        /\ journal' = journal /\ handling' = handling /\ ~IsEffect(request)
    BY <1>6, <2>1 DEF Acquire, Listening, IsEffect
  <2>3. request[1] \notin handling
    BY <2>2, EffectsApart
  <2> QED BY <2>2, <2>3 DEF Met
<1>7. CASE Read(request)
  <2>1. /\ Remember(request, <<"done", LatestAccess(past, request[4])>>)
        /\ phase = "running" /\ phase' = phase /\ request[2] = "read"
        /\ journal' = journal /\ handling' = handling
    BY <1>7 DEF Read, Listening
  <2>2. request[1] \notin handling
    BY <2>1, EffectsApart DEF IsEffect
  <2> QED BY <2>1, <2>2 DEF Met
<1> QED BY <1>1, <1>3, <1>4, <1>5, <1>6, <1>7 DEF Step

(* The steps that are not about a request: the run is entered, left, or    *)
(* begun again.                                                            *)
Entered ==
  /\ past' = <<>> /\ now' = Position(program, past')
  /\ phase' = "running" /\ handling' = {} /\ journal' = journal

LEMMA RunStep ==
  ASSUME HandledIsAwaited, [Next]_vars
  PROVE  \/ Entered
         \/ UNCHANGED <<past, now, journal>> /\ handling' = {}
         \/ UNCHANGED <<past, now, journal, handling, phase>>
         \/ \E request \in now.front : Step(request)
<1>1. CASE Compile
  BY <1>1 DEF Compile, Entered, Evaluates, run, HandledIsAwaited
<1>2. CASE Ends
  BY <1>2 DEF Ends, run
<1>3. CASE Resume \/ Crash
  BY <1>3 DEF Resume, Crash, Restarts, Evaluates, Entered
<1>4. CASE UNCHANGED vars
  BY <1>4 DEF vars, run
<1> QED BY <1>1, <1>2, <1>3, <1>4 DEF Next

LEMMA HandledStart == Init => HandledIsAwaited
BY NothingYet DEF Init, HandledIsAwaited, Unborn

LEMMA HandledStep ==
  ASSUME HandledIsAwaited, [Next]_vars, [AnswersMoveTheirBranch]_vars
  PROVE  HandledIsAwaited'
<1>1. CASE UNCHANGED <<past, now, journal>> /\ handling' = {}
  BY <1>1 DEF HandledIsAwaited
<1>2. CASE UNCHANGED <<past, now, journal, handling, phase>>
  BY <1>2 DEF HandledIsAwaited, AwaitedBy
<1>3. CASE Entered /\ AnswersMoveTheirBranch
  BY <1>3, NothingYet DEF Entered, AnswersMoveTheirBranch, HandledIsAwaited
<1>4. ASSUME NEW request \in now.front, TakenOn(request)
      PROVE  HandledIsAwaited'
  <2>1. ASSUME NEW k \in handling'
        PROVE  AwaitedBy(k)'
    <3>1. CASE k = request[1]
      BY <1>4, <3>1 DEF TakenOn, AwaitedBy
    <3>2. CASE k \in handling
      BY <1>4, <3>2 DEF TakenOn, AwaitedBy, HandledIsAwaited
    <3> QED BY <1>4, <3>1, <3>2 DEF TakenOn
  <2> QED BY <1>4, <2>1 DEF TakenOn, HandledIsAwaited
<1>5. ASSUME NEW request \in now.front, Met(request), AnswersMoveTheirBranch
      PROVE  HandledIsAwaited'
  <2>1. PICK out : Remember(request, out)
    BY <1>5 DEF Met
  <2>2. /\ handling' \subseteq handling /\ request[1] \notin handling'
        /\ \A k \in handling' : /\ k \in DOMAIN journal => k \in DOMAIN journal'
                                /\ journal'[k].request = journal[k].request
        /\ phase' = "running"
    BY <1>5 DEF Met
  <2> QED BY <1>5, <2>1, <2>2, OthersAwaited DEF HandledIsAwaited
<1>6. CASE AnswersMoveTheirBranch
  BY <1>1, <1>2, <1>3, <1>4, <1>5, <1>6, RunStep, RequestStep
<1>7. CASE UNCHANGED vars
  BY <1>2, <1>7 DEF vars, run
<1> QED BY <1>6, <1>7

LEMMA HandledIsStill == HandledIsAwaited => SuspensionsAreStable
<1> SUFFICES ASSUME HandledIsAwaited, now.f = "suspended"
             PROVE  now.front = {} /\ handling = {}
  BY DEF SuspensionsAreStable
<1>1. now.front = {}
  BY DEF HandledIsAwaited
<1>2. \A k \in handling : FALSE
  BY <1>1 DEF HandledIsAwaited, AwaitedBy
<1> QED BY <1>1, <1>2

(* A run that suspends leaves no effect under way, for any program, number *)
(* of branches, permits and crashes, if evaluation is orderly.             *)
THEOREM SuspendedRunsAreStill ==
  Spec /\ EvaluationIsOrderly => []SuspensionsAreStable
<1>1. Init => HandledIsAwaited
  BY HandledStart
<1>2. HandledIsAwaited /\ [Next]_vars /\ [AnswersMoveTheirBranch /\ InvocationsAreGuarded]_vars
        => HandledIsAwaited'
  BY HandledStep
<1>3. HandledIsAwaited => SuspensionsAreStable
  BY HandledIsStill
<1> QED BY <1>1, <1>2, <1>3, PTL DEF Spec, EvaluationIsOrderly
-----------------------------------------------------------------------------
(* Actions keep their guard                                                *)

(* Who invokes an Action holds its Agent, and is the only one to.          *)
AgentsAreHeld ==
  /\ \A q \in Invoked(now) : AgentOf(q) \in now.held
  /\ \A q, r \in Invoked(now) : AgentOf(q) = AgentOf(r) => q = r

LEMMA InvocationsMet ==
  ASSUME HandledIsAwaited, AgentsAreHeld, AnswersMoveTheirBranch, InvocationsAreGuarded,
         NEW request \in now.front, Met(request)
  PROVE  AgentsAreHeld'
<1>1. PICK out : /\ Remember(request, out)
                 /\ request[2] = "guard" => ~(out[1] = "held" /\ request[4] \in now.held)
  BY DEF Met
<1>2. GoesOn /\ Event.request = request /\ Event.out = out
  BY <1>1, Remembered DEF HandledIsAwaited
<1>3. PICK new : new = Invoked(now') \ Invoked(now)
  OBVIOUS
<1>4. /\ \A q, r \in new : q = r
      /\ \A q \in new :
           \/ request[2] = "guard" /\ out[1] = "held" /\ request[4] = AgentOf(q)
           \/ request[2] = "invoke_action" /\ AgentOf(request) = AgentOf(q)
  BY <1>2, <1>3 DEF InvocationsAreGuarded
<1>5. ASSUME NEW q \in new, NEW r \in Invoked(now'), r \notin new, AgentOf(q) = AgentOf(r)
      PROVE  FALSE
  <2>1. r \in Invoked(now) /\ r # request /\ AgentOf(r) \in now.held
    BY <1>2, <1>3, <1>5 DEF AnswersMoveTheirBranch, Invoked, AgentsAreHeld
  <2>2. CASE request[2] = "guard" /\ out[1] = "held" /\ request[4] = AgentOf(q)
    BY <1>1, <1>5, <2>1, <2>2
  <2>3. CASE request[2] = "invoke_action" /\ AgentOf(request) = AgentOf(q)
    <3>1. request \in Invoked(now)
      BY <2>3 DEF Invoked
    <3> QED BY <1>5, <2>1, <2>3, <3>1 DEF AgentsAreHeld
  <2> QED BY <1>4, <2>2, <2>3
<1>6. \A q, r \in Invoked(now') : AgentOf(q) = AgentOf(r) => q = r
  <2> SUFFICES ASSUME NEW q \in Invoked(now'), NEW r \in Invoked(now'), AgentOf(q) = AgentOf(r)
               PROVE  q = r
    OBVIOUS
  <2>1. CASE q \in new /\ r \in new
    BY <1>4, <2>1
  <2>2. CASE q \notin new /\ r \notin new
    BY <1>3, <2>2 DEF AgentsAreHeld
  <2>3. CASE (q \in new /\ r \notin new) \/ (q \notin new /\ r \in new)
    BY <1>5, <2>3
  <2> QED BY <2>1, <2>2, <2>3
<1> QED BY <1>6 DEF AgentsAreHeld, InvocationsAreGuarded, Invoked

LEMMA HeldStart == Init => AgentsAreHeld
BY DEF Init, AgentsAreHeld, Unborn, Invoked

LEMMA HeldStep ==
  ASSUME HandledIsAwaited, AgentsAreHeld, [Next]_vars, [AnswersMoveTheirBranch]_vars,
         [InvocationsAreGuarded]_vars
  PROVE  AgentsAreHeld'
<1>1. CASE now' = now
  BY <1>1 DEF AgentsAreHeld, Invoked
<1>2. CASE Entered /\ InvocationsAreGuarded
  BY <1>2 DEF Entered, InvocationsAreGuarded, AgentsAreHeld, Invoked
<1>3. ASSUME NEW request \in now.front, Met(request), AnswersMoveTheirBranch,
             InvocationsAreGuarded
      PROVE  AgentsAreHeld'
  BY <1>3, InvocationsMet
<1>4. CASE UNCHANGED vars
  BY <1>1, <1>4 DEF vars, run
<1>5. CASE AnswersMoveTheirBranch /\ InvocationsAreGuarded
  BY <1>1, <1>2, <1>3, <1>5, RunStep, RequestStep DEF TakenOn
<1> QED BY <1>4, <1>5

LEMMA HeldIsOne == HandledIsAwaited /\ AgentsAreHeld => OneActionPerAgent
<1> SUFFICES ASSUME HandledIsAwaited, AgentsAreHeld, NEW k \in handling, NEW l \in handling,
                    k # l, journal[k].request[1] = "invoke_action",
                    journal[l].request[1] = "invoke_action"
             PROVE  journal[k].request[2][1] # journal[l].request[2][1]
  BY DEF OneActionPerAgent
<1>1. PICK q \in now.front : q[1] = k /\ journal[k].request = Asked(q)
  BY DEF HandledIsAwaited, AwaitedBy
<1>2. PICK r \in now.front : r[1] = l /\ journal[l].request = Asked(r)
  BY DEF HandledIsAwaited, AwaitedBy
<1>3. q \in Invoked(now) /\ r \in Invoked(now) /\ q # r
  BY <1>1, <1>2 DEF Invoked, Asked
<1> QED BY <1>1, <1>2, <1>3 DEF AgentsAreHeld, Asked, AgentOf

(* One Action of an Agent is under way at a time, for any program, Agents, *)
(* branches, permits and crashes, if evaluation is orderly.                *)
THEOREM AgentsActOneAtATime ==
  Spec /\ EvaluationIsOrderly => []OneActionPerAgent
<1>1. Init => HandledIsAwaited /\ AgentsAreHeld
  BY HandledStart, HeldStart
<1>2. HandledIsAwaited /\ AgentsAreHeld /\ [Next]_vars
        /\ [AnswersMoveTheirBranch /\ InvocationsAreGuarded]_vars => HandledIsAwaited' /\ AgentsAreHeld'
  BY HandledStep, HeldStep
<1>3. HandledIsAwaited /\ AgentsAreHeld => OneActionPerAgent
  BY HeldIsOne
<1> QED BY <1>1, <1>2, <1>3, PTL DEF Spec, EvaluationIsOrderly
-----------------------------------------------------------------------------
(* Replay                                                                  *)

Final(row) == row.status \in Settled

(* What a past says of effects that are settled, the journal says.         *)
Told(s, rows) ==
  \A i \in DOMAIN s :
    (IsEffect(s[i].request) /\ s[i].out[1] \in Settled) =>
      /\ s[i].request[1] \in DOMAIN rows
      /\ rows[s[i].request[1]].status = s[i].out[1]
      /\ rows[s[i].request[1]].result = s[i].out[2]

Prefix(s, n) == [i \in 1..n |-> s[i]]

(* The pasts a Runtime of the program can have: each event says what became *)
(* of a request the program waited for.                                    *)
Possible(p, s) ==
  /\ IsASequence(s)
  /\ \A i \in DOMAIN s :
       LET before == Prefix(s, i - 1)
       IN  /\ s[i].request \in Position(p, before).front
           /\ s[i].out \in Outcomes(p, before, s[i].request)

(* A program is deterministic if what it asks under a key and what it      *)
(* returns is decided by the answers to its durable effects, in whatever   *)
(* order its branches had them. (One that reads in one branch the access   *)
(* that another sets is not, and one that asks two things under one key.)  *)
Deterministic(p) ==
  \A s, t : Possible(p, s) /\ Possible(p, t) =>
    Alike(s, Position(p, s), t, Position(p, t))

(* Some life, of which the journal knows the answers, has asked this.      *)
AskedOnce(k) ==
  \E s : /\ Possible(program, s) /\ Told(s, journal)
         /\ \E q \in Position(program, s).front :
              q[1] = k /\ IsEffect(q) /\ Asked(q) = journal[k].request

(* Some life, of which the journal knows the answers, has returned this.   *)
ReturnedOnce(v) ==
  /\ Accepts(program)
  /\ \E s : /\ Possible(program, s) /\ Told(s, journal)
            /\ Position(program, s).f = "value" /\ Position(program, s).v = v

Unentered == phase \in {"new", "rejected"}

IsRow(p, row) ==
  /\ row = Row(row.request, row.status, row.result)
  /\ row.status \in {"started"} \cup Settled
  /\ Final(row) => <<row.status, row.result>> \in EffectOutcomes(p, row.request)

JournalIsTrue ==
  /\ program \in Programs
  /\ Unentered => now = Unborn /\ past = <<>>
  /\ ~Unentered => now = Position(program, past) /\ Accepts(program)
  /\ Possible(program, past) /\ Told(past, journal)
  /\ \A k \in DOMAIN journal : /\ IsRow(program, journal[k])
                               /\ AskedOnce(k)
  /\ \A k \in handling : k \in DOMAIN journal /\ journal[k].status = "started"
  /\ \A v \in outputs : ReturnedOnce(v)

LEMMA Agreement ==
  ASSUME NEW s, NEW t, Told(s, journal), Told(t, journal)
  PROVE  Agree(s, t)
BY DEF Told, Agree

(* The Store forgets no row, and changes none that is settled.             *)
Grown ==
  /\ program' = program
  /\ \A k \in DOMAIN journal : /\ k \in DOMAIN journal'
                               /\ journal'[k].request = journal[k].request
                               /\ Final(journal[k]) => journal'[k] = journal[k]

LEMMA TruthStays ==
  ASSUME Grown
  PROVE  /\ \A s : Told(s, journal) => Told(s, journal')
         /\ \A k \in DOMAIN journal : AskedOnce(k) => AskedOnce(k)'
         /\ \A v : ReturnedOnce(v) => ReturnedOnce(v)'
<1>1. ASSUME NEW s, Told(s, journal)
      PROVE  Told(s, journal')
  <2>1. ASSUME NEW i \in DOMAIN s, IsEffect(s[i].request), s[i].out[1] \in Settled
        PROVE  /\ s[i].request[1] \in DOMAIN journal'
               /\ journal'[s[i].request[1]].status = s[i].out[1]
               /\ journal'[s[i].request[1]].result = s[i].out[2]
    <3>1. PICK k : k = s[i].request[1]
      OBVIOUS
    <3>2. /\ k \in DOMAIN journal /\ journal[k].status = s[i].out[1]
          /\ journal[k].result = s[i].out[2]
      BY <1>1, <2>1, <3>1 DEF Told
    <3>3. Final(journal[k])
      BY <2>1, <3>2 DEF Final
    <3> QED BY <3>1, <3>2, <3>3 DEF Grown
  <2> QED BY <2>1 DEF Told
<1>2. ASSUME NEW k \in DOMAIN journal, AskedOnce(k)
      PROVE  AskedOnce(k)'
  <2>1. PICK s : /\ Possible(program, s) /\ Told(s, journal)
                 /\ \E q \in Position(program, s).front :
                      q[1] = k /\ IsEffect(q) /\ Asked(q) = journal[k].request
    BY <1>2 DEF AskedOnce
  <2>2. Told(s, journal') /\ program' = program /\ journal'[k].request = journal[k].request
    BY <1>1, <2>1 DEF Grown
  <2> QED BY <2>1, <2>2 DEF AskedOnce
<1>3. ASSUME NEW v, ReturnedOnce(v)
      PROVE  ReturnedOnce(v)'
  <2>1. PICK s : /\ Possible(program, s) /\ Told(s, journal)
                 /\ Position(program, s).f = "value" /\ Position(program, s).v = v
    BY <1>3 DEF ReturnedOnce
  <2>2. Told(s, journal') /\ program' = program /\ Accepts(program)
    BY <1>1, <1>3, <2>1 DEF Grown, ReturnedOnce
  <2> QED BY <2>1, <2>2 DEF ReturnedOnce
<1> QED BY <1>1, <1>2, <1>3

(* One event more, for a request that was waited for, is possible too.     *)
LEMMA PossibleGrows ==
  ASSUME NEW p, NEW s, Possible(p, s), NEW request \in Position(p, s).front, NEW out,
         out \in Outcomes(p, s, request)
  PROVE  Possible(p, Append(s, [request |-> request, out |-> out]))
<1>1. PICK e : e = [request |-> request, out |-> out]
  OBVIOUS
<1>2. PICK t : t = Append(s, e)
  OBVIOUS
<1>3. /\ IsASequence(t) /\ Len(s) \in Nat /\ DOMAIN s = 1..Len(s)
      /\ DOMAIN t = 1..(Len(s) + 1) /\ t[Len(s) + 1] = e
      /\ \A i \in 1..Len(s) : t[i] = s[i]
  BY <1>2, Appended DEF Possible
<1>4. ASSUME NEW n \in 0..Len(s)
      PROVE  Prefix(t, n) = Prefix(s, n)
  <2>1. \A i \in 1..n : t[i] = s[i]
    BY <1>3
  <2> QED BY <2>1 DEF Prefix
<1>5. Prefix(s, Len(s)) = s
  <2>1. PICK S : s \in Seq(S)
    BY DEF Possible, IsASequence
  <2> QED BY <2>1 DEF Prefix
<1> DEFINE Fits(u, i) ==
       /\ u[i].request \in Position(p, Prefix(u, i - 1)).front
       /\ u[i].out \in Outcomes(p, Prefix(u, i - 1), u[i].request)
<1>6. ASSUME NEW i \in 1..Len(s)
      PROVE  Fits(t, i)
  <2>1. i - 1 \in 0..Len(s)
    BY <1>3
  <2>2. Prefix(t, i - 1) = Prefix(s, i - 1) /\ t[i] = s[i]
    BY <1>3, <1>4, <2>1
  <2>3. Fits(s, i)
    BY <1>3 DEF Possible
  <2> QED BY <2>2, <2>3
<1>7. Fits(t, Len(s) + 1)
  <2>1. Prefix(t, (Len(s) + 1) - 1) = s /\ t[Len(s) + 1] = e
    BY <1>3, <1>4, <1>5
  <2> QED BY <1>1, <2>1
<1>8. \A i \in DOMAIN t : Fits(t, i)
  <2> HIDE DEF Fits
  <2>1. \A i \in DOMAIN t : i \in 1..Len(s) \/ i = Len(s) + 1
    BY <1>3
  <2> QED BY <1>6, <1>7, <2>1
<1>9. Possible(p, t)
  BY <1>3, <1>8 DEF Possible
<1> QED BY <1>1, <1>2, <1>9

(* A request of this life has been asked with its key before.              *)
LEMMA AskedAlike ==
  ASSUME JournalIsTrue, Deterministic(program), phase = "running",
         NEW request \in now.front, request[1] \in DOMAIN journal
  PROVE  Asked(request) = journal[request[1]].request /\ IsEffect(request)
<1>1. PICK s : /\ Possible(program, s) /\ Told(s, journal)
               /\ \E q \in Position(program, s).front :
                    /\ q[1] = request[1] /\ IsEffect(q)
                    /\ Asked(q) = journal[request[1]].request
  BY DEF JournalIsTrue, AskedOnce
<1>2. PICK q \in Position(program, s).front :
        /\ q[1] = request[1] /\ IsEffect(q) /\ Asked(q) = journal[request[1]].request
  BY <1>1
<1>3. Possible(program, past) /\ Told(past, journal) /\ now = Position(program, past)
  BY DEF JournalIsTrue, Unentered
<1>4. Agree(s, past)
  BY <1>1, <1>3, Agreement
<1>5. request \in Position(program, past).front
  BY <1>3
<1>6. Asked(q) = Asked(request)
  <2>1. Alike(s, Position(program, s), past, Position(program, past))
    BY <1>1, <1>3 DEF Deterministic
  <2> QED BY <1>2, <1>4, <1>5, <2>1 DEF Alike
<1> QED BY <1>2, <1>6 DEF Asked, IsEffect

(* The program goes on with an answer, and returns what it returns.        *)
LEMMA GoingOn ==
  ASSUME JournalIsTrue, phase = "running", phase' = phase, Grown,
         NEW request \in now.front, NEW out, Remember(request, out),
         out \in Outcomes(program, past, request),
         (IsEffect(request) /\ out[1] \in Settled) =>
           /\ request[1] \in DOMAIN journal'
           /\ journal'[request[1]].status = out[1]
           /\ journal'[request[1]].result = out[2],
         \A k \in DOMAIN journal' : /\ IsRow(program', journal'[k])
                                    /\ k \in DOMAIN journal,
         \A k \in handling' : k \in DOMAIN journal' /\ journal'[k].status = "started"
  PROVE  JournalIsTrue'
<1>1. PICK e : e = [request |-> request, out |-> out]
  OBVIOUS
<1>2. /\ past' = Append(past, e) /\ now' = Position(program, past')
      /\ outputs' = outputs \cup (IF now'.f = "value" THEN {now'.v} ELSE {})
  BY <1>1 DEF Remember, Evaluates
<1>3. /\ program' = program /\ program \in Programs /\ ~Unentered /\ ~Unentered'
      /\ Accepts(program)
  BY DEF Grown, JournalIsTrue, Unentered
<1>4. /\ Possible(program, past) /\ now = Position(program, past) /\ Told(past, journal)
      /\ IsASequence(past)
  BY <1>3 DEF JournalIsTrue, Possible
<1>5. Possible(program, past')
  BY <1>1, <1>2, <1>4, PossibleGrows
<1>6. /\ DOMAIN past = 1..Len(past) /\ Len(past) \in Nat
      /\ DOMAIN past' = 1..(Len(past) + 1) /\ past'[Len(past) + 1] = e
      /\ \A i \in 1..Len(past) : past'[i] = past[i]
  BY <1>2, <1>4, Appended
<1>7. \A i \in DOMAIN past' : (i \in DOMAIN past /\ past'[i] = past[i]) \/ past'[i] = e
  BY <1>6
<1>8. Told(past', journal')
  <2>1. Told(past, journal')
    BY <1>4, TruthStays
  <2>2. ASSUME NEW i \in DOMAIN past', IsEffect(past'[i].request),
               past'[i].out[1] \in Settled
        PROVE  /\ past'[i].request[1] \in DOMAIN journal'
               /\ journal'[past'[i].request[1]].status = past'[i].out[1]
               /\ journal'[past'[i].request[1]].result = past'[i].out[2]
    <3>1. CASE i \in DOMAIN past /\ past'[i] = past[i]
      BY <2>1, <2>2, <3>1 DEF Told
    <3>2. CASE past'[i] = e
      BY <1>1, <2>2, <3>2
    <3> QED BY <1>7, <3>1, <3>2
  <2> QED BY <2>2 DEF Told
<1>10. \A k \in DOMAIN journal' : AskedOnce(k)'
  BY TruthStays DEF JournalIsTrue
<1>11. ASSUME NEW v \in outputs'
       PROVE  ReturnedOnce(v)'
  <2>1. CASE v \in outputs
    BY <2>1, TruthStays DEF JournalIsTrue
  <2>2. CASE now'.f = "value" /\ v = now'.v
    <3>1. /\ Possible(program', past') /\ Told(past', journal')
          /\ Position(program', past').f = "value" /\ Position(program', past').v = v
      BY <1>2, <1>3, <1>5, <1>8, <2>2
    <3> QED BY <1>3, <3>1 DEF ReturnedOnce
  <2> QED BY <1>2, <1>11, <2>1, <2>2
<1> QED BY <1>2, <1>3, <1>5, <1>8, <1>10, <1>11 DEF JournalIsTrue

(* A run that is entered has met nothing.                                  *)
LEMMA Entering ==
  ASSUME JournalIsTrue, Grown, journal' = journal, handling' \subseteq handling,
         phase' = "running", Evaluates(<<>>), Accepts(program)
  PROVE  JournalIsTrue'
<1>1. /\ past' = <<>> /\ now' = Position(program, past')
      /\ outputs' = outputs \cup (IF now'.f = "value" THEN {now'.v} ELSE {})
  BY DEF Evaluates
<1>2. program' = program /\ program \in Programs /\ ~Unentered'
  BY DEF Grown, JournalIsTrue, Unentered
<1>3. /\ Possible(program, past') /\ Told(past', journal')
      /\ \A i \in DOMAIN past' : FALSE
  BY <1>1, NothingYet DEF Possible, Told
<1>4. ASSUME NEW v \in outputs'
      PROVE  ReturnedOnce(v)'
  <2>1. CASE v \in outputs
    BY <2>1, TruthStays DEF JournalIsTrue
  <2>2. CASE now'.f = "value" /\ v = now'.v
    <3>1. /\ Possible(program', past') /\ Told(past', journal')
          /\ Position(program', past').f = "value" /\ Position(program', past').v = v
      BY <1>1, <1>2, <1>3, <2>2
    <3> QED BY <1>2, <3>1 DEF ReturnedOnce
  <2> QED BY <1>1, <1>4, <2>1, <2>2
<1>5. \A k \in DOMAIN journal' : AskedOnce(k)'
  BY TruthStays DEF JournalIsTrue
<1>6. \A k \in DOMAIN journal' : IsRow(program', journal'[k])
  BY <1>2 DEF JournalIsTrue
<1>7. \A k \in handling' : k \in DOMAIN journal' /\ journal'[k].status = "started"
  BY DEF JournalIsTrue
<1> QED BY <1>1, <1>2, <1>3, <1>4, <1>5, <1>6, <1>7 DEF JournalIsTrue

(* The run stands where it stood.                                          *)
LEMMA Standing ==
  ASSUME JournalIsTrue, Grown, UNCHANGED <<past, now, outputs>>, Unentered' <=> Unentered,
         \A k \in DOMAIN journal' :
           /\ IsRow(program', journal'[k])
           /\ k \notin DOMAIN journal => AskedOnce(k)',
         \A k \in handling' : k \in DOMAIN journal' /\ journal'[k].status = "started"
  PROVE  JournalIsTrue'
<1>1. program' = program
  BY DEF Grown
<1>2. Told(past', journal') /\ Possible(program', past')
  BY <1>1, TruthStays DEF JournalIsTrue
<1>3. \A k \in DOMAIN journal' : AskedOnce(k)'
  BY TruthStays DEF JournalIsTrue
<1>4. \A v \in outputs' : ReturnedOnce(v)'
  BY TruthStays DEF JournalIsTrue
<1> QED BY <1>1, <1>2, <1>3, <1>4 DEF JournalIsTrue

LEMMA BeginTrue ==
  ASSUME JournalIsTrue, Deterministic(program), NEW request \in now.front, Begin(request)
  PROVE  JournalIsTrue'
<1>1. PICK key : key = request[1]
  OBVIOUS
<1>2. /\ phase = "running" /\ phase' = phase /\ program' = program /\ IsEffect(request)
      /\ now = Position(program, past) /\ (Unentered' <=> Unentered)
  BY DEF Begin, JournalIsTrue, Unentered
<1>3. CASE key \notin DOMAIN journal
  <2>1. /\ journal' = [k \in DOMAIN journal \cup {key} |->
                         IF k = key THEN Row(Asked(request), "started", NoResult)
                         ELSE journal[k]]
        /\ handling' = handling \cup {key} /\ UNCHANGED <<past, now, outputs>>
    BY <1>1, <1>3 DEF Begin, run
  <2>2. /\ key \in DOMAIN journal' /\ journal'[key].request = Asked(request)
        /\ journal'[key].status = "started"
        /\ \A k \in DOMAIN journal : k \in DOMAIN journal' /\ journal'[k] = journal[k]
        /\ \A k \in DOMAIN journal' : k \in DOMAIN journal \/ k = key
    BY <1>3, <2>1 DEF Row
  <2>3. Grown
    BY <1>2, <2>2 DEF Grown
  <2>4. AskedOnce(key)'
    <3>1. Possible(program', past) /\ Told(past, journal')
      BY <1>2, <2>3, TruthStays DEF JournalIsTrue
    <3>2. request \in Position(program', past).front
      BY <1>2
    <3> QED BY <1>1, <1>2, <2>2, <3>1, <3>2 DEF AskedOnce
  <2>5. /\ \A k \in DOMAIN journal' :
             /\ IsRow(program', journal'[k])
             /\ k \notin DOMAIN journal => AskedOnce(k)'
        /\ \A k \in handling' : k \in DOMAIN journal' /\ journal'[k].status = "started"
    <3>1. IsRow(program', journal'[key])
      BY <1>3, <2>1, <2>2 DEF Row, IsRow, Final, Settled
    <3> QED BY <1>2, <2>1, <2>2, <2>4, <3>1 DEF JournalIsTrue
  <2> QED BY <1>2, <2>1, <2>3, <2>5, Standing
<1>4. CASE key \in DOMAIN journal
  <2>1. journal[key].request = Asked(request)
    BY <1>1, <1>2, <1>4, AskedAlike
  <2>2. CASE journal[key].status = "started"
    <3>1. /\ handling' = handling \cup {key} /\ UNCHANGED <<journal, past, now, outputs>>
      BY <1>1, <1>4, <2>1, <2>2 DEF Begin, run
    <3>2. Grown
      BY <1>2, <3>1 DEF Grown
    <3>3. /\ \A k \in DOMAIN journal' :
               /\ IsRow(program', journal'[k])
               /\ k \notin DOMAIN journal => AskedOnce(k)'
          /\ \A k \in handling' : k \in DOMAIN journal' /\ journal'[k].status = "started"
      BY <1>2, <1>4, <2>2, <3>1 DEF JournalIsTrue
    <3> QED BY <1>2, <3>1, <3>2, <3>3, Standing
  <2>3. CASE journal[key].status # "started"
    <3>1. PICK out : out = <<journal[key].status, journal[key].result>>
      OBVIOUS
    <3>2. Remember(request, out) /\ UNCHANGED <<journal, handling>>
      BY <1>1, <1>4, <2>1, <2>3, <3>1 DEF Begin
    <3>3. out[1] = journal[key].status /\ out[2] = journal[key].result
      BY <3>1
    <3>4. Grown
      BY <1>2, <3>2 DEF Grown
    <3>5. out \in Outcomes(program, past, request)
      <4>1. IsRow(program, journal[key])
        BY <1>4 DEF JournalIsTrue
      <4>2. out \in EffectOutcomes(program, Asked(request))
        BY <2>1, <2>3, <3>1, <4>1 DEF IsRow, Final
      <4> QED BY <1>2, <4>2 DEF Outcomes, IsEffect
    <3>6. /\ \A k \in DOMAIN journal' : /\ IsRow(program', journal'[k])
                                        /\ k \in DOMAIN journal
          /\ \A k \in handling' : k \in DOMAIN journal' /\ journal'[k].status = "started"
      BY <1>2, <3>2 DEF JournalIsTrue
    <3>7. /\ request[1] \in DOMAIN journal'
          /\ journal'[request[1]].status = out[1]
          /\ journal'[request[1]].result = out[2]
      BY <1>1, <1>4, <3>2, <3>3
    <3> QED BY <1>2, <3>2, <3>3, <3>4, <3>5, <3>6, <3>7, GoingOn
  <2> QED BY <2>2, <2>3
<1> QED BY <1>3, <1>4

LEMMA SettleTrue ==
  ASSUME JournalIsTrue, Deterministic(program), NEW request \in now.front,
         NEW status \in Settled, NEW result, Settle(request, status, result),
         <<status, result>> \in EffectOutcomes(program, Asked(request))
  PROVE  JournalIsTrue'
<1>1. PICK key : key = request[1]
  OBVIOUS
<1>2. /\ phase = "running" /\ phase' = phase /\ program' = program /\ key \in handling
      /\ handling' = handling \ {key} /\ Remember(request, <<status, result>>)
  BY <1>1 DEF Settle, Listening
<1>3. key \in DOMAIN journal /\ journal[key].status = "started"
  BY <1>2 DEF JournalIsTrue
<1>4. IsEffect(request) /\ Asked(request) = journal[key].request
  BY <1>1, <1>2, <1>3, AskedAlike
<1>5. /\ DOMAIN journal' = DOMAIN journal
      /\ \A k \in DOMAIN journal : /\ journal'[k].request = journal[k].request
                                   /\ k # key => journal'[k] = journal[k]
      /\ journal'[key].status = status /\ journal'[key].result = result
      /\ IsRow(program', journal'[key])
  <2>1. PICK row : row = [[journal[key] EXCEPT !.status = status] EXCEPT !.result = result]
    OBVIOUS
  <2>2. journal' = [journal EXCEPT ![key] = row]
    BY <1>1, <1>3, <2>1 DEF Settle
  <2>3. journal[key] = Row(journal[key].request, journal[key].status, journal[key].result)
    BY <1>3 DEF JournalIsTrue, IsRow
  <2>4. row = Row(journal[key].request, status, result)
    BY <2>1, <2>3 DEF Row
  <2>5. /\ row.request = journal[key].request /\ row.status = status /\ row.result = result
    BY <2>4 DEF Row
  <2>6. IsRow(program, row)
    BY <1>4, <2>4, <2>5 DEF IsRow
  <2> QED BY <1>2, <1>3, <2>2, <2>5, <2>6
<1>6. Grown
  BY <1>2, <1>3, <1>5 DEF Grown, Final, Settled
<1>7. <<status, result>> \in Outcomes(program, past, request)
  BY <1>4 DEF IsEffect, Outcomes
<1>8. /\ \A k \in DOMAIN journal' : /\ IsRow(program', journal'[k])
                                    /\ k \in DOMAIN journal
      /\ \A k \in handling' : k \in DOMAIN journal' /\ journal'[k].status = "started"
  BY <1>2, <1>3, <1>5 DEF JournalIsTrue
<1>9. PICK out : out = <<status, result>> /\ out[1] = status /\ out[2] = result
  <2>1. <<status, result>>[1] = status /\ <<status, result>>[2] = result
    OBVIOUS
  <2> QED BY <2>1
<1> QED BY <1>1, <1>2, <1>3, <1>5, <1>6, <1>7, <1>8, <1>9, GoingOn

(* A row is left as it was.                                                *)
LEMMA AnsweredTrue ==
  ASSUME JournalIsTrue, NEW request \in now.front, NEW out, Remember(request, out),
         phase = "running", UNCHANGED <<program, journal, phase>>, handling' \subseteq handling,
         out \in Outcomes(program, past, request), IsEffect(request) => out[1] = "suspended"
  PROVE  JournalIsTrue'
<1>1. Grown
  BY DEF Grown
<1>2. /\ \A k \in DOMAIN journal' : IsRow(program', journal'[k]) /\ k \in DOMAIN journal
      /\ \A k \in handling' : k \in DOMAIN journal' /\ journal'[k].status = "started"
  BY DEF JournalIsTrue
<1> QED BY <1>1, <1>2, GoingOn DEF Settled

LEMMA SuspendsTrue ==
  ASSUME JournalIsTrue, NEW request \in now.front,
         Suspends(request) \/ Acquire(request) \/ Read(request)
  PROVE  JournalIsTrue'
<1>1. CASE Suspends(request)
  <2>1. PICK out : out = <<"suspended", NoResult>> /\ out[1] = "suspended"
    <3>1. <<"suspended", NoResult>>[1] = "suspended"
      OBVIOUS
    <3> QED BY <3>1
  <2>2. /\ Remember(request, out) /\ phase = "running" /\ UNCHANGED <<program, journal, phase>>
        /\ handling' \subseteq handling /\ IsEffect(request)
    BY <1>1, <2>1 DEF Suspends, Listening
  <2>3. out \in EffectOutcomes(program, Asked(request))
    BY <2>1 DEF EffectOutcomes
  <2>4. out \in Outcomes(program, past, request)
    BY <2>2, <2>3 DEF Outcomes, IsEffect
  <2> QED BY <2>1, <2>2, <2>4, AnsweredTrue
<1>2. CASE Acquire(request)
  <2>1. PICK out : out = <<IF request[4] \in now.held THEN "refused" ELSE "held", NoResult>>
    OBVIOUS
  <2>2. /\ Remember(request, out) /\ phase = "running" /\ UNCHANGED <<program, journal, phase>>
        /\ handling' = handling /\ request[2] = "guard" /\ ~IsEffect(request)
    BY <1>2, <2>1 DEF Acquire, Listening, IsEffect
  <2>3. now = Position(program, past)
    BY <2>2 DEF JournalIsTrue, Unentered
  <2>4. out \in Outcomes(program, past, request)
    BY <2>1, <2>2, <2>3 DEF Outcomes
  <2> QED BY <2>2, <2>4, AnsweredTrue
<1>3. CASE Read(request)
  <2>1. PICK out : out = <<"done", LatestAccess(past, request[4])>>
    OBVIOUS
  <2>2. /\ Remember(request, out) /\ phase = "running" /\ UNCHANGED <<program, journal, phase>>
        /\ handling' = handling /\ request[2] = "read" /\ ~IsEffect(request)
    BY <1>3, <2>1 DEF Read, Listening, IsEffect
  <2>3. out \in Outcomes(program, past, request)
    BY <2>1, <2>2 DEF Outcomes
  <2> QED BY <2>2, <2>3, AnsweredTrue
<1> QED BY <1>1, <1>2, <1>3

LEMMA TrueStart == Init => JournalIsTrue
<1> SUFFICES ASSUME Init PROVE JournalIsTrue
  OBVIOUS
<1>1. past = <<>> /\ DOMAIN past = {} /\ IsASequence(past) /\ DOMAIN journal = {}
  BY NothingYet DEF Init
<1>2. Possible(program, past) /\ Told(past, journal)
  BY <1>1 DEF Possible, Told
<1> QED BY <1>1, <1>2 DEF Init, JournalIsTrue, Unentered

LEMMA TrueStep ==
  ASSUME \A p \in Programs : Accepts(p) => Deterministic(p), JournalIsTrue, [Next]_vars
  PROVE  JournalIsTrue'
<1>1. ~Unentered => Deterministic(program) /\ Accepts(program)
  BY DEF JournalIsTrue
<1>2. \A k \in DOMAIN journal : IsRow(program, journal[k])
  BY DEF JournalIsTrue
<1>3. CASE UNCHANGED <<program, journal, past, now, outputs>> /\ (Unentered' <=> Unentered)
           /\ handling' \subseteq handling
  <2>1. Grown
    BY <1>3 DEF Grown
  <2>2. /\ \A k \in DOMAIN journal' : IsRow(program', journal'[k]) /\ k \in DOMAIN journal
        /\ \A k \in handling' : k \in DOMAIN journal' /\ journal'[k].status = "started"
    BY <1>2, <1>3 DEF JournalIsTrue
  <2> QED BY <1>3, <2>1, <2>2, Standing
<1>4. CASE Compile
  <2>1. CASE Accepts(program)
    <3>1. /\ Evaluates(<<>>) /\ phase' = "running" /\ UNCHANGED <<program, journal, handling>>
      BY <1>4, <2>1 DEF Compile
    <3>2. Grown
      BY <3>1 DEF Grown
    <3> QED BY <2>1, <3>1, <3>2, Entering
  <2>2. CASE ~Accepts(program)
    BY <1>3, <1>4, <2>2 DEF Compile, run, Unentered
  <2> QED BY <2>1, <2>2
<1>5. ASSUME NEW request \in now.front, Step(request)
      PROVE  JournalIsTrue'
  <2>1. CASE Begin(request)
    <3>1. ~Unentered
      BY <2>1 DEF Begin, Unentered
    <3> QED BY <1>1, <2>1, <3>1, BeginTrue
  <2>2. CASE Answered(request)
    <3>1. PICK v \in Answers(program, Asked(request)) : Settle(request, "done", v)
      BY <2>2 DEF Answered
    <3>2. ~Unentered
      BY <3>1 DEF Settle, Listening, Unentered
    <3>3. <<"done", v>> \in EffectOutcomes(program, Asked(request))
      BY DEF EffectOutcomes
    <3> QED BY <1>1, <3>1, <3>2, <3>3, SettleTrue DEF Settled
  <2>3. CASE FailedEffect(request)
    <3>1. ~Unentered
      BY <2>3 DEF FailedEffect, Settle, Listening, Unentered
    <3>2. <<"failed", NoResult>> \in EffectOutcomes(program, Asked(request))
      BY <2>3 DEF FailedEffect, EffectOutcomes
    <3> QED BY <1>1, <2>3, <3>1, <3>2, SettleTrue DEF FailedEffect, Settled
  <2>4. CASE Suspends(request) \/ Acquire(request) \/ Read(request)
    BY <2>4, SuspendsTrue
  <2> QED BY <1>5, <2>1, <2>2, <2>3, <2>4 DEF Step
<1>6. CASE Ends
  <2>1. /\ phase' \in {"completed", "failed", "suspended"} /\ phase = "running"
        /\ handling' = {} /\ UNCHANGED <<program, journal, past, now, outputs>>
    BY <1>6 DEF Ends, run
  <2>2. Unentered' <=> Unentered
    BY <2>1 DEF Unentered
  <2> QED BY <1>3, <2>1, <2>2
<1>7. CASE Resume \/ Crash
  <2>1. /\ Evaluates(<<>>) /\ phase' = "running" /\ UNCHANGED <<program, journal>>
        /\ handling' = {}
    BY <1>7 DEF Resume, Crash, Restarts
  <2>2. Grown
    BY <2>1 DEF Grown
  <2>3. Accepts(program)
    BY <1>1, <1>7 DEF Resume, Crash, Unentered
  <2> QED BY <2>1, <2>2, <2>3, Entering
<1>8. CASE UNCHANGED vars
  BY <1>3, <1>8 DEF vars, run, Unentered
<1> QED BY <1>4, <1>5, <1>6, <1>7, <1>8 DEF Next

LEMMA TrueReplays ==
  ASSUME \A p \in Programs : Accepts(p) => Deterministic(p), JournalIsTrue
  PROVE  ReplaysAskTheSame
<1> SUFFICES ASSUME now.f = "error", now.v[2] = "changed_request" PROVE FALSE
  BY DEF ReplaysAskTheSame
<1>1. now = Position(program, past) /\ Deterministic(program)
  BY DEF JournalIsTrue, Unborn
<1>2. Possible(program, past) /\ Told(past, journal)
  BY DEF JournalIsTrue
<1>3. Agree(past, past)
  BY <1>2, Agreement
<1>4. Alike(past, now, past, now)
  BY <1>1, <1>2 DEF Deterministic
<1> QED BY <1>3, <1>4 DEF Alike

LEMMA TrueLives ==
  ASSUME \A p \in Programs : Accepts(p) => Deterministic(p), JournalIsTrue
  PROVE  LivesAgree
<1>1. ASSUME NEW v \in outputs, NEW w \in outputs
      PROVE  v = w
  <2>1. PICK s : /\ Possible(program, s) /\ Told(s, journal)
                 /\ Position(program, s).f = "value" /\ Position(program, s).v = v
    BY DEF JournalIsTrue, ReturnedOnce
  <2>2. PICK t : /\ Possible(program, t) /\ Told(t, journal)
                 /\ Position(program, t).f = "value" /\ Position(program, t).v = w
    BY DEF JournalIsTrue, ReturnedOnce
  <2>3. Agree(s, t)
    BY <2>1, <2>2, Agreement
  <2>4. Deterministic(program)
    BY <1>1 DEF JournalIsTrue, ReturnedOnce
  <2>5. Alike(s, Position(program, s), t, Position(program, t))
    BY <2>1, <2>2, <2>4 DEF Deterministic
  <2> QED BY <2>1, <2>2, <2>3, <2>5 DEF Alike
<1>2. CASE outputs = {}
  BY <1>2, FS_EmptySet DEF LivesAgree
<1>3. CASE outputs # {}
  <2>1. PICK v : v \in outputs
    BY <1>3
  <2>2. outputs = {v}
    BY <1>1, <2>1
  <2>3. Cardinality(outputs) = 1
    BY <2>2, FS_Singleton
  <2> QED BY <2>3 DEF LivesAgree
<1> QED BY <1>2, <1>3

(* The inductive invariant of replay: a life has been told only what the   *)
(* journal says, every row was asked for, and every value returned, by a   *)
(* life that the journal still bears out.                                  *)
THEOREM JournalStaysTrue ==
  ASSUME \A p \in Programs : Accepts(p) => Deterministic(p)
  PROVE  Spec => []JournalIsTrue
<1>1. Init => JournalIsTrue
  BY TrueStart
<1>2. JournalIsTrue /\ [Next]_vars => JournalIsTrue'
  BY TrueStep
<1> QED BY <1>1, <1>2, PTL DEF Spec

(* A deterministic program never fails because a restart made it ask       *)
(* something else of an effect it had begun, whatever the branches, the    *)
(* order of the answers, the suspensions and the crashes.                  *)
THEOREM DeterministicRunsReplay ==
  ASSUME \A p \in Programs : Accepts(p) => Deterministic(p)
  PROVE  Spec => []ReplaysAskTheSame
<1>1. JournalIsTrue => ReplaysAskTheSame
  BY TrueReplays
<1> QED BY <1>1, JournalStaysTrue, PTL

(* All lives of a run of a deterministic program that return, return the   *)
(* same value.                                                             *)
THEOREM DeterministicLivesAgree ==
  ASSUME \A p \in Programs : Accepts(p) => Deterministic(p)
  PROVE  Spec => []LivesAgree
<1>1. JournalIsTrue => LivesAgree
  BY TrueLives
<1> QED BY <1>1, JournalStaysTrue, PTL
-----------------------------------------------------------------------------
(* Settled effects                                                         *)

(* Only an effect that is not settled is under way.                        *)
UnderWayIsOpen == \A k \in handling : k \in DOMAIN journal /\ journal[k].status = "started"

LEMMA OpenStep ==
  ASSUME UnderWayIsOpen, [Next]_vars
  PROVE  UnderWayIsOpen' /\ Grown
<1>1. CASE UNCHANGED <<program, journal>> /\ handling' \subseteq handling
  BY <1>1 DEF UnderWayIsOpen, Grown
<1>2. ASSUME NEW request, NEW status, NEW result, Settle(request, status, result)
      PROVE  UnderWayIsOpen' /\ Grown
  <2>1. /\ request[1] \in handling /\ handling' = handling \ {request[1]} /\ program' = program
        /\ DOMAIN journal' = DOMAIN journal
        /\ \A k \in DOMAIN journal : k # request[1] => journal'[k] = journal[k]
        /\ journal'[request[1]].request = journal[request[1]].request
    <3>1. PICK key : key = request[1]
      OBVIOUS
    <3>2. key \in handling /\ key \in DOMAIN journal
      BY <1>2, <3>1 DEF Settle, UnderWayIsOpen
    <3>3. PICK row : row = [[journal[key] EXCEPT !.status = status] EXCEPT !.result = result]
      OBVIOUS
    <3>4. journal' = [journal EXCEPT ![key] = row]
      BY <1>2, <3>1, <3>2, <3>3 DEF Settle
    <3>5. row.request = journal[key].request
      BY <3>3
    <3> QED BY <1>2, <3>1, <3>2, <3>4, <3>5 DEF Settle
  <2>2. ~Final(journal[request[1]])
    BY <2>1 DEF Final, Settled, UnderWayIsOpen
  <2> QED BY <2>1, <2>2 DEF UnderWayIsOpen, Grown
<1>3. ASSUME NEW request, Begin(request)
      PROVE  UnderWayIsOpen' /\ Grown
  <2>1. PICK key : key = request[1]
    OBVIOUS
  <2>2. program' = program
    BY <1>3 DEF Begin
  <2>3. CASE key \notin DOMAIN journal
    <3>1. /\ journal' = [k \in DOMAIN journal \cup {key} |->
                           IF k = key THEN Row(Asked(request), "started", NoResult)
                           ELSE journal[k]]
          /\ handling' = handling \cup {key}
      BY <1>3, <2>1, <2>3 DEF Begin
    <3>2. /\ key \in DOMAIN journal' /\ journal'[key].status = "started"
          /\ \A k \in DOMAIN journal : k \in DOMAIN journal' /\ journal'[k] = journal[k]
      BY <2>3, <3>1 DEF Row
    <3> QED BY <2>2, <3>1, <3>2 DEF UnderWayIsOpen, Grown
  <2>4. CASE /\ key \in DOMAIN journal /\ journal[key].request = Asked(request)
             /\ journal[key].status = "started"
    <3>1. journal' = journal /\ handling' = handling \cup {key}
      BY <1>3, <2>1, <2>4 DEF Begin
    <3> QED BY <2>2, <2>4, <3>1 DEF UnderWayIsOpen, Grown
  <2>5. CASE /\ key \in DOMAIN journal
             /\ ~(journal[key].request = Asked(request) /\ journal[key].status = "started")
    <3>1. journal' = journal /\ handling' = handling
      BY <1>3, <2>1, <2>5 DEF Begin
    <3> QED BY <1>1, <2>2, <3>1
  <2> QED BY <2>3, <2>4, <2>5
<1>4. CASE Compile
  BY <1>1, <1>4 DEF Compile
<1>5. ASSUME NEW request \in now.front, Step(request)
      PROVE  UnderWayIsOpen' /\ Grown
  <2>1. CASE Suspends(request) \/ Acquire(request) \/ Read(request)
    BY <1>1, <2>1 DEF Suspends, Acquire, Read
  <2>2. CASE Begin(request)
    BY <1>3, <2>2
  <2>3. CASE Answered(request) \/ FailedEffect(request)
    BY <1>2, <2>3 DEF Answered, FailedEffect
  <2> QED BY <1>5, <2>1, <2>2, <2>3 DEF Step
<1>6. CASE Ends \/ Resume \/ Crash
  BY <1>1, <1>6 DEF Ends, Resume, Crash, Restarts
<1>7. CASE UNCHANGED vars
  BY <1>1, <1>7 DEF vars
<1> QED BY <1>4, <1>5, <1>6, <1>7 DEF Next

(* No row is forgotten or asked for again as something else, and a settled *)
(* effect keeps its outcome: whatever program runs, deterministic or not,  *)
(* no effect is dispatched a second time once its answer is stored.        *)
THEOREM AnswersAreFinal == Spec => [][Grown]_vars
<1>1. Init => UnderWayIsOpen
  BY DEF Init, UnderWayIsOpen
<1>2. UnderWayIsOpen /\ [Next]_vars => UnderWayIsOpen' /\ Grown
  BY OpenStep
<1> QED BY <1>1, <1>2, PTL DEF Spec
=============================================================================
