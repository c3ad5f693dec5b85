----------------------------- MODULE DurableRun ------------------------------
(***************************************************************************)
(* A Workflow run and its durable effects, whatever evaluates the program: *)
(* WorkflowInterpreter::execute around its evaluator (interpreter.rs),     *)
(* SessionEffectContext::handle and the aggregation of suspensions         *)
(* (runtime.rs), over the session_effects journal of the Store             *)
(* (database.rs).  A run is interrupted by a crash or ends suspended at    *)
(* any time, and is then evaluated again from its root against the same    *)
(* journal.                                                                *)
(*                                                                         *)
(* What the program has met so far in this process is its `past`, the      *)
(* sequence of its events: effects that were answered, Action guards that  *)
(* were taken, reads of an Agent's access.  Where the program then stands  *)
(* is a function of its past, and `now` is that position: a record of the  *)
(* flow f and value v it ended with, the Agents whose guard is held and    *)
(* the front, the requests its branches wait for.  A request is            *)
(* <<key, kind, payload, local>>: the durable identity of the occurrence,  *)
(* what is asked, and the handle or Agent it concerns here.                *)
(***************************************************************************)
EXTENDS Naturals, Sequences, FiniteSets

CONSTANTS
    Programs,            \* the frozen programs a Session may hold
    Accepts(_),          \* compile_source finds no error in the program
    Position(_, _),      \* where the program stands after a past
    LatestAccess(_, _),  \* the access a past has left a handle with
    Answers(_, _),       \* what an effect of the program, as asked, may be answered with
    MayFail(_, _),       \* an effect of the program, as asked, may fail
    Permits,             \* effect_permits
    MaxCrashes           \* bound: restarts of the run

VARIABLES
    program,            \* the program of the Session, frozen in it
    journal,            \* session_effects: key -> [request, status, result]
    handling,           \* keys whose handle() call is under way
    past,               \* the events of this life
    now,                \* Position(program, past) once a Runtime runs
    phase,
    crashes,
    outputs             \* history: values the run has ended with in any life

run == <<past, now>>

vars == <<program, journal, handling, run, phase, crashes, outputs>>

Row(request, status, result) ==
    [request |-> request, status |-> status, result |-> result]

NoResult == <<"none">>

(* No Runtime yet *)
Unborn == [f |-> "unborn", v |-> NoResult, held |-> {}, front |-> {}]

Init ==
    /\ program \in Programs
    /\ journal = [k \in {} |-> Row(<<>>, "started", NoResult)]
    /\ handling = {}
    /\ past = <<>>
    /\ now = Unborn
    /\ phase = "new"
    /\ crashes = 0
    /\ outputs = {}

(* The program goes on as far as its events allow. *)
Evaluates(events) ==
    /\ past' = events
    /\ now' = Position(program, events)
    /\ outputs' = outputs \cup (IF now'.f = "value" THEN {now'.v} ELSE {})

(* compile_source runs again before every execution. *)
Compile ==
    /\ phase = "new"
    /\ IF Accepts(program)
       THEN phase' = "running" /\ Evaluates(<<>>)
       ELSE phase' = "rejected" /\ UNCHANGED <<run, outputs>>
    /\ UNCHANGED <<program, journal, handling, crashes>>

Asked(request) == <<request[2], request[3]>>

IsEffect(request) == request[2] \notin {"guard", "read"}

Remember(request, out) ==
    Evaluates(Append(past, [request |-> request, out |-> out]))

(* handle(): one call per key at a time, behind a gate, and a bounded number
   of calls behind the permits.  begin_session_effect inserts the row, or
   finds it and compares the request. *)
Begin(request) ==
    LET key == request[1]
        row == journal[key]
    IN  /\ phase = "running"
        /\ request \in now.front
        /\ IsEffect(request)
        /\ key \notin handling
        /\ Cardinality(handling) < Permits
        /\ IF key \notin DOMAIN journal
           THEN /\ journal' = [k \in DOMAIN journal \cup {key} |->
                                 IF k = key THEN Row(Asked(request), "started", NoResult)
                                 ELSE journal[k]]
                /\ handling' = handling \cup {key}
                /\ UNCHANGED <<run, outputs>>
           ELSE IF row.request = Asked(request) /\ row.status = "started"
           THEN /\ handling' = handling \cup {key}
                /\ UNCHANGED <<journal, run, outputs>>
           ELSE /\ Remember(request,
                            IF row.request # Asked(request) THEN <<"changed", NoResult>>
                            ELSE <<row.status, row.result>>)
                /\ UNCHANGED <<journal, handling>>
        /\ UNCHANGED <<program, phase, crashes>>

(* Only a parallel expression that has failed no longer listens. *)
Listening(request) ==
    /\ phase = "running"
    /\ now.f = "blocked"
    /\ request \in now.front

(* Mutant: the result reaches the program and not the journal. *)
SettleUnrecorded(request, status, result) ==
    /\ Listening(request)
    /\ request[1] \in handling
    /\ handling' = handling \ {request[1]}
    /\ Remember(request, <<status, result>>)
    /\ UNCHANGED <<program, journal, phase, crashes>>

Settle(request, status, result) ==
    /\ Listening(request)
    /\ request[1] \in handling
    /\ handling' = handling \ {request[1]}
    /\ journal' = [journal EXCEPT ![request[1]].status = status,
                                  ![request[1]].result = result]
    /\ Remember(request, <<status, result>>)
    /\ UNCHANGED <<program, phase, crashes>>

(* dispatch() returned and finish_session_effect recorded it. *)
Answered(request) ==
    \E v \in Answers(program, Asked(request)) : Settle(request, "done", v)

FailedEffect(request) ==
    MayFail(program, Asked(request)) /\ Settle(request, "failed", NoResult)

(* Any effect may suspend: checkpoint finds the Session paused or waiting
   before the dispatch, or the dispatch itself meets a question without an
   answer, a deadline to come or a grant to be given.  The row stays
   started. *)
Suspends(request) ==
    /\ Listening(request)
    /\ IsEffect(request)
    /\ request[1] \in handling
    /\ handling' = handling \ {request[1]}
    /\ Remember(request, <<"suspended", NoResult>>)
    /\ UNCHANGED <<program, journal, phase, crashes>>

(* Mutant: the guard is always given. *)
AcquireAnyway(request) ==
    /\ Listening(request)
    /\ request[2] = "guard"
    /\ Remember(request, <<"held", NoResult>>)
    /\ UNCHANGED <<program, journal, handling, phase, crashes>>

(* ActiveAgentGuard::acquire. *)
Acquire(request) ==
    /\ Listening(request)
    /\ request[2] = "guard"
    /\ Remember(request, <<IF request[4] \in now.held THEN "refused" ELSE "held", NoResult>>)
    /\ UNCHANGED <<program, journal, handling, phase, crashes>>

Read(request) ==
    /\ Listening(request)
    /\ request[2] = "read"
    /\ Remember(request, <<"done", LatestAccess(past, request[4])>>)
    /\ UNCHANGED <<program, journal, handling, phase, crashes>>

(* The executor returns; whatever was still under way is dropped. *)
Ends ==
    /\ phase = "running"
    /\ now.f \in {"value", "error", "suspended"}
    /\ phase' = CASE now.f = "value" -> "completed"
                  [] now.f = "error" -> "failed"
                  [] now.f = "suspended" -> "suspended"
    /\ handling' = {}
    /\ UNCHANGED <<program, journal, run, crashes, outputs>>

Restarts ==
    /\ handling' = {}
    /\ phase' = "running"
    /\ Evaluates(<<>>)
    /\ UNCHANGED <<program, journal>>

(* The Session became runnable again: a new Runtime starts at the root. *)
Resume ==
    /\ phase = "suspended"
    /\ Restarts
    /\ UNCHANGED crashes

Crash ==
    /\ phase = "running"
    /\ crashes < MaxCrashes
    /\ crashes' = crashes + 1
    /\ Restarts

Step(request) ==
    \/ Begin(request)
    \/ Answered(request)
    \/ FailedEffect(request)
    \/ Suspends(request)
    \/ Acquire(request)
    \/ Read(request)

Next ==
    \/ Compile
    \/ \E request \in now.front : Step(request)
    \/ Ends
    \/ Resume
    \/ Crash

Spec == Init /\ [][Next]_vars

(***************************************************************************)
(* Properties.                                                             *)
(***************************************************************************)

(* What may become of an effect that is asked for, when no other life asked *)
EffectOutcomes(p, asked) ==
    {<<"done", v>> : v \in Answers(p, asked)}
      \cup {o \in {<<"failed", NoResult>>} : MayFail(p, asked)}
      \cup {<<"suspended", NoResult>>}

(* What may become of a request after a past: a guard and a read are met as
   things stand. *)
Outcomes(p, s, q) ==
    CASE q[2] = "guard" ->
           {<<IF q[4] \in Position(p, s).held THEN "refused" ELSE "held", NoResult>>}
      [] q[2] = "read" -> {<<"done", LatestAccess(s, q[4])>>}
      [] OTHER -> EffectOutcomes(p, Asked(q))

Settled == {"done", "failed"}

(* Two lives had the same answers to the effects that both had answered. *)
Agree(s, t) ==
    \A i \in DOMAIN s, j \in DOMAIN t :
        (/\ IsEffect(s[i].request) /\ IsEffect(t[j].request)
         /\ s[i].request[1] = t[j].request[1]
         /\ s[i].out[1] \in Settled /\ t[j].out[1] \in Settled)
          => s[i].out[1] = t[j].out[1] /\ s[i].out[2] = t[j].out[2]

(* Two lives that agree, of which one stands at a and one at b, ask the same
   under a key and return the same, and neither fails by itself the way a
   changed request does. *)
Alike(s, a, t, b) ==
    Agree(s, t) =>
      /\ \A q \in a.front, r \in b.front : q[1] = r[1] => Asked(q) = Asked(r)
      /\ a.f = "value" /\ b.f = "value" => a.v = b.v
      /\ a.f = "error" => a.v[2] # "changed_request"

GoesOn == Len(past') = Len(past) + 1

Event == past'[Len(past')]

(* An answer moves only the branches that waited for it: every other
   request of the front stays until it is answered itself, also when the run
   fails; branches share a key only to ask alike; and a run that suspends
   waits for nothing more. *)
AnswersMoveTheirBranch ==
    /\ now'.f = "suspended" => now'.front = {}
    /\ \A q, r \in now'.front : q[1] = r[1] => q[2] = r[2]
    /\ GoesOn => \A q \in now.front : q[1] # Event.request[1] => q \in now'.front
    /\ GoesOn => \A q \in now'.front : q[1] # Event.request[1]

Invoked(at) == {q \in at.front : q[2] = "invoke_action"}

AgentOf(q) == q[3][1]

(* Who invokes an Action holds the guard of its Agent, and comes by it only
   when it takes it or has just had an answer of that Agent, one branch at a
   time. *)
InvocationsAreGuarded ==
    /\ \A q \in Invoked(now') : AgentOf(q) \in now'.held
    /\ past' = <<>> => Invoked(now') = {}
    /\ GoesOn =>
         LET new == Invoked(now') \ Invoked(now)
             met == Event.request
         IN  /\ \A q, r \in new : q = r
             /\ \A q \in new :
                  \/ met[2] = "guard" /\ Event.out[1] = "held" /\ met[4] = AgentOf(q)
                  \/ met[2] = "invoke_action" /\ AgentOf(met) = AgentOf(q)

(* What a run relies on the evaluator for: eval_parallel keeps its branches
   apart and drives them to their end, and run_action has its Agent's guard
   from before the invocation until after the last repair. *)
EvaluationIsOrderly == [][AnswersMoveTheirBranch /\ InvocationsAreGuarded]_vars

(* A replayed effect always carries the request it was journaled with,
   whatever order the branches were answered in before and after a restart
   (begin_session_effect's comparison never fails). *)
ReplaysAskTheSame == now.f = "error" => now.v[2] # "changed_request"

(* All lives of one run that return a value return the same one: a restart
   and another order of completion do not show (eval_parallel's results are
   placed by branch). *)
LivesAgree == Cardinality(outputs) <= 1

(* At most one Action of an Agent is under way, its finalization and its
   repairs included (ActiveAgentGuard). *)
OneActionPerAgent ==
    \A k1, k2 \in handling :
        LET r1 == journal[k1].request
            r2 == journal[k2].request
        IN  (k1 # k2 /\ r1[1] = "invoke_action" /\ r2[1] = "invoke_action")
              => r1[2][1] # r2[2][1]

(* The run reports a suspension only when every branch has settled: no effect
   is under way, and every effect begun in this life has been remembered
   (eval_parallel waits for its branches). *)
SuspensionsAreStable == now.f = "suspended" => now.front = {} /\ handling = {}

=============================================================================
