----------------------------- MODULE WorkflowRun -----------------------------
(***************************************************************************)
(* A durable run (DurableRun) of programs that the interpreter of Workflow *)
(* Language v1 evaluates and its compiler has accepted.                    *)
(***************************************************************************)
EXTENDS DurableRun, WorkflowValues, WorkflowCompiler
LOCAL INSTANCE Functions

CONSTANTS
    PureFuel,           \* PURE_FUEL: steps between two durable effects
    MaxBranches,        \* MAX_PARALLEL_BRANCHES
    MaxIterations       \* bound: turns of one while or loop that are evaluated

Interpreter(p) == INSTANCE WorkflowInterpreter WITH program <- p

(* A Runtime that has met these events *)
PositionOf(p, events) == Interpreter(p)!Evaluated(events)

AccessAfter(events, h) == Interpreter(<<>>)!CurrentAccess(events, h)

Rank(access) == CHOOSE i \in DOMAIN AccessPresets : AccessPresets[i] = access[2]

(* The access an Agent is created with: the Session's override for its class
   or else the declared one, and no more than the Session's own *)
EffectiveAccess(p, class, declared) ==
    LET requested == IF class \in DOMAIN p.overrides THEN p.overrides[class] ELSE declared
    IN  IF Rank(requested) <= Rank(p.access) THEN requested ELSE p.access

(* What a dispatched effect can answer.  The answer to an invocation is any
   of the responses the program's Actions may get. *)
AnswersTo(p, asked) ==
    CASE asked[1] = "invoke_action" -> {<<"response", r>> : r \in p.responses}
      [] asked[1] = "create_agent" -> {EffectiveAccess(p, asked[2][1][1], asked[2][3])}
      [] asked[1] = "set_agent_access" ->
           {a \in {asked[2][2]} : Rank(a) <= Rank(p.access)}
      [] asked[1] = "ask_human" -> {Str("answer")}
      [] asked[1] = "wait" -> {Null}
      [] asked[1] = "project_changes" -> {Obj([cursor |-> Str("end")])}
      [] OTHER -> {<<"artifact", [id |-> Str("artifact")]>>}

(* Any effect of some programs may fail, and what asks for more access than
   the Session has does *)
MayFailTo(p, asked) == p.mayFail \/ AnswersTo(p, asked) = {}

(***************************************************************************)
(* Properties of the language.                                             *)
(***************************************************************************)

(* Two occurrences of an effect in a run never share a key: loops, function
   calls and parallel branches each set theirs apart (EvalState::effect_key).
   The creation of an Agent is the exception the code makes on purpose, and
   what the condition of a while asks is, from turn to turn, one occurrence:
   the condition is evaluated outside of its loop's numbers, and meets in every
   turn the answer it had in the first. *)
OccurrencesHaveTheirOwnKey == phase \notin {"new", "rejected"} => ~now.st.repeated

(* A program the compiler accepted passes a new durable effect on every way
   back to the head of a while or loop (back_edges_await against
   Runtime::eval_statement). *)
BackEdgesAreDurable == phase \notin {"new", "rejected"} => ~now.st.idle

ArgumentErrors == {"arity", "missing_argument", "unknown_argument", "named_only",
                   "positional_only", "too_many_arguments", "repeated_argument"}

(* What the Validator rules out in the code it reads: an undefined or
   duplicate name, a rebound let, a loop control that escapes, a match without
   an arm, a call of something else or with the wrong arguments *)
StaticErrors ==
    {"undefined_binding", "duplicate_binding", "immutable_binding", "control_escaped",
     "no_matching_arm", "dynamic_call", "unknown_builtin", "no_such_action"}
      \cup ArgumentErrors

Bodies(p) == {p.body} \cup {p.functions[x].body : x \in DOMAIN p.functions}

Calls(p) == {e \in UNION {Range(WalkBlock(b)) : b \in Bodies(p)} : e.k = "call"}

Declared(p) == DOMAIN p.functions \cup DOMAIN p.agents \cup DOMAIN Arity

(* A function, an Agent or a builtin is named without being called: the
   Validator takes it for a value, which the interpreter does not have. *)
NamesAsValues(p) ==
    \E b \in Bodies(p), x \in Declared(p) :
        LET es == WalkBlock(b)
            called == {i \in DOMAIN es : IsNamedCall(es[i]) /\ es[i].callee.name = x}
        IN  Cardinality({i \in DOMAIN es : es[i] = Var(x)}) # Cardinality(called)

(* The Validator counts the arguments of most builtins and does not read their
   names; elsewhere it looks at no positional argument when there is a named one. *)
LooseArguments(e) ==
    /\ \E i \in DOMAIN e.args : IsNamed(e.args[i])
    /\ \/ e.callee.name \in DOMAIN Arity \cup {"set_access", "changes"}
       \/ \E i \in DOMAIN e.args : ~IsNamed(e.args[i])

(* It never validates the receiver of a method call, and looks only for its
   template. *)
Methods(p) == {e \in Calls(p) : e.callee.k = "member"}

IsPlain(p, receiver) ==
    \A e \in Range(Walk(receiver)) :
        \/ e.k \in {"literal", "variable", "member"}
        \/ (IsNamedCall(e) /\ e.callee.name \in DOMAIN p.agents)

(* The errors of StaticErrors that an accepted program may still meet *)
Unread(p) ==
    {x \in {"undefined_binding"} : NamesAsValues(p) \/ Methods(p) # {}} \cup
    {x \in ArgumentErrors : \E e \in Calls(p) :
        \/ LooseArguments(e)
        \/ /\ e \in Methods(p)
           /\ Cardinality(Candidates(p, e.callee.name)) > 1} \cup
    {x \in {"no_such_action"} : \E e \in Methods(p), a \in DOMAIN p.agents :
        e.callee.name \notin DOMAIN p.agents[a].actions \cup {"set_access", "changes"}} \cup
    {x \in StaticErrors : \E e \in Methods(p) : ~IsPlain(p, e.callee.value)}

(* A program that compile_source accepted fails for a reason the Validator
   rules out only where the Validator does not look: a declared name used as a
   value, the receiver of a method call, the arguments it only counts.  There
   it does fail, and programs that do are among those of the run. *)
AcceptedProgramsStayInTheLanguage ==
    now.f = "error" => now.v[2] \notin StaticErrors \ Unread(program)

(* All pasts that continue these by events the program may meet *)
RECURSIVE Continued(_, _)
Continued(p, pasts) ==
    LET next(s) == UNION {{Append(s, [request |-> q, out |-> o]) : o \in Outcomes(p, s, q)} :
                            q \in PositionOf(p, s).front}
        longer == UNION {next(s) : s \in pasts}
    IN  IF longer = {} THEN pasts ELSE pasts \cup Continued(p, longer)

(* What an accepted program asks under a key, and what it returns, depend on
   the answers to its effects alone and not on the order in which its branches
   had them, what was suspended, or who took a guard first (eval_parallel,
   effect_key).  This is the condition of a replay, over all pairs of lives a
   program can have. *)
AcceptedProgramsAreDeterministic ==
    phase = "new" /\ Accepts(program) =>
      \E lives \in {Continued(program, {<<>>})} :
        \E at \in {[s \in lives |-> PositionOf(program, s)]} :
          \A s, t \in lives : Alike(s, at[s], t, at[t])

=============================================================================
