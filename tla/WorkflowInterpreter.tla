-------------------------- MODULE WorkflowInterpreter --------------------------
(***************************************************************************)
(* The evaluator of Workflow Language v1 (interpreter.rs, struct Runtime). *)
(*                                                                         *)
(* A run is evaluated from its root, as a recovered Session is.  What the  *)
(* program has met so far in this process is its `past`, the sequence of   *)
(* its events: the effects that were answered, the Action guards that were *)
(* taken and the reads of an Agent's access.  Evaluation replays them, and *)
(* where it meets one that is not there it stops: the configuration is     *)
(* "blocked" and its `front` holds what the branches now wait for.  So     *)
(* Evaluated(past) is the position of a Runtime with that past.            *)
(*                                                                         *)
(* A request is <<key, kind, payload, local>>: the durable identity of the *)
(* occurrence, what is asked, and the handle or Agent it concerns here.    *)
(***************************************************************************)
EXTENDS WorkflowValues, WorkflowAst

CONSTANTS
    PureFuel,           \* PURE_FUEL: steps between two durable effects
    MaxBranches,        \* MAX_PARALLEL_BRANCHES
    MaxIterations       \* bound: turns of one while or loop that are evaluated

CONSTANT
    program             \* the frozen program being run

(***************************************************************************)
(* A configuration: the flow and value evaluation ended with, the scopes,  *)
(* EvalState, the requests waited for and the Agents whose guard is taken. *)
(* Flow::Next is "value" with null, which every consumer makes of it.      *)
(* st.keys are the keys of the effects passed; st.repeated says that two   *)
(* occurrences shared one, other than the turns of one while its           *)
(* condition's, st.idle that a loop came back to its head without passing  *)
(* a new one.                                                              *)
(***************************************************************************)
Start(env, past) ==
    [f |-> "value", v |-> Null, env |-> env, past |-> past, front |-> {}, held |-> {},
     st |-> [fuel |-> PureFuel, path |-> <<<<"root">>>>, effects |-> 0,
             keys |-> {}, repeated |-> FALSE, idle |-> FALSE]]

Then(c, Next(_)) == IF c.f = "value" THEN Next(c) ELSE c

Value(c, v) == IF Failed(v) THEN [c EXCEPT !.f = "error", !.v = v]
               ELSE [c EXCEPT !.v = v]

Refuse(c, errors) == Value(c, Fail(CHOOSE e \in errors : TRUE))

Stepped(c) == IF c.st.fuel = 0 THEN Value(c, Fail("fuel"))
              ELSE [c EXCEPT !.st.fuel = @ - 1]

(* Mutant: the path does not tell two turns or two branches apart. *)
UnderKind(c, element) ==
    [c EXCEPT !.st.path = Append(@, <<element[1], element[2]>>)]

Under(c, element) == [c EXCEPT !.st.path = Append(@, element)]

BackIn(c, outer) == [c EXCEPT !.st.path = outer.st.path]

(* Mutant: effects are numbered in the order they are met. *)
EffectKeyByCount(c, id, suffix) ==
    <<<<"root">>, <<"node", c.st.effects>>, <<"suffix", suffix>>>>

EffectKey(c, id, suffix) == c.st.path \o <<<<"node", id>>, <<"suffix", suffix>>>>

ExpectBool(c) == IF Tag(c.v) = "bool" THEN Value(c, Transparent(c.v))
                 ELSE Value(c, Fail("operands"))

(***************************************************************************)
(* Events and effects.                                                     *)
(***************************************************************************)
EventAt(c, key) == {i \in DOMAIN c.past : c.past[i].request[1] = key}

EventOf(c, key) == c.past[CHOOSE i \in EventAt(c, key) : TRUE]

Wait(c, request) == [c EXCEPT !.f = "blocked", !.front = {request}]

(* The one key that several occurrences share on purpose. *)
IsCreation(key) == key[2][1] = "agent"

(* Runtime::effect once handle() has returned: it counts and refuels. *)
Passed(c, key) ==
    [c EXCEPT !.st.effects = @ + 1,
              !.st.fuel = PureFuel,
              !.st.keys = @ \cup {key},
              !.st.repeated = @ \/ (key \in c.st.keys /\ ~IsCreation(key))]

Effect(c, key, kind, payload, local) ==
    IF c.f # "value" THEN c
    ELSE IF EventAt(c, key) = {} THEN Wait(c, <<key, kind, payload, local>>)
    ELSE LET e == EventOf(c, key)
             d == Passed(c, key)
         IN  CASE <<e.request[2], e.request[3]>> # <<kind, payload>>
                    \/ e.out[1] = "changed" -> Value(d, Fail("changed_request"))
               [] e.out[1] = "failed" -> Value(d, Fail("effect_failed"))
               [] e.out[1] = "suspended" -> [d EXCEPT !.f = "suspended"]
               [] OTHER -> [d EXCEPT !.v = e.out[2]]

AgentId(h) == <<h.template, h.key>>

(* ensure_agent: the key is made of the identity alone, so every handle of
   one Agent meets the same durable creation, wherever it is first used. *)
EnsureAgent(c, h) ==
    Effect(c, <<<<"root">>, <<"agent", AgentId(h)>>, <<"suffix", "create_agent">>>>,
           "create_agent", <<AgentId(h), h.options, h.declared>>, h.cell)

(* current_access of a handle: what the last answered call that wrote it
   said.  Clones of a handle share it, in whatever branch they are.  All
   handles of one Agent take the answer of its creation at once here; in the
   code each takes it when it first needs the Agent. *)
CurrentAccess(past, h) ==
    LET wrote == {i \in DOMAIN past :
                    /\ past[i].out[1] = "done"
                    /\ \/ /\ past[i].request[2] = "set_agent_access"
                          /\ past[i].request[4] = h.cell
                       \/ /\ past[i].request[2] = "create_agent"
                          /\ past[i].request[3][1] = AgentId(h)}
    IN  IF wrote = {} THEN h.declared
        ELSE past[CHOOSE i \in wrote : \A j \in wrote : j <= i].out[2]

ReadAccess(c, id, h) ==
    LET key == EffectKey(c, id, "access")
    IN  IF EventAt(c, key) = {} THEN Wait(c, <<key, "read", <<>>, h>>)
        ELSE Value(c, EventOf(c, key).out[2])

(***************************************************************************)
(* Agents and their Actions.                                               *)
(***************************************************************************)
ConstructAgent(c, id, name, args) ==
    LET template == program.agents[name]
        option(x, default) == IF Named(args, x) = {} THEN default ELSE ValueOf(args, x)
        key == CanonicalKey(option("key", Str("main")))
        access == option("access", template.access)
    IN  CASE \E i \in DOMAIN args : args[i].name = "" -> Value(c, Fail("named_only"))
          [] Repeats(args) -> Value(c, Fail("repeated_argument"))
          [] Failed(key) -> Value(c, key)
          [] ~IsAccess(access) -> Value(c, Fail("operands"))
          [] OTHER ->
               Value(c, <<"agent", [template |-> name, key |-> key,
                                    options |-> [x \in DOMAIN template.options |->
                                                   option(x, template.options[x])],
                                    declared |-> Transparent(access),
                                    cell |-> Append(c.st.path, <<"node", id>>)]>>)

SetAgentAccess(c, id, h, args) ==
    LET access == Bind(<<"access">>, args)[1]
    IN  IF BindErrors(<<"access">>, args) # {} THEN Refuse(c, BindErrors(<<"access">>, args))
        ELSE IF ~IsAccess(access) THEN Value(c, Fail("operands"))
        ELSE Effect(EnsureAgent(c, h), EffectKey(c, id, "set_agent_access"),
                    "set_agent_access", <<AgentId(h), Transparent(access)>>, h.cell)

(* Mutant: a refused guard is no obstacle. *)
GuardIgnored(c, id, agent) ==
    LET key == EffectKey(c, id, "guard")
    IN  IF c.f # "value" \/ EventAt(c, key) # {} THEN c
        ELSE Wait(c, <<key, "guard", <<>>, agent>>)

(* ActiveAgentGuard, taken for the whole Action and dropped with it. *)
Guard(c, id, agent) ==
    LET key == EffectKey(c, id, "guard")
    IN  IF c.f # "value" THEN c
        ELSE IF EventAt(c, key) = {} THEN Wait(c, <<key, "guard", <<>>, agent>>)
        ELSE IF EventOf(c, key).out[1] = "refused"
        THEN Value(c, Fail("agent_busy"))
        ELSE c

Holding(c, agent) == IF c.f = "blocked" THEN [c EXCEPT !.held = @ \cup {agent}] ELSE c

Invoke(c, id, h, action, suffix, input) ==
    Effect(c, EffectKey(c, id, suffix), "invoke_action",
           <<AgentId(h), action, suffix, input>>, h.cell)

(* The answer of an invocation is a response [valid, value, search]: does its
   output parse and validate against the result schema, to which value, and
   did it search the web. *)
Valid(c) == c.v[2].valid

Finalized(c, id, h, name, action) ==
    IF /\ c.f = "value"
       /\ \/ action.finalize = "if_needed" /\ action.result /\ ~Valid(c)
          \/ action.finalize = "after_search" /\ c.v[2].search
    THEN Invoke(c, id, h, name, "finalize", Null)
    ELSE c

Repaired(c, id, h, name, action, suffix) ==
    IF c.f = "value" /\ action.result /\ ~Valid(c)
    THEN Invoke(c, id, h, name, suffix, Null) ELSE c

ActionValue(c, id, action) ==
    IF c.f # "value" THEN c
    ELSE IF action.result /\ ~Valid(c) THEN Value(c, Fail("invalid_output"))
    ELSE Value(c, <<"action", c.v[2].value, EffectKey(c, id, "work")>>)

RunAction(c, id, h, name, args) ==
    LET actions == program.agents[h.template].actions
        action == actions[name]
        vs == Bind(action.parameters, args)
        json == ToJson(List(vs))
        humans == {i \in DOMAIN vs : vs[i][1] = "human"}
        input == IF humans = {} THEN json ELSE <<"human_request", vs[1][3]>>
        repaired(x, suffix) == Repaired(x, id, h, name, action, suffix)
        work(x) == Finalized(Invoke(x, id, h, name, "work", input), id, h, name, action)
    IN  CASE name \notin DOMAIN actions -> Value(c, Fail("no_such_action"))
          [] name \in DOMAIN actions /\ BindErrors(action.parameters, args) # {} ->
               Refuse(c, BindErrors(action.parameters, args))
          [] name \in DOMAIN actions /\ humans # {} /\ Len(vs) # 1 ->
               Value(c, Fail("human_argument"))
          [] name \in DOMAIN actions /\ Failed(json) -> Value(c, json)
          [] OTHER ->
               Then(Guard(EnsureAgent(c, h), id, AgentId(h)), LAMBDA g :
                    Holding(ActionValue(repaired(repaired(work(g), "repair:1"), "repair:2"),
                                        id, action),
                            AgentId(h)))

(***************************************************************************)
(* Effect builtins and project.changes.                                    *)
(***************************************************************************)
Parameters ==
    [ask_human |-> <<"question", "response", "agent">>,
     wait |-> <<"seconds", "minutes", "name">>,
     publish_artifact |-> <<"name", "content", "kind", "media_type", "metadata", "agent">>,
     publish_home |-> <<"action", "metadata">>,
     project_changes |-> <<"after_cursor", "exclude_current_program">>]

(* The Agent an effect is made for is created before it. *)
ForAgent(c, given) ==
    IF "agent" \notin DOMAIN given THEN c
    ELSE IF given.agent[1] # "agent" THEN Value(c, Fail("operands"))
    ELSE EnsureAgent(c, given.agent[2])

IsString(given, name) == name \in DOMAIN given /\ Tag(given[name]) = "string"

EffectBuiltin(c, id, name, args) ==
    LET given == Flexible(Parameters[name], args)
        request(x, payload) ==
            Effect(x, EffectKey(x, id, name), name, payload, <<>>)
        durations == DOMAIN given \cap {"seconds", "minutes"}
    IN  CASE FlexibleErrors(Parameters[name], args) # {} ->
               Refuse(c, FlexibleErrors(Parameters[name], args))
          [] name = "ask_human" ->
               IF ~IsString(given, "question") THEN Value(c, Fail("operands"))
               ELSE Then(request(ForAgent(c, given), <<given.question>>), LAMBDA r :
                         Value(r, <<"human", r.v, EffectKey(c, id, name)>>))
          [] name = "wait" ->
               IF Cardinality(durations) # 1 THEN Value(c, Fail("one_duration"))
               ELSE LET d == given[CHOOSE x \in durations : TRUE]
                    IN  IF Tag(d) # "int" THEN Value(c, Fail("operands"))
                        ELSE IF Transparent(d)[2] <= 0 THEN Value(c, Fail("duration"))
                        ELSE request(c, <<d>>)
          [] name = "publish_artifact" ->
               Then(ForAgent(c, given), LAMBDA a :
                    IF ~IsString(given, "name") \/ ~IsString(given, "content")
                    THEN Value(a, Fail("operands"))
                    ELSE request(a, <<given.name, Transparent(given.content)>>))
          [] name = "publish_home" ->
               IF "action" \notin DOMAIN given THEN Value(c, Fail("missing_argument"))
               ELSE IF given.action[1] # "action" THEN Value(c, Fail("operands"))
               ELSE request(c, <<given.action[3]>>)
          [] name = "project_changes" -> request(c, <<given>>)

(***************************************************************************)
(* The evaluator.                                                          *)
(***************************************************************************)
(* Eval takes an expression, a statement or a block: each costs a step. *)
RECURSIVE Eval(_, _), EvalAll(_, _, _), EvalKeys(_, _, _, _), EvalStatements(_, _),
          Iterate(_, _, _, _), ForEach(_, _, _, _), EvalArms(_, _, _)

(* Expressions in order; the value is the sequence of their values. *)
EvalAll(es, c, done) ==
    IF es = <<>> THEN [c EXCEPT !.v = done]
    ELSE Then(Eval(Head(es), c), LAMBDA x :
              EvalAll(Tail(es), x, Append(done, x.v)))

(* member(): fields of objects, artifacts and the run's context. *)
MemberOf(c, name) ==
    LET t == Transparent(c.v)
    IN  CASE t[1] \in {"object", "artifact"} ->
               IF name \in DOMAIN t[2] THEN Value(c, t[2][name]) ELSE Value(c, Fail("field"))
          [] t[1] = "context" ->
               IF name = "project" THEN Value(c, <<"project", 0>>)
               ELSE IF name \in DOMAIN t[2] THEN Value(c, t[2][name])
               ELSE Value(c, Fail("field"))
          [] OTHER -> Value(c, Fail("field"))

(* call_function: scopes of its own, and the call site in the path. *)
CallFunction(c, id, name, args) ==
    LET fn == program.functions[name]
        vs == Bind(fn.parameters, args)
        scope == [x \in {fn.parameters[i] : i \in DOMAIN fn.parameters} |->
                    Cell(FALSE, vs[CHOOSE i \in DOMAIN vs : fn.parameters[i] = x])]
        inside == [Under(c, <<"call", id, name>>) EXCEPT !.env = <<scope>>]
        r == BackIn(Eval(fn.body, inside), c)
        back == [r EXCEPT !.env = c.env]
    IN  IF BindErrors(fn.parameters, args) # {} THEN Refuse(c, BindErrors(fn.parameters, args))
        ELSE IF r.f \in {"value", "return"} THEN [back EXCEPT !.f = "value"]
        ELSE IF r.f \in {"break", "continue"} THEN Value(back, Fail("control_escaped"))
        ELSE back

(* range takes a step for every element. *)
PureCall(c, name, args) ==
    LET v == PureBuiltin(name, args)
        cost == IF name = "range" /\ v[1] = "list" THEN Len(v[2]) ELSE 0
    IN  IF cost > c.st.fuel THEN Value(c, Fail("fuel"))
        ELSE Value([c EXCEPT !.st.fuel = @ - cost], v)

MethodCall(c, e, args) ==
    Then(Eval(e.callee.value, c), LAMBDA r :
      LET t == Transparent(r.v)
          name == e.callee.name
      IN  CASE t[1] = "agent" /\ name = "set_access" -> SetAgentAccess(r, e.id, t[2], args)
            [] t[1] = "agent" /\ name # "set_access" -> RunAction(r, e.id, t[2], name, args)
            [] t[1] = "project" /\ name = "changes" ->
                 EffectBuiltin(r, e.id, "project_changes", args)
            [] OTHER -> Value(r, Fail("no_method")))

EvalCall(e, c) ==
    Then(EvalAll([i \in DOMAIN e.args |-> e.args[i].value], c, <<>>), LAMBDA x :
      LET args == [i \in DOMAIN e.args |->
                     [name |-> e.args[i].name, value |-> x.v[i]]]
          name == e.callee.name
      IN  CASE e.callee.k = "member" -> MethodCall(x, e, args)
            [] e.callee.k \notin {"member", "variable"} -> Value(x, Fail("dynamic_call"))
            [] name \in DOMAIN program.agents -> ConstructAgent(x, e.id, name, args)
            [] name \in DOMAIN program.functions -> CallFunction(x, e.id, name, args)
            [] name \in PureBuiltins -> PureCall(x, name, args)
            [] name \in DOMAIN Parameters -> EffectBuiltin(x, e.id, name, args)
            [] OTHER -> Value(x, Fail("unknown_builtin")))

(***************************************************************************)
(* Parallel branches: each runs from a copy of the scopes and the state.   *)
(***************************************************************************)
BranchFailed(r) == r.f \in {"error", "break", "continue"}

BranchError(r) == IF r.f = "error" THEN r.v ELSE Fail("control_escaped")

Smallest(S) == CHOOSE n \in S : \A m \in S : n <= m

Largest(S) == CHOOSE n \in S : \A m \in S : m <= n

(* merge_parallel_fuel, with the marks of the branches. *)
MergedState(st, rs) ==
    LET effects == Largest({rs[i].st.effects : i \in DOMAIN rs} \cup {st.effects})
        fuels == {rs[i].st.fuel : i \in DOMAIN rs} \cup {st.fuel}
        fresh(i) == rs[i].st.keys \ st.keys
        collide == \E i, j \in DOMAIN rs :
                      i < j /\ \E k \in fresh(i) \cap fresh(j) : ~IsCreation(k)
    IN  [st EXCEPT !.effects = effects,
                   !.fuel = IF effects > st.effects THEN PureFuel ELSE Smallest(fuels),
                   !.keys = @ \cup UNION {rs[i].st.keys : i \in DOMAIN rs},
                   !.repeated = @ \/ collide \/ \E i \in DOMAIN rs : rs[i].st.repeated,
                   !.idle = @ \/ \E i \in DOMAIN rs : rs[i].st.idle]

(* Mutant: one suspended branch suspends the expression at once. *)
JoinEarly(c, rs, results) ==
    LET flows == {rs[i].f : i \in DOMAIN rs}
        all == [c EXCEPT !.st = MergedState(c.st, rs),
                         !.front = UNION {rs[i].front : i \in DOMAIN rs}]
    IN  CASE "suspended" \in flows -> [all EXCEPT !.f = "suspended"]
          [] "suspended" \notin flows /\ "blocked" \in flows -> [all EXCEPT !.f = "blocked"]
          [] OTHER -> [all EXCEPT !.v = results]

(* An error ends the parallel expression at once and drops the other
   branches; a suspension is reported when every branch has settled. *)
Join(c, rs, results) ==
    LET bad == {i \in DOMAIN rs : BranchFailed(rs[i])}
        flows == {rs[i].f : i \in DOMAIN rs}
        all == [c EXCEPT !.st = MergedState(c.st, rs),
                         !.front = UNION {rs[i].front : i \in DOMAIN rs},
                         !.held = UNION {rs[i].held : i \in DOMAIN rs}]
    IN  CASE bad # {} -> Value(all, BranchError(rs[Smallest(bad)]))
          [] bad = {} /\ "blocked" \in flows -> [all EXCEPT !.f = "blocked"]
          [] bad = {} /\ "blocked" \notin flows /\ "capped" \in flows ->
               [all EXCEPT !.f = "capped"]
          [] bad = {} /\ flows \cap {"blocked", "capped"} = {} /\ "suspended" \in flows ->
               [all EXCEPT !.f = "suspended"]
          [] OTHER -> [all EXCEPT !.v = results]

EvalParallel(e, c) ==
    LET bs == e.branches
        rs == [i \in DOMAIN bs |->
                 Eval(bs[i].body, Under(c, <<"parallel", e.id, i - 1, bs[i].name>>))]
        names == {bs[i].name : i \in DOMAIN bs}
    IN  IF Len(bs) > MaxBranches THEN Value(c, Fail("too_many_branches"))
        ELSE Join(c, rs,
                  Obj([x \in names |-> rs[CHOOSE i \in DOMAIN bs : bs[i].name = x].v]))

(* The keys, one after the other in the parent's state. *)
EvalKeys(e, values, c, done) ==
    IF values = <<>> THEN [c EXCEPT !.v = done]
    ELSE LET env == Declare(Push(c.env), e.binding, FALSE, Head(values))
             r == [Eval(e.key, [c EXCEPT !.env = env]) EXCEPT !.env = c.env]
         IN  Then(r, LAMBDA x :
               LET key == CanonicalKey(x.v)
               IN  IF Failed(key) THEN Value(x, key)
                   ELSE IF \E i \in DOMAIN done : done[i] = key
                   THEN Value(x, Fail("duplicate_key"))
                   ELSE EvalKeys(e, Tail(values), x, Append(done, key)))

(* Mutant: the results of a parallel for in the order its branches ended. *)
PlacedAsEnded(rs) ==
    LET last(r) == Largest({0} \cup {k \in DOMAIN r.past : r.past[k].request[1] \in r.st.keys})
    IN  IF Len(rs) = 2 /\ last(rs[2]) < last(rs[1]) THEN List(<<rs[2].v, rs[1].v>>)
        ELSE List([i \in DOMAIN rs |-> rs[i].v])

(* The results in the order of the branches, whichever ended first *)
Placed(rs) == List([i \in DOMAIN rs |-> rs[i].v])

EvalParallelFor(e, c) ==
    Then(Eval(e.iterable, c), LAMBDA x :
      LET values == Elements(x.v)
      IN  IF Failed(values) THEN Value(x, values)
          ELSE IF Len(values[2]) > MaxBranches THEN Value(x, Fail("too_many_branches"))
          ELSE Then(EvalKeys(e, values[2], x, <<>>), LAMBDA y :
                 LET inside(i) ==
                       [Under(y, <<"parallel_for", e.id, i - 1, y.v[i]>>) EXCEPT
                          !.env = Declare(Push(c.env), e.binding, FALSE, values[2][i])]
                     rs == [i \in DOMAIN y.v |-> Eval(e.body, inside(i))]
                 IN  Join(y, rs, Placed(rs))))

EvalExpression(e, c) ==
    CASE e.k = "literal" -> Value(c, e.literal)
      [] e.k = "variable" -> Value(c, Lookup(c.env, e.name))
      [] e.k = "list" ->
           Then(EvalAll(e.values, c, <<>>), LAMBDA x : Value(x, List(x.v)))
      [] e.k = "object" ->
           Then(EvalAll([i \in DOMAIN e.fields |-> e.fields[i][2]], c, <<>>), LAMBDA x :
             LET at(n) == Largest({i \in DOMAIN e.fields : e.fields[i][1] = n})
             IN  Value(x, Obj([n \in {e.fields[i][1] : i \in DOMAIN e.fields} |-> x.v[at(n)]])))
      [] e.k = "unary" ->
           Then(Eval(e.value, c), LAMBDA x : Value(x, ApplyUnary(e.op, x.v)))
      [] e.k = "binary" ->
           Then(Eval(e.left, c), LAMBDA l :
             LET decided == IF e.op = "coalesce" THEN Tag(l.v) # "null"
                            ELSE Transparent(l.v) = Bool(e.op = "or")
                 logical == e.op \in {"and", "or"}
             IN  IF logical /\ Tag(l.v) # "bool" THEN ExpectBool(l)
                 ELSE IF (logical \/ e.op = "coalesce") /\ decided
                 THEN Value(l, IF logical THEN Transparent(l.v) ELSE l.v)
                 ELSE Then(Eval(e.right, l), LAMBDA r :
                        IF logical THEN ExpectBool(r)
                        ELSE Value(r, ApplyBinary(e.op, l.v, r.v))))
      [] e.k = "member" -> Then(Eval(e.value, c), LAMBDA x : MemberOf(x, e.name))
      [] e.k = "access" ->
           Then(Eval(e.value, c), LAMBDA x :
             IF Tag(x.v) = "agent" THEN ReadAccess(x, e.id, x.v[2])
             ELSE Value(x, Fail("field")))
      [] e.k = "index" ->
           Then(Eval(e.value, c), LAMBDA x :
           Then(Eval(e.index, x), LAMBDA y : Value(y, IndexValue(x.v, y.v))))
      [] e.k = "call" -> EvalCall(e, c)
      [] e.k = "await" -> Eval(e.value, c)
      [] e.k = "parallel" -> EvalParallel(e, c)
      [] e.k = "parallel_for" -> EvalParallelFor(e, c)

(***************************************************************************)
(* Statements.                                                             *)
(***************************************************************************)
Leaving(r) == r.f \in {"return", "error", "suspended", "blocked", "capped"}

(* Every turn of a while or loop runs its body under its own number.  The
   condition of a while is evaluated outside it, in every turn under the same
   keys: `asked` are those of the turns before, which it may pass again. *)
Iterate(s, c, n, asked) ==
    Then(Stepped(c), LAMBDA a :
    Then(IF s.k = "loop" THEN Value(a, Bool(TRUE))
         ELSE Then(Eval(s.cond, [a EXCEPT !.st.keys = @ \ asked]), ExpectBool), LAMBDA x :
      LET b == [x EXCEPT !.st.keys = @ \cup asked]
          r == BackIn(Eval(s.body, Under(b, <<"loop", s.id, n>>)), c)
          idle == r.st.keys = c.st.keys
      IN  CASE b.v = Bool(FALSE) -> Value(b, Null)
            [] b.v = Bool(TRUE) /\ n = MaxIterations -> [b EXCEPT !.f = "capped"]
            [] OTHER ->
                 IF Leaving(r) THEN r
                 ELSE IF r.f = "break" THEN Value([r EXCEPT !.f = "value"], Null)
                 ELSE Iterate(s, [r EXCEPT !.f = "value", !.st.idle = @ \/ idle], n + 1,
                              asked \cup (b.st.keys \ a.st.keys))))

ForEach(s, values, c, n) ==
    IF values = <<>> THEN Value(c, Null)
    ELSE Then(Stepped(c), LAMBDA a :
      LET inside == [Under(a, <<"for", s.id, n>>) EXCEPT
                       !.env = Declare(Push(@), s.binding, FALSE, Head(values))]
          b == BackIn(Eval(s.body, inside), c)
          r == [b EXCEPT !.env = Pop(@)]
      IN  IF Leaving(r) THEN r
          ELSE IF r.f = "break" THEN Value([r EXCEPT !.f = "value"], Null)
          ELSE ForEach(s, Tail(values), [r EXCEPT !.f = "value"], n + 1))

Matches(arm, v) ==
    \E i \in DOMAIN arm.patterns :
        \/ arm.patterns[i] = <<"wildcard">>
        \/ /\ arm.patterns[i][1] = "value"
           /\ RuntimeEqual(v, arm.patterns[i][2]) = Bool(TRUE)

EvalArms(arms, v, c) ==
    IF arms = <<>> THEN Value(c, Fail("no_matching_arm"))
    ELSE IF Matches(Head(arms), v) THEN Eval(Head(arms).body, c)
    ELSE EvalArms(Tail(arms), v, c)

AssignTo(s, c) ==
    LET left == Lookup(c.env, s.name)
        v == IF s.op = "set" THEN c.v
             ELSE IF Failed(left) THEN left ELSE ApplyBinary(s.op, left, c.v)
    IN  IF Failed(v) THEN Value(c, v)
        ELSE IF AssignError(c.env, s.name) # {} THEN Refuse(c, AssignError(c.env, s.name))
        ELSE Value([c EXCEPT !.env = Assign(@, s.name, v)], Null)

EvalStatement(s, c) ==
    CASE s.k = "let" ->
           Then(Eval(s.value, c), LAMBDA x :
             IF DeclareError(x.env, s.name) # {} THEN Refuse(x, DeclareError(x.env, s.name))
             ELSE Value([x EXCEPT !.env = Declare(@, s.name, s.mutable, x.v)], Null))
      [] s.k = "assign" -> Then(Eval(s.value, c), LAMBDA x : AssignTo(s, x))
      [] s.k = "expression" -> Then(Eval(s.value, c), LAMBDA x : Value(x, Null))
      [] s.k = "if" ->
           Then(Then(Eval(s.cond, c), ExpectBool), LAMBDA x :
             IF x.v[2] THEN Eval(s.then, x)
             ELSE IF s.else = <<>> THEN Value(x, Null) ELSE Eval(s.else[1], x))
      [] s.k \in {"while", "loop"} -> Iterate(s, c, 0, {})
      [] s.k = "for" ->
           Then(Eval(s.iterable, c), LAMBDA x :
             IF Failed(Elements(x.v)) THEN Value(x, Elements(x.v))
             ELSE ForEach(s, Elements(x.v)[2], x, 0))
      [] s.k = "match" ->
           Then(Eval(s.value, c), LAMBDA x : EvalArms(s.arms, x.v, x))
      [] s.k \in {"break", "continue"} -> [c EXCEPT !.f = s.k]
      [] s.k = "return" ->
           Then(Eval(s.value, c), LAMBDA x : [x EXCEPT !.f = "return"])

EvalStatements(ss, c) ==
    IF ss = <<>> THEN Value(c, Null)
    ELSE Then(Eval(Head(ss), c), LAMBDA x : EvalStatements(Tail(ss), x))

EvalBlock(b, c) ==
    LET body == EvalStatements(b.statements, [c EXCEPT !.env = Push(@)])
        r == Then(body, LAMBDA x :
                  IF b.tail = <<>> THEN Value(x, Null) ELSE Eval(b.tail[1], x))
    IN  [r EXCEPT !.env = Pop(@)]

Eval(x, c0) ==
    Then(Stepped(c0), LAMBDA c :
      CASE IsBlock(x) -> EvalBlock(x, c)
        [] IsStatement(x) -> EvalStatement(x, c)
        [] OTHER -> EvalExpression(x, c))

(***************************************************************************)
(* execute_inner: the whole run, whose value crosses a JSON boundary.      *)
(***************************************************************************)
Context ==
    <<"context", [request |-> Str("request"), params |-> program.params]>>

Outcome(r) ==
    CASE r.f \in {"value", "return"} -> Value([r EXCEPT !.f = "value"], ToJson(r.v))
      [] r.f \in {"break", "continue"} -> Value(r, Fail("control_escaped"))
      [] OTHER -> r

Evaluated(past) ==
    LET env == <<[x \in {program.run} |-> Cell(FALSE, Context)]>>
    IN  Outcome(Eval(program.body, Start(env, past)))
=============================================================================
