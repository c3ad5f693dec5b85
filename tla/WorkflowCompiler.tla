--------------------------- MODULE WorkflowCompiler ---------------------------
(***************************************************************************)
(* The static checks of a Workflow program (language/compiler.rs): the     *)
(* Validator, the function call graph, and the control-flow analysis that  *)
(* looks for a durable await on every back edge.  A check returns the set  *)
(* of its diagnostics; compile_source accepts a program that has none.     *)
(*                                                                         *)
(* A program is [agents, functions, run, body]: templates and functions by *)
(* name, the name of run's parameter and its block.  A template is         *)
(* [actions, access], an Action [parameters, result, finalize, tools], a   *)
(* function [parameters, body].                                            *)
(***************************************************************************)
EXTENDS WorkflowAst, FiniteSets

CONSTANT KnownTools

Many == 99      \* usize::MAX in an arity

Arity ==
    [len |-> <<1, 1>>, range |-> <<1, 3>>, enumerate |-> <<1, 1>>,
     zip |-> <<2, Many>>, min |-> <<1, Many>>, max |-> <<1, Many>>,
     clamp |-> <<3, 3>>, get |-> <<2, 3>>, append |-> <<2, 2>>,
     extend |-> <<2, 2>>, update |-> <<2, 2>>, slice |-> <<2, 3>>,
     is_null |-> <<1, 1>>, is_bool |-> <<1, 1>>, is_int |-> <<1, 1>>,
     is_number |-> <<1, 1>>, is_string |-> <<1, 1>>, is_list |-> <<1, 1>>,
     is_object |-> <<1, 1>>, assert |-> <<1, 2>>, fail |-> <<1, 1>>,
     ask_human |-> <<1, 3>>, wait |-> <<0, 3>>,
     publish_artifact |-> <<2, 6>>, publish_home |-> <<1, 2>>]

EffectBuiltins == {"ask_human", "wait", "publish_artifact", "publish_home"}

Error(condition, message) == IF condition THEN {message} ELSE {}

(***************************************************************************)
(* The call graph: collect_function_graph, reject_recursion and            *)
(* resolve_effectful_functions.                                            *)
(***************************************************************************)
CalledFunctions(P, f) ==
    LET es == WalkBlock(P.functions[f].body)
    IN  {es[i].callee.name : i \in {i \in DOMAIN es : IsNamedCall(es[i])}}
           \cap DOMAIN P.functions

(* The functions from which one of `targets` can be reached. *)
RECURSIVE Reaching(_, _)
Reaching(P, targets) ==
    LET more == targets \cup {f \in DOMAIN P.functions :
                                 CalledFunctions(P, f) \cap targets # {}}
    IN  IF more = targets THEN targets ELSE Reaching(P, more)

Recursive(P) == \E f \in DOMAIN P.functions :
                   CalledFunctions(P, f) \cap Reaching(P, {f}) # {}

Effectful(P) ==
    Reaching(P, {f \in DOMAIN P.functions : HasAwait(WalkBlock(P.functions[f].body))})

(***************************************************************************)
(* Does every way back to the head of a loop pass an await?                *)
(***************************************************************************)
RECURSIVE GuaranteesAwait(_)
GuaranteesAwait(e) ==
    CASE e.k = "await" -> TRUE
      [] e.k = "list" -> \E i \in DOMAIN e.values : GuaranteesAwait(e.values[i])
      [] e.k = "object" -> \E i \in DOMAIN e.fields : GuaranteesAwait(e.fields[i][2])
      [] e.k \in {"unary", "member", "access"} -> GuaranteesAwait(e.value)
      [] e.k = "index" -> GuaranteesAwait(e.value) \/ GuaranteesAwait(e.index)
      [] e.k = "call" -> \/ GuaranteesAwait(e.callee)
                         \/ \E i \in DOMAIN e.args : GuaranteesAwait(e.args[i].value)
      [] e.k = "binary" -> \/ GuaranteesAwait(e.left)
                           \/ /\ e.op \notin {"and", "or", "coalesce"}
                              /\ GuaranteesAwait(e.right)
      [] e.k = "parallel_for" -> GuaranteesAwait(e.iterable)
      [] e.k \in {"literal", "variable", "parallel"} -> FALSE

FlowState(awaited, control) == [awaited |-> awaited, control |-> control]

RECURSIVE FlowBlock(_, _), FlowStatements(_, _), FlowStatement(_, _), FlowArm(_, _)

(* The states in which a statement entered normally can be left.  The body of
   a nested loop is not looked into. *)
FlowStatement(s, awaited) ==
    LET passing(e) == awaited \/ GuaranteesAwait(e)
        one(a, control) == {FlowState(a, control)}
        entered(a) == one(a, "normal")
    IN  CASE s.k \in {"let", "assign", "expression"} -> one(passing(s.value), "normal")
          [] s.k = "return" -> one(passing(s.value), "return")
          [] s.k \in {"break", "continue"} -> one(awaited, s.k)
          [] s.k = "if" ->
               FlowBlock(s.then, entered(passing(s.cond))) \cup
               (IF s.else = <<>> THEN entered(passing(s.cond))
                ELSE FlowBlock(s.else[1], entered(passing(s.cond))))
          [] s.k = "match" ->
               UNION {FlowArm(s.arms[i].body, passing(s.value)) : i \in DOMAIN s.arms}
          [] s.k = "while" -> entered(passing(s.cond))
          [] s.k = "loop" -> entered(awaited)
          [] s.k = "for" -> entered(passing(s.iterable))

FlowArm(x, awaited) ==
    IF IsBlock(x) THEN FlowBlock(x, {FlowState(awaited, "normal")})
    ELSE IF IsStatement(x) THEN FlowStatement(x, awaited)
    ELSE {FlowState(awaited \/ GuaranteesAwait(x), "normal")}

FlowStatements(ss, states) ==
    IF ss = <<>> THEN states
    ELSE LET running == {f \in states : f.control = "normal"}
         IN  FlowStatements(Tail(ss),
                (states \ running) \cup
                UNION {FlowStatement(Head(ss), f.awaited) : f \in running})

FlowBlock(b, states) ==
    LET left == FlowStatements(b.statements, states)
    IN  IF b.tail = <<>> THEN left
        ELSE {IF f.control = "normal"
              THEN FlowState(f.awaited \/ GuaranteesAwait(b.tail[1]), "normal")
              ELSE f : f \in left}

BackEdgesAwait(body, awaited) ==
    \A f \in FlowBlock(body, {FlowState(awaited, "normal")}) :
        f.control \in {"normal", "continue"} => f.awaited

(***************************************************************************)
(* Calls.                                                                  *)
(***************************************************************************)
ArityErrors(actual, bounds) ==
    Error(actual < bounds[1] \/ actual > bounds[2], "arity")

IsNamed(arg) == arg.name # ""

AnyRepeat(args) == \E i, j \in DOMAIN args :
                      i # j /\ IsNamed(args[i]) /\ args[i].name = args[j].name

ParameterErrors(parameters, args) ==
    LET known == {parameters[i] : i \in DOMAIN parameters}
        named == {args[i].name : i \in {i \in DOMAIN args : IsNamed(args[i])}}
    IN  IF named = {}
        THEN ArityErrors(Len(args), <<Len(parameters), Len(parameters)>>)
        ELSE Error(~(named \subseteq known), "unknown_argument") \cup
             Error(AnyRepeat(args), "repeated_argument") \cup
             Error(~(known \subseteq named), "missing_argument")

OptionErrors(options, args) ==
    Error(\E i \in DOMAIN args : IsNamed(args[i]) /\ args[i].name \notin options,
          "unknown_option") \cup
    Error(AnyRepeat(args), "duplicate_option") \cup
    Error(Len(args) > Cardinality(options), "too_many_arguments")

Binding(mutable, template) == [mutable |-> mutable, template |-> template]

NoBindings == [x \in {} |-> Binding(FALSE, "")]

Bound(scopes, name) == \E i \in DOMAIN scopes : name \in DOMAIN scopes[i]

Innermost(scopes, name) ==
    scopes[CHOOSE i \in DOMAIN scopes :
              /\ name \in DOMAIN scopes[i]
              /\ \A j \in DOMAIN scopes : name \in DOMAIN scopes[j] => j <= i][name]

Bind1(scope, name, b) ==
    [x \in DOMAIN scope \cup {name} |-> IF x = name THEN b ELSE scope[x]]

AgentTemplateOf(P, e, scopes) ==
    IF e.k # "variable" THEN ""
    ELSE IF Bound(scopes, e.name) /\ Innermost(scopes, e.name).template # ""
    THEN Innermost(scopes, e.name).template
    ELSE IF e.name \in DOMAIN P.agents THEN e.name ELSE ""

(* The Actions called `name` in any template: a receiver of unknown type may
   be any of them, if they take the same parameters. *)
Candidates(P, name) ==
    {P.agents[a].actions[name].parameters :
       a \in {a \in DOMAIN P.agents : name \in DOMAIN P.agents[a].actions}}

MemberCallErrors(P, e, scopes, inAwait) ==
    LET name == e.callee.name
        template == AgentTemplateOf(P, e.callee.value, scopes)
        unawaited == Error(~inAwait, "must_be_awaited")
    IN  CASE name = "set_access" -> ArityErrors(Len(e.args), <<1, 1>>) \cup unawaited
          [] name # "set_access" /\ template # "" ->
               IF name \in DOMAIN P.agents[template].actions
               THEN ParameterErrors(P.agents[template].actions[name].parameters, e.args)
                    \cup unawaited
               ELSE {"no_such_action"}
          [] name = "changes" /\ template = "" ->
               OptionErrors({"after_cursor", "exclude_current_program"}, e.args)
                 \cup unawaited
          [] OTHER ->
               IF Candidates(P, name) = {} THEN {"no_such_method"}
               ELSE IF Cardinality(Candidates(P, name)) > 1 THEN {"ambiguous_action"}
               ELSE ParameterErrors(CHOOSE ps \in Candidates(P, name) : TRUE, e.args)
                      \cup unawaited

AgentOptions == {"key", "name", "role", "system", "model", "skills", "access"}

CallErrors(P, e, scopes, inAwait) ==
    LET name == e.callee.name
        n == Len(e.args)
        awaitIff(effectful) == Error(effectful # inAwait, "must_be_awaited_or_not")
    IN  CASE e.callee.k = "member" -> MemberCallErrors(P, e, scopes, inAwait)
          [] e.callee.k \notin {"member", "variable"} -> {"dynamic_call"}
          [] e.callee.k = "variable" /\ name \in DOMAIN P.agents ->
               OptionErrors(AgentOptions, e.args) \cup
               Error(\E i \in DOMAIN e.args : ~IsNamed(e.args[i]), "named_only")
          [] e.callee.k = "variable" /\ name \in DOMAIN P.functions ->
               ParameterErrors(P.functions[name].parameters, e.args) \cup
               awaitIff(name \in Effectful(P))
          [] e.callee.k = "variable" /\ name = "ask_human" ->
               ArityErrors(n, Arity[name]) \cup
               OptionErrors({"question", "response", "agent"}, e.args) \cup
               Error(~inAwait, "must_be_awaited_or_not")
          [] e.callee.k = "variable" /\ name \in DOMAIN Arity /\ name # "ask_human" ->
               ArityErrors(n, Arity[name]) \cup awaitIff(name \in EffectBuiltins)
          [] OTHER -> {"dynamic_call"}

(***************************************************************************)
(* Expressions, statements and blocks.  The receiver of a method call is   *)
(* looked at by CallErrors only for its template: nothing validates it.    *)
(***************************************************************************)
RECURSIVE ExpressionErrors(_, _, _, _), StatementErrors(_, _, _, _),
          BlockErrors(_, _, _, _), SequenceErrors(_, _, _, _), ArmErrors(_, _, _, _)

ExpressionErrors(P, e, scopes, inAwait) ==
    LET sub(x) == ExpressionErrors(P, x, scopes, FALSE)
        every(es) == UNION {sub(es[i]) : i \in DOMAIN es}
    IN  CASE e.k = "literal" -> {}
          [] e.k = "variable" ->
               Error(~Bound(scopes, e.name) /\
                     e.name \notin DOMAIN P.functions \cup DOMAIN P.agents \cup DOMAIN Arity,
                     "undefined_name")
          [] e.k = "list" -> every(e.values)
          [] e.k = "object" -> UNION {sub(e.fields[i][2]) : i \in DOMAIN e.fields}
          [] e.k \in {"unary", "member", "access"} -> sub(e.value)
          [] e.k = "binary" -> sub(e.left) \cup sub(e.right)
          [] e.k = "index" -> sub(e.value) \cup sub(e.index)
          [] e.k = "call" ->
               UNION {sub(e.args[i].value) : i \in DOMAIN e.args} \cup
               CallErrors(P, e, scopes, inAwait)
          [] e.k = "await" ->
               Error(e.value.k # "call", "await_needs_call") \cup
               ExpressionErrors(P, e.value, scopes, TRUE)
          [] e.k = "parallel" ->
               Error(\E i, j \in DOMAIN e.branches :
                        i # j /\ e.branches[i].name = e.branches[j].name,
                     "duplicate_branch") \cup
               UNION {BlockErrors(P, e.branches[i].body, scopes, 0) : i \in DOMAIN e.branches}
          [] e.k = "parallel_for" ->
               LET inner == Append(scopes, Bind1(NoBindings, e.binding, Binding(FALSE, "")))
               IN  sub(e.iterable) \cup
                   ExpressionErrors(P, e.key, inner, FALSE) \cup
                   Error(HasAwait(Walk(e.key)), "impure_key") \cup
                   BlockErrors(P, e.body, inner, 0)

StatementErrors(P, s, scopes, depth) ==
    LET expr(e) == ExpressionErrors(P, e, scopes, FALSE)
    IN  CASE s.k = "let" ->
               expr(s.value) \cup
               Error(s.name \in DOMAIN scopes[Len(scopes)], "duplicate_binding")
          [] s.k = "assign" ->
               expr(s.value) \cup
               (IF ~Bound(scopes, s.name) THEN {"undefined_name"}
                ELSE Error(~Innermost(scopes, s.name).mutable, "immutable_binding"))
          [] s.k \in {"expression", "return"} -> expr(s.value)
          [] s.k = "if" ->
               expr(s.cond) \cup BlockErrors(P, s.then, scopes, depth) \cup
               (IF s.else = <<>> THEN {} ELSE BlockErrors(P, s.else[1], scopes, depth))
          [] s.k = "while" ->
               expr(s.cond) \cup BlockErrors(P, s.body, scopes, depth + 1) \cup
               Error(~BackEdgesAwait(s.body, GuaranteesAwait(s.cond)), "back_edge")
          [] s.k = "loop" ->
               BlockErrors(P, s.body, scopes, depth + 1) \cup
               Error(~BackEdgesAwait(s.body, FALSE), "back_edge")
          [] s.k = "for" ->
               expr(s.iterable) \cup
               BlockErrors(P, s.body,
                           Append(scopes, Bind1(NoBindings, s.binding, Binding(FALSE, ""))),
                           depth + 1)
          [] s.k = "match" ->
               expr(s.value) \cup
               UNION {ArmErrors(P, s.arms[i].body, scopes, depth) : i \in DOMAIN s.arms} \cup
               Error(~\E i \in DOMAIN s.arms : \E j \in DOMAIN s.arms[i].patterns :
                         s.arms[i].patterns[j] = <<"wildcard">>, "no_wildcard_arm")
          [] s.k \in {"break", "continue"} -> Error(depth = 0, "control_outside_loop")

ArmErrors(P, x, scopes, depth) ==
    IF IsBlock(x) THEN BlockErrors(P, x, scopes, depth)
    ELSE IF IsStatement(x) THEN StatementErrors(P, x, scopes, depth)
    ELSE ExpressionErrors(P, x, scopes, FALSE)

(* Mutant: every binding may be assigned to. *)
ScopesAfterMutable(P, s, scopes) ==
    LET n == Len(scopes)
    IN  IF s.k # "let" \/ (s.k = "let" /\ s.name \in DOMAIN scopes[n]) THEN scopes
        ELSE [scopes EXCEPT ![n] = Bind1(@, s.name, Binding(TRUE, ""))]

(* A let is visible to the statements after it. *)
ScopesAfter(P, s, scopes) ==
    LET n == Len(scopes)
        template == IF IsNamedCall(s.value) /\ s.value.callee.name \in DOMAIN P.agents
                    THEN s.value.callee.name ELSE ""
    IN  IF s.k # "let" \/ (s.k = "let" /\ s.name \in DOMAIN scopes[n]) THEN scopes
        ELSE [scopes EXCEPT ![n] = Bind1(@, s.name, Binding(s.mutable, template))]

SequenceErrors(P, b, scopes, depth) ==
    IF b.statements = <<>>
    THEN IF b.tail = <<>> THEN {}
         ELSE ExpressionErrors(P, b.tail[1], scopes, FALSE)
    ELSE LET s == Head(b.statements)
         IN  StatementErrors(P, s, scopes, depth) \cup
             SequenceErrors(P, Block(Tail(b.statements), b.tail),
                            ScopesAfter(P, s, scopes), depth)

BlockErrors(P, b, scopes, depth) ==
    SequenceErrors(P, b, Append(scopes, NoBindings), depth)

(***************************************************************************)
(* Declarations, and the whole program.                                    *)
(***************************************************************************)
ToolErrors(tools) ==
    Error(\E i, j \in DOMAIN tools : i # j /\ tools[i] = tools[j], "duplicate_tool") \cup
    Error(\E i \in DOMAIN tools : tools[i] \notin KnownTools, "unknown_tool")

DeclarationErrors(P) ==
    Error(DOMAIN P.agents \cap DOMAIN P.functions # {} \/
          (DOMAIN P.agents \cup DOMAIN P.functions) \cap DOMAIN Arity # {},
          "name_conflict") \cup
    UNION {UNION {ToolErrors(P.agents[a].actions[x].tools) :
                    x \in DOMAIN P.agents[a].actions} : a \in DOMAIN P.agents}

ParameterScope(names) == [x \in names |-> Binding(FALSE, "")]

Diagnostics(P) ==
    DeclarationErrors(P) \cup
    Error(Recursive(P), "recursion") \cup
    UNION {LET f == P.functions[x]
           IN  BlockErrors(P, f.body,
                           <<ParameterScope({f.parameters[i] : i \in DOMAIN f.parameters})>>, 0) :
             x \in DOMAIN P.functions} \cup
    BlockErrors(P, P.body, <<ParameterScope({P.run})>>, 0)

Accepted(P) == Diagnostics(P) = {}
=============================================================================
