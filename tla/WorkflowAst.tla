------------------------------ MODULE WorkflowAst ------------------------------
(***************************************************************************)
(* The syntax tree of Workflow Language v1 (language/ast.rs): constructors *)
(* for the nodes, and the walk the compiler's searches share.  Only the    *)
(* nodes whose identity reaches an effect key carry their NodeId.          *)
(***************************************************************************)
EXTENDS Integers, Sequences
LOCAL INSTANCE SequencesExt

Lit(v) == [k |-> "literal", literal |-> v]
Var(name) == [k |-> "variable", name |-> name]
ListOf(values) == [k |-> "list", values |-> values]
Binary(op, l, r) == [k |-> "binary", op |-> op, left |-> l, right |-> r]
Member(e, name) == [k |-> "member", value |-> e, name |-> name]
(* agent.access, a Member node whose value can change between two reads. *)
AccessOf(id, e) == [k |-> "access", id |-> id, value |-> e]
Call(id, callee, args) ==
    [k |-> "call", id |-> id, callee |-> callee, args |-> args]
Await(e) == [k |-> "await", value |-> e]
Parallel(id, branches) == [k |-> "parallel", id |-> id, branches |-> branches]
ParallelFor(id, binding, iterable, key, body) ==
    [k |-> "parallel_for", id |-> id, binding |-> binding,
     iterable |-> iterable, key |-> key, body |-> body]

Let(name, e) == [k |-> "let", name |-> name, mutable |-> FALSE, value |-> e]
VarLet(name, e) == [k |-> "let", name |-> name, mutable |-> TRUE, value |-> e]
Assigned(name, op, e) == [k |-> "assign", name |-> name, op |-> op, value |-> e]
Do(e) == [k |-> "expression", value |-> e]
If(c, then, else) == [k |-> "if", cond |-> c, then |-> then, else |-> else]
While(id, c, body) == [k |-> "while", id |-> id, cond |-> c, body |-> body]
Loop(id, body) == [k |-> "loop", id |-> id, body |-> body]
For(id, binding, iterable, body) ==
    [k |-> "for", id |-> id, binding |-> binding, iterable |-> iterable,
     body |-> body]
(* An arm is [patterns, body]; a pattern is <<"wildcard">> or <<"value", v>>.
   The body of an arm is a block, an expression or a statement, which the
   parser takes to be a break, a continue or a return. *)
Match(e, arms) == [k |-> "match", value |-> e, arms |-> arms]
Break == [k |-> "break"]
Continue == [k |-> "continue"]
Return(e) == [k |-> "return", value |-> e]

(* The tail is a sequence of at most one expression, and so is the else of
   an if one of at most one block. *)
Block(statements, tail) == [statements |-> statements, tail |-> tail]

IsBlock(x) == "statements" \in DOMAIN x

StatementKinds ==
    {"let", "assign", "expression", "if", "while", "loop", "for", "match", "break",
     "continue", "return"}

IsStatement(x) == ~IsBlock(x) /\ x.k \in StatementKinds

RECURSIVE Walk(_), WalkStatement(_), WalkBlock(_), WalkArm(_)

(* Every expression under a node, the node first (walk_expression): a call's
   callee and arguments, and the bodies of parallel branches. *)
Walk(e) ==
    LET all(es) == FlattenSeq([i \in DOMAIN es |-> Walk(es[i])])
    IN  <<e>> \o
        CASE e.k \in {"literal", "variable"} -> <<>>
          [] e.k = "list" -> all(e.values)
          [] e.k = "object" -> FlattenSeq([i \in DOMAIN e.fields |-> Walk(e.fields[i][2])])
          [] e.k \in {"unary", "member", "access", "await"} -> Walk(e.value)
          [] e.k = "binary" -> Walk(e.left) \o Walk(e.right)
          [] e.k = "index" -> Walk(e.value) \o Walk(e.index)
          [] e.k = "call" ->
               Walk(e.callee) \o
               FlattenSeq([i \in DOMAIN e.args |-> Walk(e.args[i].value)])
          [] e.k = "parallel" ->
               FlattenSeq([i \in DOMAIN e.branches |-> WalkBlock(e.branches[i].body)])
          [] e.k = "parallel_for" ->
               Walk(e.iterable) \o Walk(e.key) \o WalkBlock(e.body)

WalkStatement(s) ==
    CASE s.k \in {"let", "assign", "expression", "return"} -> Walk(s.value)
      [] s.k = "if" ->
           Walk(s.cond) \o WalkBlock(s.then) \o
           (IF s.else = <<>> THEN <<>> ELSE WalkBlock(s.else[1]))
      [] s.k = "while" -> Walk(s.cond) \o WalkBlock(s.body)
      [] s.k = "loop" -> WalkBlock(s.body)
      [] s.k = "for" -> Walk(s.iterable) \o WalkBlock(s.body)
      [] s.k = "match" ->
           Walk(s.value) \o
           FlattenSeq([i \in DOMAIN s.arms |-> WalkArm(s.arms[i].body)])
      [] s.k \in {"break", "continue"} -> <<>>

WalkBlock(b) ==
    FlattenSeq([i \in DOMAIN b.statements |-> WalkStatement(b.statements[i])]) \o
    (IF b.tail = <<>> THEN <<>> ELSE Walk(b.tail[1]))

WalkArm(x) ==
    IF IsBlock(x) THEN WalkBlock(x)
    ELSE IF IsStatement(x) THEN WalkStatement(x) ELSE Walk(x)

HasAwait(es) == \E i \in DOMAIN es : es[i].k = "await"

IsNamedCall(e) == e.k = "call" /\ e.callee.k = "variable"
=============================================================================
