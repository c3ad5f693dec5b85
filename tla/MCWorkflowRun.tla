---------------------------- MODULE MCWorkflowRun ----------------------------
(* Programs for WorkflowRun: ones that exercise every construct, and all the
   small bodies that can be put together from a few statements. *)
EXTENDS WorkflowRun

Arg(e) == [name |-> "", value |-> e]
NArg(name, e) == [name |-> name, value |-> e]
S(s) == Lit(Str(s))
N(n) == Lit(IntV(n))
True == Lit(Bool(TRUE))
Tail0(ss) == Block(ss, <<>>)
Branch(name, body) == [name |-> name, body |-> body]
Worker(id, key) == Call(id, Var("Worker"), <<NArg("key", S(key))>>)
Act(id, receiver, name, arg) == Await(Call(id, Member(receiver, name), <<Arg(arg)>>))
Pause(id) == Await(Call(id, Var("wait"), <<NArg("seconds", N(1))>>))
Ask(id) == Await(Call(id, Var("ask_human"), <<Arg(S("question"))>>))

Action(result, finalize) ==
    [parameters |-> <<"objective">>, result |-> result, finalize |-> finalize,
     tools |-> <<>>]

Agents ==
    [Worker |-> [access |-> Str("workspace"),
                 options |-> [x \in {"name", "role", "system", "model", "skills"} |-> Str(x)],
                 actions |-> [work |-> Action(TRUE, "none"), chat |-> Action(FALSE, "none"),
                              decide |-> Action(TRUE, "if_needed"),
                              search |-> Action(FALSE, "after_search")]]]

Good(v) == [valid |-> TRUE, value |-> v, search |-> FALSE]
Prose == [valid |-> FALSE, value |-> Str("prose"), search |-> FALSE]
Searched == [valid |-> TRUE, value |-> Str("found"), search |-> TRUE]

None == [x \in {} |-> 0]
P(functions, body, responses, mayFail) ==
    [agents |-> Agents, functions |-> functions, run |-> "ctx",
     params |-> Obj([topic |-> Str("t")]), body |-> body,
     access |-> Str("workspace"), overrides |-> None,
     responses |-> responses, mayFail |-> mayFail]

Plain(body) == P(None, body, {Good(Str("done"))}, FALSE)

\* The goal Workflow: work until the decision is not "active".
Goal ==
    P(None,
      Tail0(<<Let("w", Worker(1, "main")),
              Loop(2, Tail0(<<
                Let("d", Act(3, Var("w"), "work", Member(Var("ctx"), "request"))),
                Match(Var("d"), <<
                  [patterns |-> <<<<"value", Str("active")>>>>, body |-> Tail0(<<Continue>>)],
                  [patterns |-> <<<<"value", Str("complete")>>>>,
                   body |-> Tail0(<<Return(Var("d"))>>)],
                  [patterns |-> <<<<"wildcard">>>>,
                   body |-> Block(<<>>, <<Call(4, Var("fail"), <<Arg(S("status"))>>)>>)]>>)>>))>>),
      {Good(Str("active")), Good(Str("complete"))}, FALSE)

\* Two branches: one asks, and gives the answer to an Agent of its own.
Two ==
    Plain(Block(<<Let("r", Parallel(1, <<
        Branch("left", Block(<<Let("w", Worker(2, "a"))>>, <<Act(3, Var("w"), "work", N(1))>>)),
        Branch("right", Block(<<Let("w", Worker(4, "b")), Let("m", Ask(5))>>,
                              <<Act(6, Var("w"), "chat", Var("m"))>>))>>))>>,
      <<Var("r")>>))

\* Keyed Agents in a function that is called from two places.
Research ==
    [research |-> [parameters |-> <<"route">>,
       body |-> Tail0(<<Let("w", Call(1, Var("Worker"), <<NArg("key", Var("route"))>>)),
                        Let("a", Act(2, Var("w"), "chat", Var("route"))),
                        Return(ListOf(<<Var("route"), Var("a")>>))>>)]]
Keyed ==
    P(Research,
      Block(<<Let("rs", ParallelFor(3, "x", ListOf(<<S("p"), S("q")>>), Var("x"),
                  Block(<<>>, <<Await(Call(4, Var("research"), <<Arg(Var("x"))>>))>>))),
              VarLet("n", N(0)),
              For(5, "r", Var("rs"), Tail0(<<Assigned("n", "add", N(1))>>)),
              Let("again", Await(Call(6, Var("research"), <<NArg("route", S("p"))>>)))>>,
            <<ListOf(<<Var("rs"), Var("n"), Var("again")>>)>>),
      {Good(Str("A"))}, FALSE)

\* A for whose turns differ, with a parallel inside.
Turns ==
    Plain(Block(<<VarLet("n", N(0)),
      For(1, "i", Call(2, Var("range"), <<Arg(N(2))>>), Tail0(<<
        Let("p", Parallel(3, <<
           Branch("l", Tail0(<<If(Binary("equal", Var("i"), N(0)),
                                  Tail0(<<Assigned("n", "set", N(5)), Do(Pause(4))>>), <<>>),
                               Return(Var("n"))>>)),
           Branch("r", Block(<<>>, <<Act(5, Worker(6, "main"), "chat", Var("i"))>>))>>))>>))>>,
      <<Var("n")>>))

\* One Agent in two branches.
Busy ==
    Plain(Block(<<Let("w", Worker(1, "main")),
      Let("r", Parallel(2, <<
        Branch("l", Block(<<>>, <<Act(3, Var("w"), "chat", N(1))>>)),
        Branch("r", Block(<<>>, <<Act(4, Var("w"), "chat", N(2))>>))>>))>>, <<Var("r")>>))

\* Finalization and repair.
Mended ==
    P(None, Block(<<Let("w", Worker(1, "main")),
                    Let("s", Act(2, Var("w"), "search", N(0))),
                    Let("d", Act(3, Var("w"), "decide", N(1)))>>,
                  <<Var("d")>>),
      {Good(Str("ok")), Prose, Searched}, FALSE)

\* Every durable builtin in turn.
Builtins ==
    Plain(Block(<<Let("w", Worker(1, "main")),
      Do(Await(Call(2, Member(Var("w"), "set_access"), <<Arg(S("read_only"))>>))),
      Let("old", AccessOf(3, Var("w"))),
      Let("d", Act(4, Var("w"), "chat", Var("old"))),
      Let("c", Await(Call(5, Member(Member(Var("ctx"), "project"), "changes"), <<>>))),
      Do(Await(Call(6, Var("publish_home"), <<Arg(Var("d"))>>))),
      Let("a", Await(Call(7, Var("publish_artifact"),
                          <<Arg(S("n")), Arg(Var("d")), NArg("agent", Var("w"))>>)))>>,
      <<ListOf(<<Member(Var("a"), "id"), Member(Var("c"), "cursor")>>)>>))

\* A branch that fails while the other is at work, in two ways.
Failing ==
    P(None, Block(<<>>, <<Parallel(1, <<
        Branch("l", Block(<<>>, <<Act(2, Worker(3, "a"), "chat", N(1))>>)),
        Branch("r", Tail0(<<Do(Pause(4)), Return(N(2))>>))>>)>>),
      {Good(Str("done"))}, TRUE)

SameKeys ==
    Plain(Block(<<>>, <<ParallelFor(1, "x", ListOf(<<N(1), N(1)>>), Var("x"),
                                    Block(<<>>, <<Pause(2)>>))>>))

\* The two awaits of a condition are asked once, whatever the turns.
Condition ==
    Plain(Block(<<VarLet("n", N(0)),
      While(1, Binary("and", Binary("equal", Ask(2), S("answer")),
                      Binary("less", Var("n"), N(2))),
            Tail0(<<Assigned("n", "add", N(1)), Do(Pause(3))>>))>>, <<Var("n")>>))

\* An Agent that may do less than its template says, and asks for more.
Modest ==
    [P(None, Block(<<Let("w", Worker(1, "main")),
                     Let("d", Act(2, Var("w"), "chat", AccessOf(3, Var("w")))),
                     Do(Await(Call(4, Member(Var("w"), "set_access"),
                                   <<Arg(S("full_access"))>>)))>>, <<Var("d")>>),
       {Good(Str("done"))}, FALSE)
     EXCEPT !.overrides = [Worker |-> Str("read_only")]]

\* What the Validator lets pass and the interpreter does not.
Outside(s) == Plain(Tail0(<<Do(Pause(1)), s>>))

MCOutside ==
    {Outside(Let("f", Var("len"))),
     Outside(Do(Await(Call(2, Member(Var("nobody"), "chat"), <<Arg(N(1))>>)))),
     Outside(Do(Await(Call(2, Var("wait"), <<NArg("hours", N(1))>>)))),
     Outside(Do(Call(2, Var("len"), <<NArg("x", ListOf(<<>>))>>))),
     Outside(Do(Await(Call(2, Var("ask_human"), <<NArg("response", N(1))>>)))),
     Outside(Do(Await(Call(2, Member(Worker(3, "main"), "set_access"),
                           <<NArg("level", S("read_only"))>>)))),
     Outside(Do(Await(Call(2, Member(Parallel(3, <<Branch("l", Tail0(<<Break>>))>>), "chat"),
                           <<Arg(N(1))>>))))}

\* All bodies of two of these statements, in every construct.
Pieces(p) ==
    {Break, Continue, Return(N(1)), Do(Pause(p + 1)), Let("x", N(1)), VarLet("x", N(1)),
     Assigned("x", "set", N(2)), Do(Var("x")), Return(Var("y")),
     If(True, Tail0(<<Break>>), <<>>),
     If(True, Tail0(<<Do(Pause(p + 2))>>), <<Tail0(<<Continue>>)>>),
     Match(N(1), <<[patterns |-> <<<<"value", IntV(2)>>>>, body |-> Break],
                   [patterns |-> <<<<"wildcard">>>>, body |-> Tail0(<<Continue>>)]>>),
     Match(N(1), <<[patterns |-> <<<<"value", IntV(1)>>>>, body |-> Pause(p + 1)],
                   [patterns |-> <<<<"wildcard">>>>, body |-> Continue]>>),
     Match(N(1), <<[patterns |-> <<<<"value", IntV(2)>>>>, body |-> Tail0(<<>>)]>>),
     Do(Call(p + 3, Var("again"), <<Arg(N(1))>>))}

Around(b) ==
    {b,
     Tail0(<<Loop(10, b)>>),
     Tail0(<<While(10, True, b)>>),
     Tail0(<<For(10, "y", ListOf(<<N(1), N(2)>>), b)>>),
     Tail0(<<For(10, "z", ListOf(<<N(1), N(2)>>),
              Tail0(<<Do(Parallel(11, <<Branch("l", b), Branch("r", Tail0(<<>>))>>))>>))>>),
     Tail0(<<Do(ParallelFor(10, "y", ListOf(<<N(1), N(2)>>), Var("y"), b))>>)}

Helper(body) == [again |-> [parameters |-> <<"y">>, body |-> body]]

SmallBodies == {Tail0(<<a, b>>) : a \in Pieces(0), b \in Pieces(20)}

MCSmall ==
    {P(Helper(Tail0(<<>>)), b, {Good(Str("done"))}, FALSE) :
       b \in UNION {Around(c) : c \in SmallBodies}} \cup
    {P(Helper(b), Tail0(<<Do(Call(4, Var("again"), <<Arg(N(1))>>))>>),
       {Good(Str("done"))}, FALSE) : b \in SmallBodies}

MCNamed == {Goal, Two, Keyed, Turns, Busy, Mended, Builtins, Failing, SameKeys,
            Condition, Modest} \cup MCOutside

MCPrograms == MCNamed \cup MCSmall

MCIntMin == -8

\* `while await ask_human(...)`: the await is in the condition.
MCAsking ==
    {Plain(Tail0(<<While(1, Binary("equal", Ask(2), S("answer")), Tail0(<<Let("x", N(1))>>))>>))}

=============================================================================
