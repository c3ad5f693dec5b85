---------------------------- MODULE WorkflowValues ----------------------------
(***************************************************************************)
(* The values of Workflow Language v1 and the pure part of its             *)
(* interpreter: scopes, operators, argument binding and builtins           *)
(* (crates/workflow/src/interpreter.rs).                                   *)
(*                                                                         *)
(* A value is a pair <<tag, payload>>, as RuntimeValue is a tagged enum.   *)
(* Strings are atoms: only the operations that treat a string as a whole   *)
(* are modelled, and their order is not.  A floating-point number is the   *)
(* fraction it stands for, in lowest terms and never rounded.  An          *)
(* operation that fails returns <<"error", kind>>; a Rust panic is         *)
(* <<"error", "panic">>.  i64 is IntMin..IntMax.                           *)
(***************************************************************************)
EXTENDS Integers, Sequences, FiniteSets

CONSTANTS IntMin, IntMax

ASSUME IntRange == IntMin \in Int /\ IntMax \in Int /\ IntMin < 0 /\ IntMax > 0

Null == <<"null", 0>>
Bool(b) == <<"bool", b>>
IntV(n) == <<"int", n>>
Str(s) == <<"string", s>>
List(q) == <<"list", q>>
Obj(f) == <<"object", f>>
Fail(kind) == <<"error", kind>>

Failed(v) == v[1] = "error"

(* RuntimeValue::transparent: an Action result or a HumanMessage stands for
   the JSON value inside it, which holds no further wrapper. *)
Transparent(v) == IF v[1] \in {"action", "human"} THEN v[2] ELSE v

Tag(v) == Transparent(v)[1]

Opaque == {"context", "project", "agent"}

(* RuntimeValue::to_json: opaque values do not cross a JSON boundary. *)
RECURSIVE ToJson(_)
ToJson(v) ==
    LET t == Transparent(v)
        first(Bad) == CHOOSE i \in Bad : \A j \in Bad : i <= j
    IN  CASE t[1] \in Opaque -> Fail("opaque")
          [] t[1] = "list" ->
               LET js == [i \in DOMAIN t[2] |-> ToJson(t[2][i])]
                   bad == {i \in DOMAIN js : Failed(js[i])}
               IN  IF bad = {} THEN List(js) ELSE js[first(bad)]
          [] t[1] \in {"object", "artifact"} ->
               LET js == [x \in DOMAIN t[2] |-> ToJson(t[2][x])]
               IN  IF \E x \in DOMAIN js : Failed(js[x])
                   THEN Fail("opaque") ELSE Obj(js)
          [] OTHER -> t

(* access_value: the presets, from the least access to the most *)
AccessPresets == <<"model_only", "read_only", "workspace", "full_access">>

IsAccess(v) ==
    Tag(v) = "string" /\ \E i \in DOMAIN AccessPresets : AccessPresets[i] = Transparent(v)[2]

IsInt64(n) == n \in IntMin .. IntMax

Checked(n, what) == IF IsInt64(n) THEN IntV(n) ELSE Fail(what)

(***************************************************************************)
(* Environment: a stack of scopes, each from names to cells.               *)
(***************************************************************************)
Cell(mutable, v) == [mutable |-> mutable, value |-> v]

NoScope == [x \in {} |-> Cell(FALSE, Null)]

Push(env) == Append(env, NoScope)

Pop(env) == IF env = <<>> THEN env ELSE SubSeq(env, 1, Len(env) - 1)

(* The innermost scope that binds the name, or 0. *)
ScopeOf(env, name) ==
    LET having == {i \in DOMAIN env : name \in DOMAIN env[i]}
    IN  IF having = {} THEN 0 ELSE CHOOSE i \in having : \A j \in having : j <= i

Lookup(env, name) ==
    LET i == ScopeOf(env, name)
    IN  IF i = 0 THEN Fail("undefined_binding") ELSE env[i][name].value

DeclareError(env, name) ==
    IF env # <<>> /\ name \in DOMAIN env[Len(env)] THEN {"duplicate_binding"} ELSE {}

Declare(env, name, mutable, v) ==
    LET e == IF env = <<>> THEN Push(env) ELSE env
        n == Len(e)
    IN  [e EXCEPT ![n] = [x \in DOMAIN @ \cup {name} |->
                             IF x = name THEN Cell(mutable, v) ELSE @[x]]]

AssignError(env, name) ==
    LET i == ScopeOf(env, name)
    IN  IF i = 0 THEN {"undefined_binding"}
        ELSE IF env[i][name].mutable THEN {} ELSE {"immutable_binding"}

Assign(env, name, v) == [env EXCEPT ![ScopeOf(env, name)][name].value = v]

(***************************************************************************)
(* Operators.                                                              *)
(***************************************************************************)
Abs(n) == IF n < 0 THEN -n ELSE n

(* Rust's / and % round toward zero; TLA+'s round down. *)
Quotient(a, b) ==
    LET q == Abs(a) \div Abs(b) IN IF (a < 0) = (b < 0) THEN q ELSE -q

Rest(a, b) == a - b * Quotient(a, b)

(* Taking the remainder of i64::MIN by -1 overflows, which Rust answers with
   a panic in every build. *)
Overflows(a, b) == a = IntMin /\ b = -1

Number(a, b) ==
    LET whole == {k \in 1 .. Abs(b) : (a * k) % Abs(b) = 0}
        d == CHOOSE k \in whole : \A j \in whole : k <= j
    IN  <<"number", <<Quotient(a * d, b), d>>>>

Comparisons == {"less", "less_equal", "greater", "greater_equal"}

Compare(op, a, b) ==
    Bool(CASE op = "less" -> a < b
           [] op = "less_equal" -> a <= b
           [] op = "greater" -> a > b
           [] op = "greater_equal" -> a >= b)

IntBinary(op, a, b) ==
    CASE op = "add" -> Checked(a + b, "overflow")
      [] op = "subtract" -> Checked(a - b, "overflow")
      [] op = "multiply" -> Checked(a * b, "overflow")
      [] op = "divide" ->
           IF b = 0 THEN Fail("division_by_zero")
           ELSE IF Overflows(a, b) THEN Fail("panic")
           ELSE IF Rest(a, b) = 0 THEN IntV(Quotient(a, b))
           ELSE Number(a, b)
      [] op = "remainder" ->
           IF b = 0 THEN Fail("division_by_zero")
           ELSE IF Overflows(a, b) THEN Fail("panic")
           ELSE IntV(Rest(a, b))
      [] op \in Comparisons -> Compare(op, a, b)

Fraction(v) == IF Tag(v) = "int" THEN <<Transparent(v)[2], 1>> ELSE Transparent(v)[2]

NumericBinary(op, x, y) ==
    LET a == x[1] * y[2]
        b == y[1] * x[2]
        d == x[2] * y[2]
        exact == CASE op = "add" -> <<a + b, d>>
                   [] op = "subtract" -> <<a - b, d>>
                   [] op = "multiply" -> <<x[1] * y[1], d>>
                   [] op = "divide" -> <<a, b>>
                   [] op = "remainder" -> <<Rest(a, b), d>>
    IN  IF op \in Comparisons THEN Compare(op, a, b)
        ELSE IF op \in {"divide", "remainder"} /\ b = 0 THEN Fail("division_by_zero")
        ELSE Number(exact[1], exact[2])

RuntimeEqual(l, r) ==
    LET a == ToJson(l)
        b == ToJson(r)
    IN  IF Failed(a) THEN a ELSE IF Failed(b) THEN b ELSE Bool(a = b)

Negate(v) == IF Tag(v) = "bool" THEN Bool(~v[2]) ELSE v

ApplyBinary(op, l, r) ==
    CASE op = "equal" -> RuntimeEqual(l, r)
      [] op = "not_equal" -> Negate(RuntimeEqual(l, r))
      [] op = "coalesce" -> r
      [] Tag(l) = "int" /\ Tag(r) = "int" ->
           IntBinary(op, Transparent(l)[2], Transparent(r)[2])
      [] {Tag(l), Tag(r)} \in {{"number"}, {"int", "number"}} ->
           NumericBinary(op, Fraction(l), Fraction(r))
      [] Tag(l) = "string" /\ Tag(r) = "string" /\ op = "add" ->
           Str(Transparent(l)[2] \o Transparent(r)[2])
      [] OTHER -> Fail("operands")

ApplyUnary(op, v) ==
    CASE op = "not" -> IF Tag(v) = "bool" THEN Bool(~Transparent(v)[2])
                       ELSE Fail("operands")
      [] op = "negate" -> IF Tag(v) = "int"
                          THEN Checked(-Transparent(v)[2], "overflow")
                          ELSE IF Tag(v) = "number"
                          THEN Number(-Fraction(v)[1], Fraction(v)[2])
                          ELSE Fail("operands")

(* index_value; lists count from zero. *)
IndexValue(v, i) ==
    LET t == Transparent(v)
        x == Transparent(i)[2]
    IN  CASE Tag(v) = "list" /\ Tag(i) = "int" ->
               IF x + 1 \in DOMAIN t[2] THEN t[2][x + 1] ELSE Fail("index")
          [] Tag(v) \in {"object", "artifact"} /\ Tag(i) = "string" ->
               IF x \in DOMAIN t[2] THEN t[2][x] ELSE Fail("field")
          [] OTHER -> Fail("operands")

(* finite_collection: an object is iterated by its keys, which BTreeMap
   orders; the model's objects that are iterated have one. *)
Elements(v) ==
    LET t == Transparent(v)
    IN  CASE t[1] = "list" -> t
          [] t[1] = "object" ->
               IF Cardinality(DOMAIN t[2]) = 1
               THEN List(<<Str(CHOOSE x \in DOMAIN t[2] : TRUE)>>)
               ELSE List(<<>>)
          [] OTHER -> Fail("operands")

(* canonical_scalar_key keeps the type beside the value, so 1 and "1" are
   different keys. *)
CanonicalKey(v) ==
    IF Tag(v) \in {"null", "bool", "int", "number", "string"}
    THEN Transparent(v) ELSE Fail("scalar_key")

(***************************************************************************)
(* Arguments: a sequence of [name, value], with name "" when positional.   *)
(***************************************************************************)
Positional(args) == \A i \in DOMAIN args : args[i].name = ""

Repeats(args) == \E i, j \in DOMAIN args :
                    /\ i # j
                    /\ args[i].name # ""
                    /\ args[i].name = args[j].name

Named(args, name) == {i \in DOMAIN args : args[i].name = name}

ValueOf(args, name) == args[CHOOSE i \in Named(args, name) : TRUE].value

(* bind_arguments: all positional or all named. *)
BindErrors(parameters, args) ==
    CASE Positional(args) ->
           IF Len(args) = Len(parameters) THEN {} ELSE {"arity"}
      [] \E i \in DOMAIN args : args[i].name = "" -> {"named_only"}
      [] Repeats(args) -> {"repeated_argument"}
      [] \E i \in DOMAIN parameters : Named(args, parameters[i]) = {} ->
           {"missing_argument"}
      [] OTHER -> {}

Bind(parameters, args) ==
    [i \in DOMAIN parameters |->
        IF Positional(args) THEN args[i].value ELSE ValueOf(args, parameters[i])]

(* flexible_arguments: positional arguments take the parameters in order. *)
FlexibleNames(parameters, args) ==
    [i \in DOMAIN args |->
        IF args[i].name # "" THEN args[i].name
        ELSE LET k == Cardinality({j \in 1 .. i : args[j].name = ""})
             IN  IF k \in DOMAIN parameters THEN parameters[k] ELSE ""]

FlexibleErrors(parameters, args) ==
    LET names == FlexibleNames(parameters, args)
    IN  CASE \E i \in DOMAIN names : names[i] = "" -> {"too_many_arguments"}
          [] \E i \in DOMAIN names :
                \A j \in DOMAIN parameters : parameters[j] # names[i] ->
               {"unknown_argument"}
          [] \E i, j \in DOMAIN names : i # j /\ names[i] = names[j] ->
               {"repeated_argument"}
          [] OTHER -> {}

Flexible(parameters, args) ==
    LET names == FlexibleNames(parameters, args)
    IN  [x \in {names[i] : i \in DOMAIN names} |->
            args[CHOOSE i \in DOMAIN names : names[i] = x].value]

(***************************************************************************)
(* Pure builtins (eval_pure_builtin).  The compiler has checked the arity. *)
(***************************************************************************)
AllInts(vs) == \A i \in DOMAIN vs : Tag(vs[i]) = "int"

(* range: the next value is computed even after the last one, so a range that
   ends at the edge of i64 fails although all its values fit. *)
RECURSIVE RangeFrom(_, _, _, _)
RangeFrom(current, end, step, done) ==
    IF ~(IF step > 0 THEN current < end ELSE current > end) THEN List(done)
    ELSE IF ~IsInt64(current + step) THEN Fail("overflow")
    ELSE RangeFrom(current + step, end, step, Append(done, IntV(current)))

RangeOf(vs) ==
    LET n == [i \in DOMAIN vs |-> Transparent(vs[i])[2]]
    IN  CASE ~AllInts(vs) -> Fail("operands")
          [] Len(vs) = 1 -> RangeFrom(0, n[1], 1, <<>>)
          [] Len(vs) = 2 -> RangeFrom(n[1], n[2], 1, <<>>)
          [] Len(vs) = 3 /\ n[3] = 0 -> Fail("range_step")
          [] Len(vs) = 3 /\ n[3] # 0 -> RangeFrom(n[1], n[2], n[3], <<>>)
          [] OTHER -> Fail("arity")

Enumerate(v) ==
    LET q == Elements(v)
    IN  IF Failed(q) THEN q
        ELSE List([i \in DOMAIN q[2] |-> List(<<IntV(i - 1), q[2][i]>>)])

ZipOf(vs) ==
    LET qs == [i \in DOMAIN vs |-> Elements(vs[i])]
        lengths == {Len(qs[i][2]) : i \in DOMAIN qs}
    IN  IF \E i \in DOMAIN qs : Failed(qs[i]) THEN Fail("operands")
        ELSE LET n == CHOOSE k \in lengths : \A j \in lengths : k <= j
             IN  List([k \in 1 .. n |-> List([i \in DOMAIN qs |-> qs[i][2][k]])])

(* The first of the least (greatest) values: a later equal one does not
   replace it. *)
RECURSIVE Select(_, _, _)
Select(name, best, rest) ==
    LET a == Transparent(Head(rest))[2]
        b == Transparent(best)[2]
    IN  IF rest = <<>> THEN best
        ELSE IF ~AllInts(<<best, Head(rest)>>) THEN Fail("incomparable")
        ELSE Select(name,
                    IF (name = "min" /\ a < b) \/ (name = "max" /\ a > b)
                    THEN Head(rest) ELSE best,
                    Tail(rest))

MinMax(name, vs) ==
    LET q == IF Len(vs) = 1 THEN Elements(vs[1]) ELSE List(vs)
    IN  IF Failed(q) THEN q
        ELSE IF q[2] = <<>> THEN Fail("empty_collection")
        ELSE Select(name, Head(q[2]), Tail(q[2]))

Clamp(vs) ==
    LET n == [i \in DOMAIN vs |-> Transparent(vs[i])[2]]
    IN  IF ~AllInts(vs) THEN Fail("operands")
        ELSE IF n[2] > n[3] THEN Fail("clamp_bounds")
        ELSE IntV(IF n[1] < n[2] THEN n[2] ELSE IF n[1] > n[3] THEN n[3] ELSE n[1])

GetOf(vs) ==
    LET default == IF Len(vs) = 3 THEN vs[3] ELSE Null
        found == IndexValue(vs[1], vs[2])
    IN  IF Tag(vs[1]) = "artifact" THEN Fail("operands")
        ELSE IF found \in {Fail("index"), Fail("field")} THEN default ELSE found

Slice(vs) ==
    LET q == Transparent(vs[1])[2]
        start == Transparent(vs[2])[2]
        end == IF Len(vs) = 3 THEN Transparent(vs[3])[2] ELSE Len(q)
    IN  CASE ~AllInts(Tail(vs)) -> Fail("operands")
          [] start < 0 \/ end < 0 -> Fail("slice")
          [] Tag(vs[1]) # "list" -> Fail("operands")
          [] start > end \/ end > Len(q) -> Fail("slice")
          [] OTHER -> List(SubSeq(q, start + 1, end))

IsKind ==
    [is_null |-> {"null"}, is_bool |-> {"bool"}, is_int |-> {"int"},
     is_number |-> {"int", "number"}, is_string |-> {"string"},
     is_list |-> {"list"}, is_object |-> {"object"}]

PureBuiltins ==
    {"len", "range", "enumerate", "zip", "min", "max", "clamp", "get", "append",
     "extend", "update", "slice", "assert", "fail"} \cup DOMAIN IsKind

PureBuiltin(name, args) ==
    LET vs == [i \in DOMAIN args |-> args[i].value]
        a == Transparent(vs[1])
        b == Transparent(vs[2])
    IN  CASE ~Positional(args) -> Fail("positional_only")
          [] name = "len" ->
               IF a[1] = "list" THEN IntV(Len(a[2]))
               ELSE IF a[1] = "object" THEN IntV(Cardinality(DOMAIN a[2]))
               ELSE Fail("operands")
          [] name = "range" -> RangeOf(vs)
          [] name = "enumerate" -> Enumerate(vs[1])
          [] name = "zip" -> ZipOf(vs)
          [] name \in {"min", "max"} -> MinMax(name, vs)
          [] name = "clamp" -> Clamp(vs)
          [] name = "get" -> GetOf(vs)
          [] name = "append" ->
               IF a[1] = "list" THEN List(Append(a[2], vs[2])) ELSE Fail("operands")
          [] name = "extend" ->
               IF a[1] = "list" /\ b[1] = "list" THEN List(a[2] \o b[2])
               ELSE Fail("operands")
          [] name = "update" ->
               IF a[1] = "object" /\ b[1] = "object"
               THEN Obj([x \in DOMAIN a[2] \cup DOMAIN b[2] |->
                            IF x \in DOMAIN b[2] THEN b[2][x] ELSE a[2][x]])
               ELSE Fail("operands")
          [] name = "slice" -> Slice(vs)
          [] name \in DOMAIN IsKind -> Bool(a[1] \in IsKind[name])
          [] name = "assert" ->
               IF a[1] # "bool" THEN Fail("operands")
               ELSE IF a[2] THEN Null ELSE Fail("assertion")
          [] name = "fail" -> Fail("failed")
=============================================================================
